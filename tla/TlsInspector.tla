---------------------------- MODULE TlsInspector ----------------------------
(* parse_tls_client_hello(): server name and JA3 string of a ClientHello at    *)
(* the beginning of a payload.  The hash is left out: JA3 strings are compared *)
(* themselves.                                                                 *)
EXTENDS Normalizer

CONSTANT RandomLen   \* the 32 bytes of the random

ASSUME RandomLenAssumption == RandomLen \in Nat

IsByte(p, i, V) == p[i].t = "byte" /\ p[i].k \in V
U16(p, i) == 256 * p[i].k + p[i + 1].k

Greased(v) == v % 16 = 10 /\ (v \div 256) % 16 = 10
Pairs(p, i, n) ==
  SelectSeq([m \in 1 .. n \div 2 |-> U16(p, i + 2 * (m - 1))], LAMBDA v : ~Greased(v))

\* The extensions that fit, up to the first one that does not.
Extensions(p, first, end) ==
  LET rest[i \in first .. end + 1] ==
        IF i + 3 > end \/ i + 3 + U16(p, i + 2) > end THEN <<>>
        ELSE <<[type |-> U16(p, i), body |-> SubSeq(p, i + 4, i + 3 + U16(p, i + 2))]>>
               \o rest[i + 4 + U16(p, i + 2)]
  IN  IF first > end THEN <<>> ELSE rest[first]

OfType(exts, type) == SelectSeq(exts, LAMBDA e : e.type = type)

Bug_ServerName(exts) ==
  LET named == SelectSeq(OfType(exts, 0), LAMBDA e : Len(e.body) >= 5)
  IN  IF named = <<>> THEN <<>> ELSE SubSeq(Last(named).body, 4, Len(Last(named).body))

\* Of several server names the last one counts.
ServerName(exts) ==
  LET named == SelectSeq(OfType(exts, 0), LAMBDA e :
                 Len(e.body) >= 5 /\ 5 + U16(e.body, 4) <= Len(e.body))
  IN  IF named = <<>> THEN <<>>
      ELSE SubSeq(Last(named).body, 6, 5 + U16(Last(named).body, 4))

Curves(body) ==
  IF Len(body) < 2 THEN <<>> ELSE Pairs(body, 3, Min({U16(body, 1), Len(body) - 2}))
Formats(body) ==
  IF body = <<>> THEN <<>>
  ELSE [m \in 1 .. Min({body[1].k, Len(body) - 1}) |-> body[m + 1].k]

\* The list of an extension, over all its occurrences.
Lists(exts, type) ==
  LET found == OfType(exts, type)
  IN  FlattenSeq([m \in DOMAIN found |->
        IF type = 10 THEN Curves(found[m].body) ELSE Formats(found[m].body)])

NoHello == [hello |-> FALSE, sni |-> <<>>, ja3 |-> <<>>]
Hello(name, fingerprint) == [hello |-> TRUE, sni |-> name, ja3 |-> fingerprint]

\* The lengths are those of the session id, the cipher suites, the compression methods
\* and the extensions; that of the record and of the handshake are skipped.
parse_tls_client_hello(p) ==
  LET id == 12 + RandomLen
      suites == id + 1 + p[id].k
      methods == suites + 2 + U16(p, suites)
      list == methods + 1 + p[methods].k
      exts == Extensions(p, list + 2, Min({list + 1 + U16(p, list), Len(p)}))
      types == SelectSeq([m \in DOMAIN exts |-> exts[m].type], LAMBDA v : ~Greased(v))
  IN  IF \/ Len(p) < id \/ ~IsByte(p, 1, {22}) \/ ~IsByte(p, 6, {1})
         \/ Len(p) < suites + 1 \/ Len(p) < methods
        THEN NoHello
      ELSE IF Len(p) < list + 1 THEN Hello(<<>>, <<>>)
      ELSE Hello(ServerName(exts),
                 <<U16(p, 10), Pairs(p, suites + 2, U16(p, suites)), types,
                   Lists(exts, 10), Lists(exts, 11)>>)
===============================================================================
