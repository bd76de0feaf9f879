------------------------------ MODULE ThreatFeed ------------------------------
(* ThreatFeed: the rule files, read line by line, and the lookups.  A line, a  *)
(* name and a pattern are sequences of tokens.                                 *)
EXTENDS Normalizer

to_lower(s) ==
  [i \in DOMAIN s |->
    IF s[i].t = "byte" /\ s[i].k \in 65 .. 90 THEN Byte(s[i].k + 32) ELSE Folded(s[i])]

trim(s) ==
  LET ink == {i \in DOMAIN s : s[i] \notin White}
  IN  IF ink = {} THEN <<>> ELSE SubSeq(s, Min(ink), Max(ink))

\* Blank lines and comments are no rules.
Rule(v) == v # <<>> /\ v[1] # Plain("#")

load_set(lines, lower) ==
  {IF lower THEN to_lower(v) ELSE v : v \in {w \in {trim(l) : l \in lines} : Rule(w)}}

\* name|severity|pattern: what a line lacks is empty, and further bars belong to the
\* pattern.  Without a severity the threat is a malware payload.
Field(v, n) ==
  LET bars == {i \in DOMAIN v : v[i] = Plain("|")}
      bar(m) == IF Cardinality(bars) < m THEN Len(v) + 1
                ELSE CHOOSE i \in bars : Cardinality({j \in bars : j <= i}) = m
      from == IF n = 1 THEN 1 ELSE bar(n - 1) + 1
  IN  trim(SubSeq(v, from, IF n = 3 THEN Len(v) ELSE bar(n) - 1))

Signature(v) ==
  [name |-> Field(v, 1), pattern |-> to_lower(Field(v, 3)),
   severity |-> IF Field(v, 2) = <<>> THEN Text(<<"Malware Payload">>) ELSE Field(v, 2)]

load_signatures(lines) ==
  LET rules == SelectSeq([i \in DOMAIN lines |-> trim(lines[i])], Rule)
  IN  SelectSeq([i \in DOMAIN rules |-> Signature(rules[i])],
                LAMBDA sig : sig.pattern # <<>>)

load(files) ==
  [ja3 |-> files.ja3, domains |-> load_set(files.domains, TRUE),
   ips |-> load_set(files.ips, FALSE), signatures |-> load_signatures(files.signatures)]

Bug_is_bad_domain(feed, host) ==
  LET h == to_lower(host)
  IN  \E i \in DOMAIN h : SubSeq(h, i, Len(h)) \in feed.domains

\* The name itself, or a parent domain of it.
is_bad_domain(feed, host) ==
  LET h == to_lower(host)
  IN  h \in feed.domains
      \/ \E i \in DOMAIN h : h[i] = Byte(46) /\ SubSeq(h, i + 1, Len(h)) \in feed.domains

\* The first that matches: the set of it, or none.
match_signature(feed, text) ==
  LET hits == {i \in DOMAIN feed.signatures : Occurs(text, feed.signatures[i].pattern)}
  IN  IF hits = {} THEN {} ELSE {feed.signatures[Min(hits)]}
===============================================================================
