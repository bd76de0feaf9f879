------------------------------ MODULE Detectors ------------------------------
(* The recognisers of NpuFilter: what each finds in a payload.  Sizes and      *)
(* windows are counted in tokens.                                              *)
EXTENDS Normalizer, TlsInspector, ThreatFeed

CONSTANTS FtpWindow, StorName,     \* 2048 and 200
          CredWindow, MailMin,     \* 2048 and 5
          LoginWindow, PathMax, LoginMin,   \* 8192, 256 and 5
          IpcReach, BigSmb,        \* 200 and 10000
          RatWindow, DelimMin, RunMin,      \* 4096, 3 and 3
          TextMin, LongMin,        \* the least sizes: 10 to 20, and 50
          SmallText,               \* 4096
          LabelMin, Consonants,    \* 16; the bytes of the consonants but y
          BuiltinJa3               \* bad_ja3, as JA3 strings instead of hashes

ASSUME DetectorAssumption ==
  /\ {FtpWindow, StorName, CredWindow, LoginWindow, PathMax, IpcReach, BigSmb,
      RatWindow, TextMin, LongMin} \subseteq Nat
  /\ {MailMin, LoginMin, DelimMin, RunMin} \subseteq Nat \ {0}

Bit(b) == IF b THEN 1 ELSE 0
At(s, w) == {i \in DOMAIN s : s[i] = Plain(w)}
Has(s, w) == At(s, w) # {}
HasOne(s, W) == \E w \in W : Has(s, w)
Bug_detect_heartbleed(p) ==
  \E i \in 1 .. Len(p) - 7 :
    /\ \A j \in i .. i + 7 : p[j].t = "byte"
    /\ IsByte(p, i, {24}) /\ IsByte(p, i + 1, {3}) /\ IsByte(p, i + 2, 0 .. 3)
    /\ U16(p, i + 3) >= 3 /\ i + 4 + U16(p, i + 3) = Len(p)
    /\ IsByte(p, i + 5, {1, 2})
    /\ U16(p, i + 6) > U16(p, i + 3) - 3 + 16

\* A heartbeat record, complete, that claims more data than it has.
detect_heartbleed(p) ==
  \E i \in 1 .. Len(p) - 7 :
    /\ \A j \in i .. i + 7 : p[j].t = "byte"
    /\ IsByte(p, i, {24}) /\ IsByte(p, i + 1, {3}) /\ IsByte(p, i + 2, 0 .. 3)
    /\ U16(p, i + 3) >= 3 /\ i + 4 + U16(p, i + 3) <= Len(p)
    /\ IsByte(p, i + 5, {1, 2})
    /\ U16(p, i + 6) > U16(p, i + 3) - 3 + 16

detect_spnego(p) == HasOne(p, {"spnego-oid", "NTLMSSP"})

Line(s, i) == {j \in i + 1 .. Len(s) : \A l \in i + 1 .. j : s[l] \notin LineEnds}

\* An upload after a login, of a file with a telling name (the first upload only), or
\* several of them.
detect_ftp_activity(p) ==
  LET text == Window(p, FtpWindow)
      stors == At(text, "STOR ")
  IN  /\ Len(p) >= TextMin /\ stors # {}
      /\ \/ Has(text, "USER ") /\ Has(text, "PASS ")
         \/ \E j \in Line(text, Min(stors)) :
              j <= Min(stors) + StorName /\ text[j] \in {Plain("PW_"), Plain("wallet")}
         \/ Cardinality(stors) >= 2

Printable(p) == {i \in DOMAIN p : ~IsByte(p, i, 0 .. 255 \ ({9, 10, 13} \cup 32 .. 126))}

\* Addresses in a text, which is not searched past an '@' at its very beginning.
Mails(text) ==
  IF text # <<>> /\ text[1] = Plain("@") THEN {}
  ELSE {i \in At(text, "@") : i < Len(text) /\ text[i - 1] = Plain("user")
                                            /\ text[i + 1] = Plain("a.example")}

\* The score of what an information stealer sends home.
detect_credential_content(p) ==
  LET text == Window(p, CredWindow)
      score == 2 * Bit(HasOne(text, {"User Name:", "Computer Name:"}))
             + 2 * Bit(HasOne(text, {"Password:", "Password="}))
             + Bit(HasOne(text, {"Username:", "Username="}))
             + Bit(Has(text, "Application:")) + Bit(HasOne(text, {"smtp://", "ftp://"}))
             + 2 * Bit(Has(text, "Host:") /\ Has(text, "Password:"))
  IN  /\ Len(p) >= TextMin
      /\ 100 * Cardinality(Printable(text)) >= 85 * Len(text)
      /\ score >= 3 \/ Cardinality(Mails(text)) >= MailMin

\* A request whose first line shows no raw marker.  The end of the headers is searched
\* with the byte before the literal, whatever it is, so that they may end one character
\* (here the last word) before a blank line, or not at all.
RequestLines(p) ==
  LET ends == IF Has(p, "\r\n") THEN At(p, "\r\n") ELSE At(p, "\n")
      eol == IF ends = {} THEN Len(p) + 1 ELSE Min(ends)
  IN  {SubSeq(p, 1, eol - 1)}
        \cup IF Pair(p, eol, "\r\n", "\r\n") THEN {SubSeq(p, 1, eol - 2)} ELSE {}

RawMarkers == {<<"<script">>, <<"{", "{">>, <<"' OR">>, <<"../">>, <<"$(">>}

\* What the build may answer.
detect_benign_http(p) ==
  IF Len(p) >= TextMin /\ p[1] \in {Plain("GET "), Plain("POST "), Plain("HEAD ")}
    THEN {~(\E m \in RawMarkers : Occurs(line, Text(m))) : line \in RequestLines(p)}
    ELSE {FALSE}

AuthPaths == {Plain("login"), Plain("session")}

\* The path of a POST ends at a space; without one, at a limit or the end of the window.
LoginPosts(text) ==
  {i \in At(text, "POST ") :
     LET spaces == {j \in i + 1 .. Len(text) : text[j] = Plain(" ")}
         end == IF spaces = {} THEN Min({i + PathMax, Len(text)}) ELSE Min(spaces) - 1
     IN  \E j \in i + 1 .. end : Folded(text[j]) \in AuthPaths}

detect_http_bruteforce(p) ==
  /\ Len(p) >= LongMin
  /\ Cardinality(LoginPosts(Window(p, LoginWindow))) >= LoginMin

\* SMB headers, with something after the byte of their command.
Commands(p, V) == {i \in At(p, "\\xFFSMB") : i + 1 < Len(p) /\ IsByte(p, i + 1, V)}

\* The tree is connected to IPC$, a transaction is sent, and the flow is big.
detect_smb_exploit(p, flow) ==
  /\ flow.ports = "smb" /\ Len(p) > BigSmb
  /\ \E i \in Commands(p, {117}) : \E j \in i + 2 .. Min({Len(p), i + IpcReach}) :
       p[j] = Plain("IPC")
  /\ Commands(p, {37, 50, 160}) # {}

\* Runs of base64, in the text of the window.
Runs(text) == {i \in At(text, "b64") : i = 1 \/ text[i - 1] # Plain("b64")}

\* Digits, a null and a command.  As everything before the null must be a digit, only
\* the first null can qualify.
Framed(text) ==
  {i \in 2 .. Min({10, Len(text) - 1}) :
     /\ IsByte(text, i, {0}) /\ text[i + 1] = Plain("cmd")
     /\ \A j \in 1 .. i - 1 : text[j] = Plain("7")}

detect_rat_protocol(p, flow) ==
  LET text == Window(p, RatWindow)
      recon == {w \in {"Administrator", ".exe", "tasklist"} : Has(text, w)}
      score == 4 * Bit(Cardinality(At(text, "|'|'|")) >= DelimMin)
             + 2 * Bit(Cardinality(Framed(text)) >= 2)
             + 2 * Bit(Cardinality(recon) >= 2)
             + Bit(Cardinality(Runs(text)) >= RunMin)
  IN  Len(p) >= TextMin /\ flow.ports = "custom" /\ score >= 4

\* Markers of attacks, in the canonical form.
Markers == {<<"<script">>, <<"union", " ", "select">>, <<"/etc/passwd">>,
            <<";cat", " ", "/etc">>, <<"{{7*7}}">>, <<"$(">>}
detect_obfuscated_injection(normal) == \E m \in Markers : Occurs(normal, Text(m))

\* Destinations that are an address, or whose first label looks generated.
Suspect(sni) ==
  LET digits(s) == {i \in DOMAIN s : s[i].k \in 48 .. 57}
      dots == {i \in DOMAIN sni : sni[i] = Byte(46)}
      label == SubSeq(sni, 1, IF dots = {} THEN Len(sni) ELSE Min(dots) - 1)
      consonants == {i \in DOMAIN label : label[i].k \in Consonants}
  IN  /\ sni # <<>>
      /\ \/ digits(sni) \cup dots = DOMAIN sni
         \/ /\ Len(label) >= LabelMin
            /\ \/ 10 * Cardinality(digits(label)) > 3 * Len(label)
               \/ 4 * Cardinality(consonants) > 3 * Len(label)

\* 0 is no handshake, 1 suspicious, 2 benign.
inspect_tls(p, feed) ==
  LET tls == parse_tls_client_hello(p)
  IN  IF ~tls.hello THEN 0
      ELSE IF \/ tls.ja3 \in BuiltinJa3 \cup feed.ja3
              \/ is_bad_domain(feed, tls.sni)
              \/ Suspect(tls.sni) THEN 1
      ELSE 2

\* Entropy and timing are a property of the flow; the density of special characters is
\* counted in payloads that are not too big.
statistical_filter(p, flow) ==
  \/ flow.odd
  \/ /\ p # <<>> /\ Len(p) < SmallText
     /\ 20 * Cardinality(UNION {At(p, w) : w \in {"'", "{", "backtick", "|'|'|"}}) > Len(p)
===============================================================================
