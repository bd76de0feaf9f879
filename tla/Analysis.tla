------------------------------ MODULE Analysis ------------------------------
(* One flow, from the first of its bytes to the verdict: the payload grows     *)
(* until the connection is flushed, the filter finds its traits and sends it   *)
(* through the gates, and the LLM stage reports it or asks the model.          *)
EXTENDS Gates, Detectors, Verdict

CONSTANTS Flows,      \* what a flow is, and what may arrive in it
          Answers,    \* what the model may answer
          Files,      \* the rule files of the threat feed
          Forensic,   \* cfg.is_forensic()
          Preview     \* 512, 1024 or 4096 bytes, for a report

Tokens == [t : STRING, k : Nat]

\* A flow grows by its menu or by its script, from what begins the script; the windows
\* and limits of the code are sizes, and the end that a prompt may not lose fits them.
ASSUME AnalysisAssumption ==
  /\ \A f \in Flows :
       /\ f.start \in Seq(Tokens) /\ f.script \in Seq(Tokens)
       /\ \A c \in f.menu : c.sent \in Seq(Tokens)
       /\ f.script # <<>> => f.menu = {} /\ f.start = Window(f.script, Len(f.start))
  /\ \A f \in Flows : \A a \in Answers \cup f.answers :
       {a.type, a.severity, a.snippet, a.rest} \subseteq Seq(Tokens)
  /\ "byte" \notin DOMAIN LowerCase
  /\ {MaxNorm, CharLimit, TinyText} \subseteq Nat /\ SystemPrompt \in Seq(STRING)
  /\ MaxPrompt \in Nat /\ MaxPrompt \div 2 >= Len(Primer)
  /\ TailMax \in Nat /\ TailMax >= Len(Primer)

VARIABLES
  flow,               \* the connection; never changes
  payload,            \* reassembled_payload
  meant,              \* what its sender means: the plain form of every chunk
  stage,              \* "arriving", "inspected", "dropped" or "judged"
  reason, tag,        \* of the flow event; protocol_tag
  answer,             \* what the model answered, if it was asked
  alert               \* the alert, if any
vars == <<flow, payload, meant, stage, reason, tag, answer, alert>>

feed == load(Files)
normal == normalize_payload(payload)
text == FlowText(payload, normal)

-------------------------------------------------------------------------------
(* The filter                                                                  *)

ip_to_str(ip) == [i \in DOMAIN ip |-> [t |-> "octet", k |-> ip[i]]]

dst_is_external(ip) ==
  ~ \/ ip[1] \in {0, 10, 127}
    \/ ip[1] = 172 /\ ip[2] \in 16 .. 31
    \/ ip[1] = 192 /\ ip[2] = 168
    \/ ip[1] = 169 /\ ip[2] = 254

\* What a detector finds in the payload p of the flow.
Shows(p, r, benign) ==
  CASE r = "empty"              -> p = <<>>
    [] r = "tls-suspicious"     -> inspect_tls(p, feed) = 1
    [] r = "tls-benign"         -> inspect_tls(p, feed) = 2
    [] r = "signature"          -> match_signature(feed, normalize_payload(p)) # {}
    [] r = "bad-ip"             -> {ip_to_str(flow.src), ip_to_str(flow.dst)} \cap feed.ips # {}
    [] r = "heartbleed"         -> detect_heartbleed(p)
    [] r = "smb-exploit"        -> detect_smb_exploit(p, flow)
    [] r = "SPNEGO"             -> detect_spnego(p)
    [] r = "http-bruteforce"    -> detect_http_bruteforce(p)
    [] r = "benign-HTTP"        -> benign
    [] r = "credential-content" -> detect_credential_content(p)
    [] r = "ftp-exfil"          -> detect_ftp_activity(p)
    [] r = "rat-c2"             -> detect_rat_protocol(p, flow)
    [] r = "obfuscated"         -> detect_obfuscated_injection(normalize_payload(p))
    [] r = "behavioral"         -> flow.behavioral
    [] r = "anomalous"          -> statistical_filter(p, flow)
    [] r = "binary"             -> 100 * Cardinality(Printable(p)) < 85 * Len(p)
    [] r = "unprintable"        -> Unreadable(p)

Found(p, benign) == {r \in Traits : Shows(p, r, benign)}

\* inspect_tls names the reason, by its first check that holds.
TlsTag(tls) ==
  CASE tls.ja3 \in BuiltinJa3 \cup feed.ja3 -> "Malicious TLS Client"
    [] is_bad_domain(feed, tls.sni) -> "C2 Beaconing"
    [] OTHER -> "Suspicious TLS"

\* The protocol_tag that comes with a reason.
Tag(r) ==
  CASE r = "tls-suspicious"  -> TlsTag(parse_tls_client_hello(payload))
    [] r = "threat-intel"    ->
         LET sigs == match_signature(feed, normal)
         IN  IF Forensic \/ sigs = {} THEN ""
             ELSE Word((CHOOSE s \in sigs : TRUE).severity)
    [] r = "heartbleed"      -> "Heartbleed"
    [] r = "smb-exploit"     -> "SMB Exploit"
    [] r = "http-bruteforce" -> "Brute Force"
    [] r \in {"credential-content", "ftp-exfil"} ->
         IF dst_is_external(flow.dst) THEN "Data Exfiltration" ELSE "Suspicious Transfer"
    [] r = "rat-c2"          -> "RAT C2"
    [] OTHER                 -> ""

-------------------------------------------------------------------------------
(* The report on a flow that a detector named                                  *)

\* From a marker to the next end marker, or at most max.
find_between(s, start, end, max) ==
  IF ~Has(s, start) THEN <<>>
  ELSE LET from == Min(At(s, start))
           ends == {j \in At(s, end) : j > from}
       IN  SubSeq(s, from, IF ends = {} THEN Min({from + max - 1, Len(s)}) ELSE Min(ends) - 1)

\* What can be printed, with spaces for the ends of lines.
Spaced(p) ==
  LET kept == SelectSeq(Window(p, Preview), LAMBDA x : Ink(x) /\ x \notin {Plain("\t"), Byte(9)})
  IN  [i \in DOMAIN kept |->
        IF kept[i] \in LineEnds \cup {Byte(10), Byte(13)} THEN Plain(" ") ELSE kept[i]]

\* A name and a password, an upload, a name; or a contact list, which is High.
Exfiltrated(p) ==
  LET s == Spaced(p)
      user == find_between(s, "Username:", "<br>", Preview)
      pass == find_between(s, "Password:", "<br>", Preview)
      stor == find_between(s, "STOR ", "\r\n", Preview)
      quoted == IF user # <<>> /\ pass # <<>> THEN user \o Text(<<" | ">>) \o pass
                ELSE IF stor # <<>> THEN stor
                ELSE IF user # <<>> THEN user
                ELSE IF Cardinality(At(s, "@")) >= 2 THEN Text(<<"contact list">>)
                ELSE s
  IN  [snippet |-> quoted,
       level |-> IF quoted = Text(<<"contact list">>) THEN {High} ELSE {}]

Report ==
  LET exfil == Exfiltrated(payload)
      tls == parse_tls_client_hello(payload)
      quote == CASE tag \in {"Data Exfiltration", "Suspicious Transfer"} -> exfil.snippet
                 [] tag \in {"Malicious TLS Client", "Suspicious TLS"} -> tls.sni
                 [] OTHER -> Text(<<tag>>)
      level == IF tag \in {"Data Exfiltration", "Suspicious Transfer"} /\ exfil.level # {}
                 THEN High ELSE severity_for_threat(tag)
  IN  [type |-> tag, level |-> level, snippet |-> quote]

-------------------------------------------------------------------------------
(* The steps                                                                   *)

Init ==
  /\ flow \in Flows
  /\ payload = flow.start /\ meant = [i \in DOMAIN payload |-> Folded(payload[i])]
  /\ stage = "arriving" /\ reason = "" /\ tag = ""
  /\ answer = {} /\ alert = {}

\* The next segment in order extends the payload.
Arrive ==
  /\ stage = "arriving" /\ Len(payload) < flow.most
  /\ \E c \in flow.menu :
       payload' = payload \o c.sent /\ meant' = meant \o c.meant
  /\ UNCHANGED <<flow, stage, reason, tag, answer, alert>>

\* So does the next piece of a message whose parts depend on each other.
Continue ==
  /\ stage = "arriving" /\ Len(payload) < Len(flow.script)
  /\ \E n \in 1 .. flow.piece :
       payload' = Window(flow.script, Len(payload) + n)
  /\ meant' = payload'
  /\ UNCHANGED <<flow, stage, reason, tag, answer, alert>>

\* The connection is flushed: the gates of NpuFilter::worker_loop.
Inspect ==
  /\ stage = "arriving"
  /\ \E benign \in detect_benign_http(payload) :
       LET r == FirstHit(Found(payload, benign))
       IN  /\ reason' = r /\ tag' = Tag(r)
           /\ stage' = IF r \in Passing THEN "inspected" ELSE "dropped"
  /\ UNCHANGED <<flow, payload, meant, answer, alert>>

\* LlmInference::worker_loop, for a flow with a name ...
ReportNamed ==
  /\ stage = "inspected" /\ tag # ""
  /\ alert' = {Report}
  /\ stage' = "judged"
  /\ UNCHANGED <<flow, payload, meant, reason, tag, answer>>

\* ... and for one without.  Binary payloads are not shown to the model.
Ask ==
  /\ stage = "inspected" /\ tag = ""
  /\ IF Unreadable(payload) THEN UNCHANGED <<answer, alert>>
     ELSE \E a \in Answers \cup flow.answers :
            answer' = {a} /\ alert' = Judged(a, text, flow)
  /\ stage' = "judged"
  /\ UNCHANGED <<flow, payload, meant, reason, tag>>

Next == Arrive \/ Continue \/ Inspect \/ ReportNamed \/ Ask

Spec == Init /\ [][Next]_vars

-------------------------------------------------------------------------------
(* Correctness                                                                 *)

Lasting == {"heartbleed", "smb-exploit", "http-bruteforce", "ftp-exfil", "rat-c2"}

\* What has been found in the beginning of a payload is found in all of it: the moment a
\* connection is flushed (a timeout, an eviction, the end) hides nothing the detectors
\* of npu_filter.cpp:146-645 had in front of them before.
GrowthNeverHides ==
  [][\A r \in Lasting : Shows(payload, r, FALSE) => Shows(payload', r, FALSE)]_vars

\* A ClientHello as RFC 8446 lays it out, from a record of its contents.
Two(v) == <<Byte(v \div 256), Byte(v % 256)>>
Sized(s) == Two(Len(s)) \o s
Sized1(s) == <<Byte(Len(s))>> \o s
Twos(vs) == FlattenSeq([i \in DOMAIN vs |-> Two(vs[i])])
Dotted(labels) ==
  FlattenSeq([i \in DOMAIN labels |-> IF i = 1 THEN labels[i] ELSE <<Byte(46)>> \o labels[i]])
Extension(type, body) == Two(type) \o Sized(body)
Encode(h) ==
  LET names == <<Byte(0)>> \o Sized(Dotted(h.labels)) \o h.further
      exts == FlattenSeq([i \in DOMAIN h.types |->
                CASE h.types[i] = 0  -> Extension(0, Sized(names))
                  [] h.types[i] = 10 -> Extension(10, Sized(Twos(h.curves)))
                  [] h.types[i] = 11 -> Extension(11, Sized1(h.formats))
                  [] OTHER           -> Extension(h.types[i], <<>>)])
      body == Two(h.version) \o [i \in 1 .. RandomLen |-> Byte(7)] \o Sized1(h.id)
                \o Sized(Twos(h.suites)) \o Sized1(<<Byte(0)>>) \o Sized(exts)
      handshake == <<Byte(1), Byte(0)>> \o Sized(body)
  IN  <<Byte(22), Byte(3), Byte(1)>> \o Sized(handshake)

Fingerprint(h) ==
  LET kept(vs) == SelectSeq(vs, LAMBDA v : v \notin h.grease)
      sent(type, vs) == IF type \in Range(h.types) THEN vs ELSE <<>>
  IN  <<h.version, kept(h.suites), kept(h.types), kept(sent(10, h.curves)),
        sent(11, [i \in DOMAIN h.formats |-> h.formats[i].k])>>

\* parse_tls_client_hello() reads the name and the fingerprint its sender put into the
\* hello, of whatever part has arrived never another name, and inspect_tls() blames the
\* names the feed lists, and names below them, and no others (tls_inspector.hpp:105-217,
\* threat_feed.hpp:72-90).
ReadsWhatWasSent ==
  \A h \in flow.hello :
    LET tls == parse_tls_client_hello(payload)
    IN  /\ tls.sni \in {<<>>, Dotted(h.labels)}
        /\ payload = flow.script =>
             /\ tls = Hello(Dotted(h.labels), Fingerprint(h))
             /\ inspect_tls(payload, feed) = IF h.listed THEN 1 ELSE 2

\* What a token stands for, whatever its layers of encoding; a plus is a space.
Meaning(x) ==
  CASE x.t = "byte" -> x
    [] x.t = "+"    -> Plain(" ")
    [] OTHER        -> Plain(x.t)
Canonical(x) == IF Meaning(x) \in White THEN Plain(" ") ELSE Folded(Meaning(x))

\* A part of a web request: text, or a comment.  Nothing in a text begins a comment, also
\* with what comes next, and a comment ends where it first may.
Wrote(s, i, w) == Meaning(s[i]) = Plain(w)
Prose(s) ==
  \A i \in DOMAIN s :
    /\ Wrote(s, i, "/") => i < Len(s) /\ ~Wrote(s, i + 1, "*")
    /\ Wrote(s, i, "-") => i < Len(s) /\ ~Wrote(s, i + 1, "-")
BlockComment(s) ==
  /\ Len(s) >= 4 /\ Wrote(s, 1, "/") /\ Wrote(s, 2, "*")
  /\ Wrote(s, Len(s) - 1, "*") /\ Wrote(s, Len(s), "/")
  /\ \A i \in 3 .. Len(s) - 2 : ~Wrote(s, i, "*")
LineComment(s) ==
  /\ Len(s) >= 3 /\ Wrote(s, 1, "-") /\ Wrote(s, 2, "-")
  /\ \A i \in DOMAIN s : Meaning(s[i]) \in LineEnds <=> i = Len(s)
Stands(s, m) ==
  /\ \A i \in DOMAIN s : s[i].t # "byte" => s[i].k <= (IF s[i].t = "+" THEN 2 ELSE 3)
  /\ \/ Prose(s) /\ m = [i \in DOMAIN s |-> Canonical(s[i])]
     \/ (BlockComment(s) \/ LineComment(s)) /\ m = <<>>

\* A web flow is made of such parts, and short enough to be normalised as a whole; the
\* lower case of a word is not a space.
ASSUME WebAssumption ==
  /\ \A w \in DOMAIN LowerCase : LowerCase[w] # " "
  /\ \A f \in Flows : f.kind = "web" =>
       /\ f.script = <<>> /\ f.most \in Nat
       /\ Stands(f.start, [i \in DOMAIN f.start |-> Folded(f.start[i])])
       /\ Len(f.start) <= MaxNorm
       /\ \A c \in f.menu : Stands(c.sent, c.meant) /\ f.most + Len(c.sent) <= MaxNorm + 1

\* m with every run of spaces made one.
Squeezed(m) ==
  LET upto[n \in 0 .. Len(m)] ==
        IF n = 0 THEN <<>>
        ELSE IF n > 1 /\ m[n] = Plain(" ") /\ m[n - 1] = Plain(" ") THEN upto[n - 1]
        ELSE Append(upto[n - 1], m[n])
  IN  upto[Len(m)]

\* "Collapses these variants back to a canonical form" (payload_normalizer.hpp:9): up to
\* three layers of encoding, comments, case and white space, in any mixture, leave what
\* the sender means.
ObfuscationUndone == flow.kind = "web" => normal = Squeezed(meant)

\* However the payload is encoded or cut, no token that structures the prompt comes
\* from the flow (but for the one heading of the decoded text), and the prompt, if cut,
\* still ends with what primes the answer (llm_inference.cpp:98-131, 1543-1570).
PromptIntact ==
  stage = "inspected" /\ tag = "" /\ ~Unreadable(payload) =>
    LET words == Prompt(text)
        forged == {i \in DOMAIN words : words[i].by = "flow" /\ words[i].word \in Controls}
        ours == By("us", Primer)
    IN  /\ \A i \in forged : words[i].word = Plain("[Decoded]")
        /\ Cardinality(forged) <= 1
        /\ Len(words) <= MaxPrompt
        /\ SubSeq(words, Len(words) - Len(ours) + 1, Len(words)) = ours

\* What a token of the flow may have become on the way to the model.
Forms(x) ==
  LET decoded == Encoded(x.t, Max({0, x.k - 3}))
      plain == {decoded, Folded(decoded), x}
  IN  plain \cup {Inert[c] : c \in plain \cap Controls}
        \cup IF Ink(x) THEN {} ELSE {Plain(".")}
Heading == {Plain("\n"), Plain(" "), Plain("[Decoded]")}

\* Whatever the model answers, an alert raised on its word quotes what the flow sent,
\* says of a server's response only what a server can do, and is no graver than the
\* curated level of its type (llm_inference.cpp:369-505, 1672-1690).
VerdictsAreGrounded ==
  \A a \in alert : answer # {} =>
    /\ \A i \in DOMAIN a.snippet :
         \E x \in Heading \cup UNION {Forms(payload[j]) : j \in DOMAIN payload} :
           Folded(a.snippet[i]) = Folded(x)
    /\ flow.server => a.type \in FromServers
    /\ a.level <= severity_for_threat(a.type)

\* FALSE in the code, see README: "if canonicalization revealed an injection signature
\* that obfuscation had hidden, escalate to the LLM" (npu_filter.cpp:1028).
ObfuscationEscalated ==
  flow.kind = "web" /\ reason # "" /\ detect_obfuscated_injection(normal) =>
    reason \in Passing

===============================================================================
