------------------------------- MODULE Verdict -------------------------------
(* The LLM stage's text work: what of a payload the model is shown, the prompt *)
(* around it, and what becomes of the JSON the model answers with.             *)
EXTENDS Normalizer, ThreatCatalog

CONSTANTS CharLimit,     \* payload_char_limit (2048)
          TinyText,      \* 16 bytes, too little to judge
          MaxPrompt,     \* max_prompt_tokens (7000)
          TailMax,       \* 1024
          SystemPrompt   \* words of the system prompt, few-shot examples included

-------------------------------------------------------------------------------
(* The prompt                                                                  *)

Ink(x) == x.t # "byte" \/ x.k \in {9, 10, 13} \cup 32 .. 126

\* Bytes that cannot be printed show as dots.
Shown(p) ==
  [i \in DOMAIN Window(p, CharLimit) |-> IF Ink(p[i]) THEN p[i] ELSE Plain(".")]

\* Mostly binary: there is nothing textual to classify.
Unreadable(p) ==
  LET text == Window(p, CharLimit)
  IN  /\ Len(text) >= TinyText
      /\ 100 * Cardinality({i \in DOMAIN text : Ink(text[i])}) < 60 * Len(text)

Controls == {Plain(w) : w \in {"<|", "|>", "[Context]", "[Payload]", "[Decoded]"}}
Inert == [c \in Controls |->
  Plain(CASE c.t = "<|" -> "< |" [] c.t = "|>" -> "| >" [] c.t = "[Context]" -> "(Context)"
          [] c.t = "[Payload]" -> "(Payload)" [] c.t = "[Decoded]" -> "(Decoded)")]

sanitize_for_prompt(text) ==
  [i \in DOMAIN text |-> IF text[i] \in Controls THEN Inert[text[i]] ELSE text[i]]

Percent(p) == \E i \in DOMAIN Shown(p) : Shown(p)[i].t # "byte" /\ Shown(p)[i].k > 0

Bug_FlowText(p, normal) ==
  IF Percent(p) /\ normal # <<>>
    THEN sanitize_for_prompt(Shown(p)) \o Text(<<"\n", "[Decoded]", "\n">>)
           \o Window(normal, CharLimit)
    ELSE sanitize_for_prompt(Shown(p))

\* payload_str: with the canonical form when a percent sign shows.
FlowText(p, normal) ==
  IF Percent(p) /\ normal # <<>>
    THEN sanitize_for_prompt(Shown(p)) \o Text(<<"\n", "[Decoded]", "\n">>)
           \o sanitize_for_prompt(Window(normal, CharLimit))
    ELSE sanitize_for_prompt(Shown(p))

Methods == {Plain("GET "), Plain("POST ")}

\* The first line again, when it is that of HTTP.
HttpLine(text) ==
  LET ends == {i \in DOMAIN text : text[i] \in {Plain("\r\n"), Plain("\n")}}
  IN  IF text # <<>> /\ text[1] \in Methods \cup {Plain("HTTP/")}
        THEN SubSeq(text, 1, IF ends = {} THEN Len(text) ELSE Min(ends) - 1)
        ELSE <<>>

Primer == Text(<<"<|", "assistant", "|>", "{">>)

\* Words of the prompt, with the one they come from.
By(who, text) == [i \in DOMAIN text |-> [word |-> text[i], by |-> who]]

FullPrompt(text) ==
  By("us", Text(SystemPrompt) \o Text(<<"[Context]">>)) \o By("flow", HttpLine(text))
    \o By("us", Text(<<"[Payload]">>)) \o By("flow", text) \o By("us", Primer)

\* A prompt that is too long loses its middle.
Truncated(words) ==
  LET tail == Min({TailMax, MaxPrompt \div 2})
  IN  IF Len(words) <= MaxPrompt THEN words
      ELSE SubSeq(words, 1, MaxPrompt - tail)
             \o SubSeq(words, Len(words) - tail + 1, Len(words))

Prompt(text) == Truncated(FullPrompt(text))

-------------------------------------------------------------------------------
(* The answer                                                                  *)

Quote == Plain("\"")
Escape == Plain("\\\"")

\* An answer is what the model means by it: a type, a severity and a snippet, each a
\* text, empty when it is missing; and what it goes on to say.
QuotedText(v) ==
  <<Quote>> \o [i \in DOMAIN v |-> IF v[i] = Quote THEN Escape ELSE v[i]] \o <<Quote>>
Member(key, v) == <<Quote, Plain(key), Quote, Plain(":")>> \o QuotedText(v)

\* The prompt ends with the brace that opens the object.
Json(a) ==
  IF a.type = <<>> /\ a.severity = <<>> /\ a.snippet = <<>> THEN Text(<<"{", "}">>)
  ELSE Text(<<"{">>) \o Member("threat_type", a.type) \o Member("severity", a.severity)
         \o Member("snippet", a.snippet) \o Text(<<"}">>) \o a.rest

Closings(json) == {i \in DOMAIN json : json[i] = Plain("}")}

IsEmptyJson(json) ==
  Closings(json) # {} /\ \A i \in 2 .. Min(Closings(json)) - 1 : json[i] \in White

\* "Trim result to the first complete JSON object": to the first brace, wherever it is.
Trimmed(json) ==
  IF Closings(json) = {} THEN json ELSE SubSeq(json, 1, Min(Closings(json)))

\* The text of a field; none when the key, or the closing quote, is missing.
extract_json_field(json, key) ==
  LET keys == {i \in 1 .. Len(json) - 2 :
                 json[i] = Quote /\ json[i + 1] = Plain(key) /\ json[i + 2] = Quote}
      after(from, x) == {i \in from .. Len(json) : json[i] = x}
      colon == IF keys = {} THEN {} ELSE after(Min(keys) + 3, Plain(":"))
      open == IF colon = {} THEN {} ELSE after(Min(colon) + 1, Quote)
      close == IF open = {} THEN {} ELSE after(Min(open) + 1, Quote)
  IN  IF close = {} THEN <<>>
      ELSE [i \in 1 .. Min(close) - Min(open) - 1 |->
             IF json[Min(open) + i] = Escape THEN Quote ELSE json[Min(open) + i]]

Lower(text) == [i \in DOMAIN text |-> Folded(text[i])]

\* In any case of letters.
payload_contains_snippet(text, snippet) ==
  snippet # <<>> /\ Occurs(Lower(text), Lower(snippet))

-------------------------------------------------------------------------------
(* The validation                                                              *)

BenignHeaders == {Plain("X-XSS-Protection"), Plain("Set-Cookie"),
                  Plain("Authorization: Bearer")}

\* In a response: in the headers, and not in the body.
OnlyInHeaders(text, snippet) ==
  LET blank == {i \in DOMAIN text : Pair(text, i, "\r\n", "\r\n")}
      end == IF blank = {} THEN Len(text) + 1 ELSE Min(blank)
  IN  /\ text # <<>> /\ text[1] = Plain("HTTP/")
      /\ Occurs(SubSeq(text, 1, end - 1), snippet)
      /\ ~Occurs(SubSeq(text, end + 2, Len(text)), snippet)

\* What a server may be the source of.
FromServers ==
  DataTheft \cup {"Heartbleed", "SMB Exploit"}
    \cup (Malware \ {"Worm Propagation Scan"})

\* Words with a character, or a sequence, that an attack needs.
Syntax == {"'", "\"", "{", "}", "$", ";", "(", ")", ">", "<!ENTITY", "<script",
           "' OR", "' or", "../", "://", "bash -i >&", "|'|'|", "backtick", "<|", "|>",
           "< |", "| >", "(Context)", "(Payload)", "(Decoded)"}

is_false_positive(type, snippet, text, flow) ==
  \/ snippet[1] \in BenignHeaders
  \/ OnlyInHeaders(text, snippet)
  \/ flow.server /\ type \notin FromServers
  \/ /\ type \notin {"Data Exfiltration", "Credential Theft"}
     /\ ~\E i \in DOMAIN snippet :
          \/ snippet[i].t \in Syntax /\ snippet[i].k = 0
          \/ Pair(snippet, i, "-", "-")

Word(text) == IF text = <<>> THEN "" ELSE text[1].t

Bug_Judged(a, text, flow) ==
  LET json == Trimmed(Json(a))
      type == canonical(Word(extract_json_field(json, "threat_type")))
      said == Word(Lower(extract_json_field(json, "severity")))
      snippet == extract_json_field(json, "snippet")
  IN  IF \/ IsEmptyJson(Json(a)) \/ type = "" \/ said = "" \/ snippet = <<>>
         \/ is_false_positive(type, snippet, text, flow)
        THEN {}
      ELSE {[type |-> type, level |-> resolve_severity(type, said), snippet |-> snippet]}

\* The alert an answer leads to, if any.
Judged(a, text, flow) ==
  LET json == Trimmed(Json(a))
      type == canonical(Word(extract_json_field(json, "threat_type")))
      said == Word(Lower(extract_json_field(json, "severity")))
      snippet == extract_json_field(json, "snippet")
  IN  IF \/ IsEmptyJson(Json(a)) \/ type = "" \/ said = "" \/ snippet = <<>>
         \/ ~payload_contains_snippet(text, snippet)
         \/ is_false_positive(type, snippet, text, flow)
        THEN {}
      ELSE {[type |-> type, level |-> resolve_severity(type, said), snippet |-> snippet]}

-------------------------------------------------------------------------------
(* The few-shot examples: what the prompt shows, and the answer it teaches.    *)

Answer(type, severity, snippet) ==
  [type |-> Text(type), severity |-> Text(severity), snippet |-> Text(snippet),
   rest |-> <<>>]
Benign(words) == [payload |-> Text(words), server |-> FALSE, answer |-> Answer(<<>>, <<>>, <<>>)]
Response(words) == [Benign(words) EXCEPT !.server = TRUE]
Threat(words, type, severity, snippet) ==
  [payload |-> Text(words), server |-> FALSE,
   answer |-> Answer(<<type>>, <<severity>>, snippet)]

\* Examples 1 to 9.
EarlyExamples == <<
  Benign(<<"krbtgt..WIN11OFFICE.COM">>),
  Threat(<<"GET ", "/page?id=", "{", "{", "1337*1337", "}", "}", " ", "HTTP/1.1">>,
         "SSTI", "High", <<"{", "{", "1337*1337", "}", "}">>),
  Benign(<<"GSS-SPNEGO...?">>),
  Benign(<<"GET ", "/", " ", "HTTP/1.1", "\r\n", "Accept: */*", "\r\n", "User-Agent">>),
  Response(<<"HTTP/", "302", "\r\n", "Location", "\r\n", "\r\n", "<HTML>">>),
  Benign(<<"www.example.com">>),
  Response(<<"HTTP/", "200", "\r\n", "\r\n", "{", "\"", "admin", "\"", "}">>),
  Response(<<"HTTP/", "302", "\r\n", "Set-Cookie", "\r\n", "X-XSS-Protection", "\r\n",
             "\r\n", "<HTML>">>),
  Response(<<"HTTP/", "200", "\r\n", "\r\n", "false">>) >>

\* Examples 10 to 18.
MiddleExamples == <<
  Threat(<<"POST ", "/login", "\r\n", "\r\n", "pass=", "' OR", "'1'='1">>,
         "SQLi", "High", <<"' OR", "'1'='1">>),
  Threat(<<"Username:", "victim@gmail.com", "<br>", "Password:", "s3cretP@ss">>,
         "Data Exfiltration", "Critical",
         <<"Username:", "victim@gmail.com", "...", "Password:", "s3cretP@ss">>),
  Threat(<<"USER ", "attacker", "\r\n", "STOR ", "PW_", "\r\n">>,
         "Data Exfiltration", "Critical", <<"STOR ", "PW_">>),
  Threat(<<"alice@gmail.com", "\n", "john.doe@outlook.com", "\n">>,
         "Data Exfiltration", "High", <<"alice@gmail.com", "...", "john.doe@outlook.com">>),
  Threat(<<"GET ", "/", "\r\n", "User-Agent: ", "$", "{", "jndi:ldap", "://", "}", "\r\n">>,
         "Log4Shell", "Critical", <<"$", "{", "jndi:ldap", "://", "}">>),
  Threat(<<"GET ", "/ping?host=", ";", "cat", "+", "/etc/passwd", " ", "HTTP/1.1">>,
         "Command Injection", "Critical", <<";", "cat", "+", "/etc/passwd">>),
  Threat(<<"GET ", "/download?file=", "../", "../", "/etc/passwd", " ", "HTTP/1.1">>,
         "Path Traversal", "High", <<"../", "../", "/etc/passwd">>),
  Threat(<<"POST ", "/api/parse", "\r\n", "\r\n", "<!ENTITY", "SYSTEM", "\"", "file:///",
           "\"", ">">>,
         "XXE", "High", <<"<!ENTITY", "SYSTEM", "\"", "file:///", "\"", ">">>),
  Threat(<<"POST ", "/cmd", "\r\n", "\r\n", "bash -i >&", "/dev/tcp/">>,
         "Reverse Shell", "Critical", <<"bash -i >&", "/dev/tcp/">>) >>

\* Examples 19 to 28, with the one without a number.
LateExamples == <<
  Threat(<<"{", "\"", "method", "\"", ":", "\"", "mining.subscribe", "\"", "}">>,
         "Cryptominer Traffic", "High", <<"mining.subscribe">>),
  Threat(<<"GET ", "/.env", " ", "HTTP/1.1", "\r\n">>,
         "Directory Enumeration", "Medium", <<"/.env">>),
  Threat(<<"GET ", "/robots.txt", "\r\n", "User-Agent: ", "gobuster/3.1", "\r\n">>,
         "Directory Enumeration", "Low", <<"User-Agent: ", "gobuster/3.1">>),
  Benign(<<"GET ", "/ws", "\r\n", "Upgrade: websocket">>),
  Benign(<<"POST ", "/oauth/token", "\r\n", "\r\n", "client_secret=">>),
  Benign(<<"POST ", "/grpc.UserService", "\r\n", "\r\n", "admin">>),
  Threat(<<"GET ", "/cgi-bin/status", "\r\n", "(", ")", "{", ":", ";", "}", ";", "/bin/bash -c">>,
         "Shellshock", "Critical", <<"(", ")", "{", ":", ";", "}", ";", "/bin/bash -c">>),
  Threat(<<"GET ", "/fetch?url=", "http", "://", "169.254.169.254">>,
         "SSRF", "High", <<"http", "://", "169.254.169.254">>),
  Threat(<<"POST ", "/api/login", "\r\n", "\r\n", "{", "$", "gt", ":", "\"", "\"", "}">>,
         "NoSQL Injection", "Critical", <<"{", "$", "gt", ":", "\"", "\"", "}">>),
  Threat(<<"GET ", "/CFIDE/", "\r\n", "User-Agent: ", "(", "Nikto/2.1.6", ")">>,
         "Vulnerability Scanning", "Medium", <<"Nikto/2.1.6">>),
  Benign(<<"EHLO mail.example.com", "\r\n", "MAIL FROM:">>) >>

FewShot == EarlyExamples \o MiddleExamples \o LateExamples
===============================================================================
