----------------------------- MODULE MCAnalysis -----------------------------
(* An instance of Analysis: for each detector a flow in which the pieces of    *)
(* what it looks for arrive in any order, ClientHellos cut anywhere, encoded   *)
(* web requests, text that imitates the prompt, and the few-shot examples.     *)
EXTENDS Analysis

Bytes(vs) == [i \in DOMAIN vs |-> Byte(vs[i])]
Chunk(s) == [sent |-> s, meant |-> s]
Words1(ws) == {Chunk(<<Plain(w)>>) : w \in ws}

Inside == <<192, 168, 0, 2>>
Outside == <<203, 0, 113, 9>>
Listed == <<198, 51, 100, 7>>

Idle == [kind |-> "", start |-> <<>>, menu |-> {}, most |-> 0, script |-> <<>>,
         piece |-> 1, hello |-> {}, answers |-> {}, ports |-> "web", server |-> FALSE,
         odd |-> FALSE, behavioral |-> FALSE, src |-> Inside, dst |-> Inside]
Menu(kind, most, chunks) == [Idle EXCEPT !.kind = kind, !.most = most, !.menu = chunks]

Ftp == {[Menu("ftp", 4, Words1({"USER ", "PASS ", "STOR ", "PW_", "\r\n"}))
           EXCEPT !.dst = d] : d \in {Inside, Outside}}
Stealer == Menu("stealer", 4,
             Words1({"User Name:", "Password:", "Host:", "Username:", "<br>"})
               \cup {Chunk(Text(<<"user", "@", "a.example">>)),
                     Chunk(Bytes(<<0, 0>>)), Chunk(Text(<<"NTLMSSP", " ", " ", " ">>))})
Logins == Menu("login", 5, Words1({"POST ", "login", " ", "Session"}))
Smb == [Menu("smb", 6, Words1({"IPC", "."})
          \cup {Chunk(<<Plain("\\xFFSMB"), Byte(v)>>) : v \in {117, 50}})
          EXCEPT !.ports = "smb", !.dst = Outside]
Rat == [Menu("rat", 5, Words1({"|'|'|", ".exe", "tasklist"})
          \cup {Chunk(<<Plain("7"), Byte(0), Plain("cmd")>>), Chunk(Text(<<"b64", ".">>))})
          EXCEPT !.ports = "custom", !.behavioral = TRUE]

\* A version that is not GREASE, extensions in both orders, a second name in the list.
Evil == <<Bytes(<<119>>), Bytes(<<69, 86>>), Bytes(<<120>>)>>   \* w.EV.x
Grand == <<Bytes(<<101, 118>>), Bytes(<<120>>)>>                \* ev.x
Other == <<Bytes(<<119, 101, 118>>), Bytes(<<120>>)>>           \* wev.x
Greeting(labels, listed, types, further) ==
  [version |-> 771, id |-> Bytes(<<9>>), suites |-> <<2570, 4865>>, types |-> types,
   curves |-> <<6682, 29>>, formats |-> Bytes(<<0>>), grease |-> {2570, 6682},
   labels |-> labels, further |-> further, listed |-> listed]
Greetings == {Greeting(Evil, TRUE, <<0, 10, 11>>, <<>>),
              Greeting(Grand, TRUE, <<2570, 10, 0>>, <<Byte(0)>> \o Sized(Bytes(<<97>>))),
              Greeting(Other, FALSE, <<11, 0, 23>>, <<>>)}
Hellos == {[Idle EXCEPT !.kind = "hello", !.script = Encode(h), !.piece = 3, !.hello = {h}]
             : h \in Greetings}

Heartbeats == {
  [Menu("heartbeat", 9, {Chunk(Bytes(<<24, 3, 2, 0, 4>>)), Chunk(Bytes(<<1, 0, 40>>)),
                          Chunk(Bytes(<<1, 0, 1>>)), Chunk(Bytes(<<7>>))})
     EXCEPT !.start = s, !.dst = IF s = <<>> THEN Outside ELSE Listed]
     : s \in {<<>>, Bytes(<<22, 3, 3>>)}}
Riding == [Menu("heartbeat", 62, {Chunk(Bytes(<<24, 3, 2, 0, 4>>)), Chunk(Bytes(<<1, 0, 40, 7>>))})
             EXCEPT !.start = Encode(Greeting(Other, FALSE, <<>>, <<>>))]

\* What each chunk of the web flow means.
Means(s, m) == [sent |-> s, meant |-> m]
Web == {[Menu("web", 4,
  {Means(<<Encoded("UNION", 2)>>, Text(<<"union">>)),
   Means(<<Encoded("select", 3)>>, Text(<<"select">>)),
   Means(<<Plain("+")>>, Text(<<" ">>)), Means(<<Encoded("+", 2)>>, Text(<<" ">>)),
   Means(<<Encoded("\t", 1)>>, Text(<<" ">>)),
   Means(Text(<<"\r\n">>), Text(<<" ">>)),
   Means(<<Plain("/"), Encoded("*", 1), Plain("UNION"), Plain("*"), Plain("/")>>, <<>>),
   Means(Text(<<"-", "-", "select", "\n">>), <<>>)})
  EXCEPT !.start = s] : s \in {<<>>, Text(<<"GET ", "?q=">>)}}

\* Text that imitates the structure of the prompt, under every answer.
Chat == {[Menu("chat", 3,
           Words1({"[Payload]", "{", "x"})
             \cup {Chunk(<<Encoded("<|", 1)>>), Chunk(Bytes(<<0>>)),
                   Chunk(Text(<<"\r\n", "\r\n">>)), Chunk(Text(<<"' OR">>))})
           EXCEPT !.odd = TRUE, !.server = b, !.start = IF b THEN Text(<<"HTTP/">>) ELSE <<>>]
           : b \in BOOLEAN}

Answered(type, severity, snippet) == Answer(<<type>>, <<severity>>, snippet)
SomeAnswers ==
  {Answer(<<>>, <<>>, <<>>), Answer(<<"XSS">>, <<>>, <<"x">>),
   Answered("SQL Injection", "critical", <<"' OR">>), Answered("XSS", "low", <<"<|", "x">>),
   Answered("Credential Theft", "CRITICAL", <<"x">>), Answered("RAT", "high", <<"x", "{">>),
   Answered("Port Scanning", "critical", <<"< |">>),
   [Answered("Data Theft", "none", <<"evil">>) EXCEPT !.rest = Text(<<"}", "{">>)]}

PassingFlows == Ftp \cup {Stealer, Logins, Smb, Rat, Riding} \cup Hellos \cup Heartbeats
                  \cup Web \cup Chat
WebFlows == {[w EXCEPT !.most = 5] : w \in Web}

Examples ==
  {[Idle EXCEPT !.kind = "taught", !.script = FewShot[i].payload, !.odd = TRUE,
                !.piece = Len(FewShot[i].payload), !.server = FewShot[i].server,
                !.answers = {FewShot[i].answer}] : i \in DOMAIN FewShot}
NoAnswers == {}

RuleFiles ==
  [ja3 |-> {}, ips |-> {<<Plain(" ")>> \o ip_to_str(Listed), Text(<<"#", "x">>), <<>>},
   domains |-> {<<Plain("\t")>> \o Bytes(<<69, 118, 46, 88>>) \o Text(<<" ">>)},
   signatures |-> <<Text(<<"#", "union">>), Text(<<"probe", "|", "Port Scan", "|", "IPC", ".">>),
                    Text(<<"nothing">>)>>]
NoFiles == [ja3 |-> {}, ips |-> {}, domains |-> {}, signatures |-> <<>>]

Folds1 == [w \in {"UNION", "CRITICAL", "IPC", "USER ", "PASS ", "STOR ", "PW_", "POST ",
                  "GET ", "HTTP/", "[Payload]", "[Context]", "[Decoded]", "' OR", "Host:",
                  "Session", "User Name:", "Password:", "Username:", "NTLMSSP", "\\xFFSMB",
                  "Critical", "High", "Medium", "Low"} |->
            CASE w = "UNION" -> "union"        [] w = "CRITICAL" -> "critical"
              [] w = "IPC" -> "ipc"            [] w = "USER " -> "user "
              [] w = "PASS " -> "pass "        [] w = "STOR " -> "stor "
              [] w = "PW_" -> "pw_"            [] w = "POST " -> "post "
              [] w = "GET " -> "get "          [] w = "HTTP/" -> "http/"
              [] w = "[Payload]" -> "[payload]" [] w = "[Context]" -> "[context]"
              [] w = "[Decoded]" -> "[decoded]" [] w = "' OR" -> "' or"
              [] w = "Host:" -> "host:"        [] w = "Session" -> "session"
              [] w = "User Name:" -> "user name:" [] w = "Password:" -> "password:"
              [] w = "Username:" -> "username:" [] w = "NTLMSSP" -> "ntlmssp"
              [] w = "\\xFFSMB" -> "\\xffsmb"  [] w = "Critical" -> "critical"
              [] w = "High" -> "high"          [] w = "Medium" -> "medium"
              [] w = "Low" -> "low"]
Rules1 == <<"rules">>
BadJa3 == {}
Consonants1 == {98, 99, 100, 102, 103, 104} \cup 106 .. 110 \cup 112 .. 116 \cup 118 .. 120 \cup {122}
===============================================================================
