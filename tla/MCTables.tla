------------------------------- MODULE MCTables -------------------------------
(* An instance of Tables: traffic for each detector, from a local host and a   *)
(* remote one; three connections for a table of two; three connections of one  *)
(* outbound tuple, enough for a signal and a later flow, one of another, whose *)
(* entry overflows a table of one and shares a host, one of a web one; and     *)
(* connections to train a model with.                                          *)
EXTENDS Tables, TLC

CONSTANTS lan, lan2, net1, net2, c1, c2, c4, c5, c6, t1, t2, t3, h1, h2, h3

-------------------------------------------------------------------------------
P(src, dst, port, kind, ttl) ==
  [src |-> src, dst |-> dst, port |-> port, kind |-> kind, ttl |-> ttl]

\* Well-known ports, one of them twice, and a SYN from outside.
Scan == {P(lan, net1, 22, "syn", 0), P(lan, net2, 445, "syn", 0),
         P(lan, net1, 445, "syn", 0), P(net1, lan, 22, "syn", 60)}

\* Mail servers, one in the private network and one met over UDP before.
Mail == {P(lan, net1, 25, "syn", 0), P(lan, net2, 465, "syn", 0),
         P(lan, lan2, 587, "syn", 0), P(lan, net2, 465, "udp", 0),
         P(net1, lan, 25, "tcp", 0)}

\* Polling: a port of no service, a web port of a listed host and of another one.
Polling == {P(lan, net1, 8443, "syn", 0), P(lan, net2, 443, "syn", 0),
            P(lan, net1, 443, "syn", 0)}

\* Two stacks behind one address, from one hop away or none, and a remote host.
Stacks == {P(lan, net1, 22, "tcp", 64), P(lan, net1, 22, "tcp", 60),
           P(lan, net1, 22, "tcp", 120), P(lan2, net1, 22, "tcp", 60),
           P(net1, lan, 22, "tcp", 60), P(net1, lan, 22, "tcp", 250)}

MCTraffics == {Scan, Mail, Polling, Stacks}

MCTupleOf == c1 :> t1 @@ c2 :> t1 @@ c4 :> t1 @@ c5 :> t2 @@ c6 :> t3
MCEnds == t1 :> {h1, h2} @@ t2 :> {h1, h3} @@ t3 :> {h2, h3}

Bytes == <<2, 5>>
Durations == <<1>>
Gaps == <<1, 3>>
Sample(s, d, n) == [start |-> s, duration |-> d, bytes |-> n]
MCSamples ==
  {{Sample(0, 0, 1)}, {Sample(0, 0, 1), Sample(1, 3, 9), Sample(9, 0, 1)},
   {Sample(0, 0, 1), Sample(0, 0, 9), Sample(3, 0, 9), Sample(4, 0, 9)},
   {Sample(5, 0, 1), Sample(6, 3, 1)}}
===============================================================================
