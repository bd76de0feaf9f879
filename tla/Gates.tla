-------------------------------- MODULE Gates --------------------------------
(* The chain of gates of NpuFilter::worker_loop: what a flow shows (its        *)
(* traits), and the reason of the flow event the first gate that takes it      *)
(* emits.                                                                      *)
EXTENDS Integers, Sequences

\* A trait has the name of the reason it leads to, but for the ones listed first: a
\* signature or a listed address of the threat feed, what makes a flow suspicious,
\* and what the LLM stage takes for binary.
Traits == {"signature", "bad-ip", "obfuscated", "behavioral", "anomalous",
           "unprintable",
           "empty", "tls-suspicious", "tls-benign", "heartbleed", "smb-exploit",
           "SPNEGO", "http-bruteforce", "benign-HTTP", "credential-content",
           "ftp-exfil", "rat-c2", "binary"}

\* The order in which worker_loop tries its gates.
Chain == <<"empty", "tls-suspicious", "tls-benign", "threat-intel", "heartbleed",
           "smb-exploit", "SPNEGO", "http-bruteforce", "benign-HTTP",
           "credential-content", "ftp-exfil", "rat-c2", "binary", "anomaly",
           "statistical">>

Suspicious(t) == t \cap {"obfuscated", "behavioral", "anomalous"} # {}

Bug_Hit(t, r) ==
  CASE r = "threat-intel" -> t \cap {"signature", "bad-ip"} # {}
    [] r = "binary"       -> Suspicious(t) /\ "binary" \in t
    [] r = "anomaly"      -> Suspicious(t)
    [] r = "statistical"  -> TRUE
    [] OTHER              -> r \in t

\* "If no exploit signature rides on top of the handshake": Heartbleed undoes the
\* verdict of benign TLS.
Hit(t, r) ==
  CASE r = "tls-benign"   -> "tls-benign" \in t /\ "heartbleed" \notin t
    [] r = "threat-intel" -> t \cap {"signature", "bad-ip"} # {}
    [] r = "binary"       -> Suspicious(t) /\ "binary" \in t
    [] r = "anomaly"      -> Suspicious(t)
    [] r = "statistical"  -> TRUE
    [] OTHER              -> r \in t

FirstHit(t) ==
  Chain[CHOOSE i \in DOMAIN Chain :
          Hit(t, Chain[i]) /\ \A j \in 1 .. i - 1 : ~Hit(t, Chain[j])]

Passing == {"tls-suspicious", "threat-intel", "heartbleed", "smb-exploit",
            "http-bruteforce", "credential-content", "ftp-exfil", "rat-c2", "anomaly"}
Deduplicated == {"heartbleed", "smb-exploit", "rat-c2", "anomaly"}
==============================================================================
