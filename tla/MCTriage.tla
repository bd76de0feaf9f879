------------------------------ MODULE MCTriage ------------------------------
(* An instance of Triage: three flows with a few combinations of traits.       *)
EXTENDS Triage, TLC

CONSTANTS f1, f2, f3, k1, k2

ThreeFlows == {f1, f2, f3}
\* One for each gate that the properties are about, with a trait of a later gate on it.
SomeTraits == {{"anomalous"}, {"behavioral"}, {"empty", "heartbleed"}, {"tls-benign"},
               {"heartbleed", "tls-benign", "signature"}, {"smb-exploit", "unprintable"},
               {"signature", "unprintable"}, {"anomalous", "unprintable"},
               {"ftp-exfil", "behavioral", "binary"}}
FlowSymmetry == Permutations(ThreeFlows)
===============================================================================
