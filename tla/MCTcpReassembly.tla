--------------------------- MODULE MCTcpReassembly ---------------------------
(* A stream of six bytes for TcpReassembly: repeated in whole segments, re-cut *)
(* by its retransmissions across the wraparound, or wrapping around in whole   *)
(* segments.                                                                   *)
EXTENDS TcpReassembly

Aligned == {<<0, 2>>, <<2, 3>>, <<3, 5>>, <<5, 6>>}
Recut == {<<0, 2>>, <<1, 4>>, <<2, 3>>, <<3, 6>>}

AlignedOrRecut == {[isn |-> 3, segments |-> Aligned], [isn |-> 12, segments |-> Recut]}
AlignedAcrossWrap == {[isn |-> 12, segments |-> Aligned]}
===============================================================================
