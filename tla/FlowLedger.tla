------------------------------ MODULE FlowLedger ------------------------------
(* What a bounded flow queue promises its callers, without saying how: every   *)
(* item handed to it is in exactly one place, at most Capacity items are       *)
(* queued, and an item is dropped only as a last resort, when the queue is     *)
(* full and is allowed to lose items.  FlowQueue implements this.              *)
EXTENDS Integers, FiniteSets

CONSTANTS Items,      \* the items callers may hand over
          Capacity    \* how many items may be queued at once

VARIABLES status,     \* where each item is
          lossy       \* may the queue lose items: it is not holding its callers back

vars == <<status, lossy>>

Statuses == {"fresh", "held", "queued", "taken", "dropped"}

Queued == {i \in Items : status[i] = "queued"}
Full == Cardinality(Queued) >= Capacity

Init ==
  /\ status = [i \in Items |-> "fresh"]
  /\ lossy = TRUE

\* An item is queued at once when there is room.
Accept(i) ==
  /\ status[i] = "fresh" /\ ~Full
  /\ status' = [status EXCEPT ![i] = "queued"]
  /\ UNCHANGED lossy

\* A full queue that may not lose anything holds the caller back with its item.
Hold(i) ==
  /\ status[i] = "fresh" /\ Full /\ ~lossy
  /\ status' = [status EXCEPT ![i] = "held"]
  /\ UNCHANGED lossy

\* The caller that was held back gets its turn.
Release(i) ==
  /\ status[i] = "held" /\ ~Full
  /\ status' = [status EXCEPT ![i] = "queued"]
  /\ UNCHANGED lossy

\* A full queue that may lose items refuses the newcomer, or evicts for it.
Refuse(i) ==
  /\ status[i] \in {"fresh", "held"} /\ Full /\ lossy
  /\ status' = [status EXCEPT ![i] = "dropped"]
  /\ UNCHANGED lossy

Replace(i, j) ==
  /\ status[i] = "fresh" /\ status[j] = "queued" /\ Full /\ lossy
  /\ status' = [status EXCEPT ![i] = "queued", ![j] = "dropped"]
  /\ UNCHANGED lossy

Deliver(i) ==
  /\ status[i] = "queued"
  /\ status' = [status EXCEPT ![i] = "taken"]
  /\ UNCHANGED lossy

ChangeMode ==
  /\ lossy' \in BOOLEAN
  /\ UNCHANGED status

Next ==
  \/ \E i \in Items : Accept(i) \/ Hold(i) \/ Release(i) \/ Refuse(i) \/ Deliver(i)
  \/ \E i, j \in Items : Replace(i, j)
  \/ ChangeMode

Spec == Init /\ [][Next]_vars
===============================================================================
