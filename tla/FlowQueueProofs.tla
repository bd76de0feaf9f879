--------------------------- MODULE FlowQueueProofs ---------------------------
(* Machine-checked proofs about FlowQueue for any threads, items, priorities   *)
(* and capacity.                                                               *)
EXTENDS FlowQueue, FiniteSetTheorems, TLAPS

TypeInv == TypeOK /\ ThreadsOK

LEMMA InitTypeInv == Init => TypeInv
<1> SUFFICES ASSUME Init PROVE TypeInv
  OBVIOUS
<1>1. blocking \in BOOLEAN /\ done \in BOOLEAN
  BY Zenon DEF Init
<1>2. /\ q \subseteq Entry /\ taken \subseteq Entry
      /\ dropped_count \in Nat /\ clock \in Nat
      /\ parked \in [Producers -> Items \cup {NoItem}]
      /\ pushAsleep \subseteq Producers /\ pushWoken \subseteq Producers
      /\ popAsleep \subseteq Consumers /\ popWoken \subseteq Consumers
      /\ fresh \subseteq Items /\ lost \subseteq Items
  BY DEF Init
<1>3. ThreadsOK
  BY DEF Init, ThreadsOK, Inside
<1> QED
  BY <1>1, <1>2, <1>3 DEF TypeInv, TypeOK

LEMMA NextTypeInv == TypeInv /\ [Next]_vars => TypeInv'
<1> SUFFICES ASSUME TypeInv, [Next]_vars
             PROVE  TypeInv'
  OBVIOUS
<1> USE QueueAssumption DEF TypeInv, TypeOK, ThreadsOK, Inside, Entry, modeVars,
        pushWait, popWait
<1>1. ASSUME NEW p \in Producers, NEW i \in Items, Push(p, i)
      PROVE  TypeInv'
  <2>1. CASE PushRoom(p, i)
    BY <2>1 DEF PushRoom, CallPush, Emplace, NotifyPop
  <2>2. CASE PushEvict(p, i)
    BY <2>2 DEF PushEvict, CallPush, Emplace, NotifyPop, CountDrop
  <2>3. CASE PushRefuse(p, i)
    BY <2>3 DEF PushRefuse, CallPush, CountDrop
  <2>4. CASE PushWait(p, i)
    BY <2>4 DEF PushWait, CallPush
  <2>5. CASE PushFinished(p, i)
    BY <2>5 DEF PushFinished, CallPush, CountDrop
  <2> QED
    BY <1>1, <2>1, <2>2, <2>3, <2>4, <2>5 DEF Push
<1>2. ASSUME NEW p \in Producers, Resume(p)
      PROVE  TypeInv'
  <2>0. CASE ResumeRoom(p)
    BY <2>0 DEF ResumeRoom, Wakes, Emplace, NotifyPop
  <2>1. CASE ResumeDrop(p)
    BY <2>1 DEF ResumeDrop, Wakes, CountDrop
  <2>2. CASE ResumeWait(p)
    BY <2>2 DEF ResumeWait, Wakes
  <2> QED
    BY <1>2, <2>0, <2>1, <2>2 DEF Resume
<1>3. ASSUME NEW c \in Consumers, Pop(c)
      PROVE  TypeInv'
  <2>1. CASE PopItem(c)
    BY <2>1 DEF PopItem, NotifyPush
  <2>2. CASE PopWait(c)
    BY <2>2 DEF PopWait
  <2>3. CASE PopEnd(c)
    BY <2>3 DEF PopEnd
  <2> QED
    BY <1>3, <2>1, <2>2, <2>3 DEF Pop
<1>4. ASSUME NEW enable \in BOOLEAN, SetBlocking(enable)
      PROVE  TypeInv'
  BY <1>4 DEF SetBlocking, WakeAllPushers
<1>5. CASE Finish
  BY <1>5 DEF Finish, WakeAllPushers
<1>6. CASE SpuriousWake
  BY <1>6 DEF SpuriousWake
<1>7. CASE UNCHANGED vars
  BY <1>7 DEF vars
<1> QED
  BY <1>1, <1>2, <1>3, <1>4, <1>5, <1>6, <1>7 DEF Next

\* Every variable keeps its type through every critical section of the queue, and a
\* producer holds an item exactly while its push() is suspended.
THEOREM TypeCorrect == Spec => [](TypeOK /\ ThreadsOK)
  BY InitTypeInv, NextTypeInv, PTL DEF Spec, TypeInv

-------------------------------------------------------------------------------
(* Sizes.  Entries carry the value clock had when they were inserted, so a new *)
(* entry is never already in the queue.                                        *)

ClockFresh == \A e \in q \cup taken : e.at < clock

LEMMA EmplaceSize ==
  ASSUME TypeInv, ClockFresh, NEW i \in Items, NEW base \in SUBSET q,
         IsFiniteSet(q), Emplace(i, base)
  PROVE  /\ IsFiniteSet(q')
         /\ Cardinality(base) \in Nat
         /\ Cardinality(q') = Cardinality(base) + 1
<1> DEFINE new == [item |-> i, at |-> clock]
<1>1. q' = base \cup {new}
  BY DEF Emplace
<1>2. new \notin base
  BY DEF ClockFresh, TypeInv, TypeOK, Entry
<1>3. IsFiniteSet(base)
  BY FS_Subset
<1> HIDE DEF new
<1> QED
  BY <1>1, <1>2, <1>3, FS_AddElement, FS_CardinalityType

LEMMA RemoveSize ==
  ASSUME IsFiniteSet(q), NEW e \in q
  PROVE  /\ IsFiniteSet(q \ {e})
         /\ Cardinality(q \ {e}) = Size - 1
         /\ Size \in Nat \ {0}
  BY FS_RemoveElement, FS_CardinalityType, FS_EmptySet DEF Size

LEMMA NextClockFresh == TypeInv /\ ClockFresh /\ [Next]_vars => ClockFresh'
<1> SUFFICES ASSUME TypeInv, ClockFresh, [Next]_vars
             PROVE  ClockFresh'
  OBVIOUS
<1>1. \/ /\ clock' = clock
         /\ q' \cup taken' \subseteq q \cup taken
      \/ /\ clock' = clock + 1 /\ taken' = taken
         /\ \E i \in Items : q' \subseteq q \cup {[item |-> i, at |-> clock]}
  <2> USE DEF TypeInv, TypeOK, ThreadsOK, Inside, Emplace, modeVars
  <2>1. ASSUME NEW p \in Producers, NEW i \in Items, Push(p, i)
        PROVE  <1>1
    BY <2>1 DEF Push, PushRoom, PushEvict, PushRefuse, PushWait, PushFinished, CallPush
  <2>2. ASSUME NEW p \in Producers, Resume(p)
        PROVE  <1>1
    BY <2>2 DEF Resume, ResumeRoom, ResumeDrop, ResumeWait, Wakes
  <2>3. ASSUME NEW c \in Consumers, Pop(c)
        PROVE  <1>1
    BY <2>3 DEF Pop, PopItem, PopWait, PopEnd
  <2>4. ASSUME \/ \E enable \in BOOLEAN : SetBlocking(enable)
               \/ Finish \/ SpuriousWake \/ UNCHANGED vars
        PROVE  <1>1
    BY <2>4 DEF SetBlocking, Finish, SpuriousWake, vars
  <2> QED
    BY <2>1, <2>2, <2>3, <2>4 DEF Next
<1> QED
  BY <1>1 DEF ClockFresh, TypeInv, TypeOK, Entry

LEMMA NextCapacity ==
  TypeInv /\ ClockFresh /\ CapacityBound /\ [Next]_vars => CapacityBound'
<1> SUFFICES ASSUME TypeInv, ClockFresh, CapacityBound, [Next]_vars
             PROVE  CapacityBound'
  OBVIOUS
<1> USE QueueAssumption
<1>0. Size \in Nat
  BY FS_CardinalityType DEF CapacityBound, Size
<1>1. ASSUME NEW p \in Producers, NEW i \in Items, Push(p, i)
      PROVE  CapacityBound'
  <2>1. CASE PushRoom(p, i)
    BY <1>0, <2>1, EmplaceSize DEF PushRoom, CapacityBound, Size
  <2>2. CASE PushEvict(p, i)
    <3>1. PICK lowest \in q : Emplace(i, q \ {lowest})
      BY <2>2 DEF PushEvict
    <3>2. IsFiniteSet(q') /\ Cardinality(q') = Cardinality(q \ {lowest}) + 1
      BY <3>1, EmplaceSize DEF CapacityBound
    <3>3. Cardinality(q \ {lowest}) = Size - 1
      BY RemoveSize DEF CapacityBound
    <3> QED
      BY <1>0, <3>2, <3>3 DEF CapacityBound, Size
  <2>3. CASE PushRefuse(p, i) \/ PushWait(p, i) \/ PushFinished(p, i)
    BY <2>3 DEF PushRefuse, PushWait, PushFinished, CapacityBound, Size
  <2> QED
    BY <1>1, <2>1, <2>2, <2>3 DEF Push
<1>2. ASSUME NEW p \in Producers, Resume(p)
      PROVE  CapacityBound'
  <2>1. CASE ResumeRoom(p)
    <3>1. parked[p] \in Items
      BY <2>1 DEF ResumeRoom, Wakes, TypeInv, TypeOK, ThreadsOK, Inside
    <3> QED
      BY <1>0, <2>1, <3>1, EmplaceSize DEF ResumeRoom, CapacityBound, Size
  <2>2. CASE ResumeDrop(p) \/ ResumeWait(p)
    BY <2>2 DEF ResumeDrop, ResumeWait, CapacityBound, Size
  <2> QED
    BY <1>2, <2>1, <2>2 DEF Resume
<1>3. ASSUME NEW c \in Consumers, Pop(c)
      PROVE  CapacityBound'
  <2>1. CASE PopItem(c)
    BY <1>0, <2>1, RemoveSize DEF PopItem, CapacityBound, Size
  <2>2. CASE PopWait(c) \/ PopEnd(c)
    BY <2>2 DEF PopWait, PopEnd, CapacityBound, Size
  <2> QED
    BY <1>3, <2>1, <2>2 DEF Pop
<1>4. CASE \/ \E enable \in BOOLEAN : SetBlocking(enable)
           \/ Finish \/ SpuriousWake \/ UNCHANGED vars
  BY <1>4 DEF SetBlocking, Finish, SpuriousWake, vars, CapacityBound, Size
<1> QED
  BY <1>1, <1>2, <1>3, <1>4 DEF Next

\* The queue never exceeds max_capacity, however many producers race for a slot.
THEOREM NeverOverfull == Spec => []CapacityBound
<1>1. Init => ClockFresh /\ CapacityBound
  BY FS_EmptySet, QueueAssumption DEF Init, ClockFresh, CapacityBound, Size
<1> QED
  BY <1>1, InitTypeInv, NextTypeInv, NextClockFresh, NextCapacity, PTL DEF Spec

-------------------------------------------------------------------------------
(* Wakeups.                                                                    *)

LEMMA WokenFinite ==
  ASSUME TypeInv
  PROVE  /\ IsFiniteSet(popWoken) /\ Cardinality(popWoken) \in Nat
         /\ IsFiniteSet(pushWoken) /\ Cardinality(pushWoken) \in Nat
  BY QueueAssumption, FS_Subset, FS_CardinalityType DEF TypeInv, TypeOK

\* Moving one sleeper to the woken set counts one more woken thread.
LEMMA WakeOne ==
  ASSUME NEW asleep, NEW woken, NEW t \in asleep,
         IsFiniteSet(woken), asleep \cap woken = {}
  PROVE  Cardinality(woken \cup {t}) = Cardinality(woken) + 1
  BY FS_AddElement

LEMMA EmplaceWakes ==
  ASSUME TypeInv, NotifyPop, popAsleep' # {}
  PROVE  popAsleep # {} /\ Cardinality(popWoken') = Cardinality(popWoken) + 1
  BY WokenFinite, WakeOne DEF NotifyPop, popWait, TypeInv, ThreadsOK

LEMMA NextPopWakeup ==
  TypeInv /\ ClockFresh /\ CapacityBound /\ NoLostPopWakeup /\ [Next]_vars
    => NoLostPopWakeup'
<1> SUFFICES ASSUME TypeInv, ClockFresh, CapacityBound, NoLostPopWakeup, [Next]_vars,
                    popAsleep' # {}
             PROVE  Cardinality(q') <= Cardinality(popWoken')
  BY DEF NoLostPopWakeup, Size
<1> USE DEF NoLostPopWakeup, Size
<1>0. Cardinality(q) \in Nat /\ IsFiniteSet(q)
  BY FS_CardinalityType DEF CapacityBound
<1>a. ASSUME NEW i \in Items, NEW base \in SUBSET q, Emplace(i, base)
      PROVE  Cardinality(q') <= Cardinality(popWoken')
  <2>1. Cardinality(base) \in Nat /\ Cardinality(q') = Cardinality(base) + 1
    BY <1>a, <1>0, EmplaceSize
  <2>2. Cardinality(base) <= Cardinality(q)
    BY <1>0, FS_Subset
  <2>3. popAsleep # {} /\ Cardinality(popWoken') = Cardinality(popWoken) + 1
    BY <1>a, EmplaceWakes DEF Emplace
  <2> QED
    BY <1>0, <2>1, <2>2, <2>3, WokenFinite
<1>1. ASSUME NEW p \in Producers, NEW i \in Items, Push(p, i)
      PROVE  Cardinality(q') <= Cardinality(popWoken')
  <2>1. CASE PushRoom(p, i)
    BY <2>1, <1>a DEF PushRoom
  <2>2. CASE PushEvict(p, i)
    BY <2>2, <1>a DEF PushEvict
  <2>3. CASE PushRefuse(p, i) \/ PushWait(p, i) \/ PushFinished(p, i)
    BY <2>3 DEF PushRefuse, PushWait, PushFinished, popWait
  <2> QED
    BY <1>1, <2>1, <2>2, <2>3 DEF Push
<1>2. ASSUME NEW p \in Producers, Resume(p)
      PROVE  Cardinality(q') <= Cardinality(popWoken')
  <2>1. CASE ResumeRoom(p)
    <3>1. parked[p] \in Items
      BY <2>1 DEF ResumeRoom, Wakes, TypeInv, TypeOK, ThreadsOK, Inside
    <3> QED
      BY <2>1, <3>1, <1>a DEF ResumeRoom
  <2>2. CASE ResumeDrop(p) \/ ResumeWait(p)
    BY <2>2 DEF ResumeDrop, ResumeWait, popWait
  <2> QED
    BY <1>2, <2>1, <2>2 DEF Resume
<1>3. ASSUME NEW c \in Consumers, Pop(c)
      PROVE  Cardinality(q') <= Cardinality(popWoken')
  <2>0. /\ IsFiniteSet(popWoken \ {c})
        /\ Cardinality(popWoken \ {c}) = IF c \in popWoken THEN Cardinality(popWoken) - 1
                                                         ELSE Cardinality(popWoken)
    BY WokenFinite, FS_RemoveElement
  <2>1. Cardinality(popWoken \ {c}) \in Nat
    BY <2>0, FS_CardinalityType
  <2>2. CASE PopItem(c)
    <3>1. popAsleep # {} /\ popWoken' = popWoken \ {c}
      BY <2>2 DEF PopItem
    <3>2. Cardinality(q') = Cardinality(q) - 1
      BY <1>0, <2>2, RemoveSize DEF PopItem
    <3> QED
      BY <1>0, <2>0, <3>1, <3>2, WokenFinite
  <2>3. CASE PopWait(c) \/ PopEnd(c)
    <3>1. q' = {} /\ popWoken' = popWoken \ {c}
      BY <2>3 DEF PopWait, PopEnd
    <3> QED
      BY <2>1, <3>1, FS_EmptySet
  <2> QED
    BY <1>3, <2>2, <2>3 DEF Pop
<1>4. CASE SpuriousWake
  <2>1. CASE UNCHANGED popWait
    BY <1>4, <2>1 DEF SpuriousWake, popWait
  <2>2. CASE \E c \in popAsleep : popWoken' = popWoken \cup {c}
    BY <1>0, <1>4, <2>2, WokenFinite, WakeOne DEF SpuriousWake, TypeInv, ThreadsOK
  <2> QED
    BY <1>4, <2>1, <2>2 DEF SpuriousWake
<1>5. CASE (\E enable \in BOOLEAN : SetBlocking(enable)) \/ Finish \/ UNCHANGED vars
  BY <1>5 DEF SetBlocking, Finish, vars, popWait
<1> QED
  BY <1>1, <1>2, <1>3, <1>4, <1>5 DEF Next

LEMMA NextPushWakeup ==
  TypeInv /\ ClockFresh /\ CapacityBound /\ NoLostPushWakeup /\ [Next]_vars
    => NoLostPushWakeup'
<1> SUFFICES ASSUME TypeInv, ClockFresh, CapacityBound, NoLostPushWakeup, [Next]_vars,
                    pushAsleep' # {}
             PROVE  Cardinality(q') + Cardinality(pushWoken') >= Capacity
  BY DEF NoLostPushWakeup, Size
<1> USE QueueAssumption DEF NoLostPushWakeup, Size
<1>0. Cardinality(q) \in Nat /\ IsFiniteSet(q)
  BY FS_CardinalityType DEF CapacityBound
<1>1. ASSUME NEW p \in Producers, NEW i \in Items, Push(p, i)
      PROVE  Cardinality(q') + Cardinality(pushWoken') >= Capacity
  <2>1. CASE PushRoom(p, i)
    <3>1. Cardinality(q') = Cardinality(q) + 1
      BY <1>0, <2>1, EmplaceSize DEF PushRoom
    <3> QED
      BY <1>0, <2>1, <3>1, WokenFinite DEF PushRoom, pushWait
  <2>2. CASE PushEvict(p, i)
    <3>1. PICK lowest \in q : Emplace(i, q \ {lowest})
      BY <2>2 DEF PushEvict
    <3>2. Cardinality(q') = Cardinality(q \ {lowest}) + 1
      BY <1>0, <3>1, EmplaceSize
    <3>3. Cardinality(q \ {lowest}) = Cardinality(q) - 1
      BY <1>0, RemoveSize
    <3> QED
      BY <1>0, <2>2, <3>2, <3>3, WokenFinite DEF PushEvict, pushWait
  <2>3. CASE PushRefuse(p, i) \/ PushFinished(p, i)
    BY <2>3 DEF PushRefuse, PushFinished, pushWait
  <2>4. CASE PushWait(p, i)
    <3>1. Cardinality(q) >= Capacity /\ q' = q /\ pushWoken' = pushWoken
      BY <2>4 DEF PushWait
    <3> QED
      BY <1>0, <3>1, WokenFinite
  <2> QED
    BY <1>1, <2>1, <2>2, <2>3, <2>4 DEF Push
<1>2. ASSUME NEW p \in Producers, Resume(p)
      PROVE  Cardinality(q') + Cardinality(pushWoken') >= Capacity
  <2>0. /\ pushWoken' = pushWoken \ {p}
        /\ Cardinality(pushWoken') = Cardinality(pushWoken) - 1
        /\ Cardinality(pushWoken') \in Nat
    BY <1>2, WokenFinite, FS_RemoveElement, FS_CardinalityType
       DEF Resume, ResumeRoom, ResumeDrop, ResumeWait, Wakes
  <2>1. CASE ResumeRoom(p)
    <3>1. parked[p] \in Items
      BY <2>1 DEF ResumeRoom, Wakes, TypeInv, TypeOK, ThreadsOK, Inside
    <3>2. Cardinality(q') = Cardinality(q) + 1
      BY <1>0, <2>1, <3>1, EmplaceSize DEF ResumeRoom
    <3> QED
      BY <1>0, <2>0, <2>1, <3>2, WokenFinite DEF ResumeRoom
  <2>2. CASE ResumeDrop(p) \/ ResumeWait(p)
    BY <1>0, <2>0, <2>2, WokenFinite DEF ResumeDrop, ResumeWait
  <2> QED
    BY <1>2, <2>1, <2>2 DEF Resume
<1>3. ASSUME NEW c \in Consumers, Pop(c)
      PROVE  Cardinality(q') + Cardinality(pushWoken') >= Capacity
  <2>1. CASE PopItem(c)
    <3>1. Cardinality(q') = Cardinality(q) - 1
      BY <1>0, <2>1, RemoveSize DEF PopItem
    <3>2. pushAsleep # {} /\ Cardinality(pushWoken') = Cardinality(pushWoken) + 1
      BY <2>1, WokenFinite, WakeOne DEF PopItem, NotifyPush, TypeInv, ThreadsOK
    <3> QED
      BY <1>0, <3>1, <3>2, WokenFinite
  <2>2. CASE PopWait(c) \/ PopEnd(c)
    BY <2>2 DEF PopWait, PopEnd, pushWait
  <2> QED
    BY <1>3, <2>1, <2>2 DEF Pop
<1>4. CASE SpuriousWake
  <2>1. CASE UNCHANGED <<pushAsleep, pushWoken>>
    BY <1>4, <2>1 DEF SpuriousWake
  <2>2. CASE \E p \in pushAsleep : pushWoken' = pushWoken \cup {p}
    BY <1>0, <1>4, <2>2, WokenFinite, WakeOne DEF SpuriousWake, TypeInv, ThreadsOK
  <2> QED
    BY <1>4, <2>1, <2>2 DEF SpuriousWake
<1>5. CASE (\E enable \in BOOLEAN : SetBlocking(enable)) \/ Finish \/ UNCHANGED vars
  BY <1>5 DEF SetBlocking, WakeAllPushers, Finish, vars
<1> QED
  BY <1>1, <1>2, <1>3, <1>4, <1>5 DEF Next

\* No wakeup is lost: notify_one() on each side is enough, although a thread that was
\* never asleep may take the item, or the slot, a woken thread was notified for.
THEOREM NoLostWakeup == Spec => []WakeupsSuffice
<1>1. Init => ClockFresh /\ CapacityBound /\ NoLostPopWakeup /\ NoLostPushWakeup
  BY FS_EmptySet, QueueAssumption
     DEF Init, ClockFresh, CapacityBound, Size, NoLostPopWakeup, NoLostPushWakeup
<1> QED
  BY <1>1, InitTypeInv, NextTypeInv, NextClockFresh, NextCapacity, NextPopWakeup,
     NextPushWakeup, PTL DEF Spec, WakeupsSuffice

LEMMA NextReleased == TypeInv /\ ReleasedForGood /\ [Next]_vars => ReleasedForGood'
<1> SUFFICES ASSUME TypeInv, ReleasedForGood, [Next]_vars
             PROVE  ReleasedForGood'
  OBVIOUS
<1> USE DEF ReleasedForGood, modeVars
<1>1. ASSUME NEW p \in Producers, NEW i \in Items, Push(p, i)
      PROVE  ReleasedForGood'
  BY <1>1 DEF Push, PushRoom, PushEvict, PushRefuse, PushWait, PushFinished, CallPush,
              Emplace, NotifyPop, popWait, pushWait
<1>2. ASSUME NEW p \in Producers, Resume(p)
      PROVE  ReleasedForGood'
  BY <1>2 DEF Resume, ResumeRoom, ResumeDrop, ResumeWait, Wakes, Emplace, NotifyPop, popWait
<1>3. ASSUME NEW c \in Consumers, Pop(c)
      PROVE  ReleasedForGood'
  BY <1>3 DEF Pop, PopItem, PopWait, PopEnd, NotifyPush, pushWait
<1>4. ASSUME NEW enable \in BOOLEAN, SetBlocking(enable)
      PROVE  ReleasedForGood'
  BY <1>4 DEF SetBlocking, WakeAllPushers, popWait
<1>5. CASE Finish \/ SpuriousWake \/ UNCHANGED vars
  BY <1>5 DEF Finish, WakeAllPushers, SpuriousWake, popWait, vars
<1> QED
  BY <1>1, <1>2, <1>3, <1>4, <1>5 DEF Next

\* After finish() nobody sleeps in the queue again, and after set_blocking(false) no
\* producer does until blocking is switched back on.
THEOREM ShutdownReleases == Spec => []ReleasedForGood
<1>1. Init => ReleasedForGood
  BY DEF Init, ReleasedForGood
<1> QED
  BY <1>1, InitTypeInv, NextTypeInv, NextReleased, PTL DEF Spec

-------------------------------------------------------------------------------
(* Order.                                                                      *)

LEMMA NextFifo ==
  TypeInv /\ ClockFresh /\ FifoWithinBand /\ [Next]_vars => FifoWithinBand'
<1> SUFFICES ASSUME TypeInv, ClockFresh, FifoWithinBand, [Next]_vars
             PROVE  FifoWithinBand'
  OBVIOUS
<1> USE DEF FifoWithinBand, Pri
<1>a. ASSUME NEW i \in Items, NEW base \in SUBSET q, Emplace(i, base), taken' = taken
      PROVE  FifoWithinBand'
  <2> SUFFICES ASSUME NEW t \in taken', NEW e \in q', Priority[t.item] = Priority[e.item]
               PROVE  t.at < e.at
    OBVIOUS
  <2>1. CASE e \in base
    BY <1>a, <2>1
  <2>2. CASE e = [item |-> i, at |-> clock]
    BY <1>a, <2>2 DEF ClockFresh
  <2> QED
    BY <1>a, <2>1, <2>2 DEF Emplace
<1>1. ASSUME NEW p \in Producers, NEW i \in Items, Push(p, i)
      PROVE  FifoWithinBand'
  <2>1. CASE PushRoom(p, i)
    BY <1>a, <2>1 DEF PushRoom, CallPush
  <2>2. CASE PushEvict(p, i)
    BY <1>a, <2>2 DEF PushEvict, CallPush
  <2>3. CASE PushRefuse(p, i) \/ PushWait(p, i) \/ PushFinished(p, i)
    BY <2>3 DEF PushRefuse, PushWait, PushFinished, CallPush
  <2> QED
    BY <1>1, <2>1, <2>2, <2>3 DEF Push
<1>2. ASSUME NEW p \in Producers, Resume(p)
      PROVE  FifoWithinBand'
  <2>1. CASE ResumeRoom(p)
    <3>1. parked[p] \in Items
      BY <2>1 DEF ResumeRoom, Wakes, TypeInv, TypeOK, ThreadsOK, Inside
    <3> QED
      BY <1>a, <2>1, <3>1 DEF ResumeRoom, Wakes
  <2>2. CASE ResumeDrop(p) \/ ResumeWait(p)
    BY <2>2 DEF ResumeDrop, ResumeWait, Wakes
  <2> QED
    BY <1>2, <2>1, <2>2 DEF Resume
<1>3. ASSUME NEW c \in Consumers, Pop(c)
      PROVE  FifoWithinBand'
  <2>1. CASE PopItem(c)
    <3>1. PICK x \in q : IsFront(x) /\ q' = q \ {x} /\ taken' = taken \cup {x}
      BY <2>1 DEF PopItem
    <3>2. \A f \in q' : Before(x, f)
      BY <3>1 DEF IsFront
    <3>3. \A f \in q' : Priority[x.item] \in Int /\ Priority[f.item] \in Int
      BY <3>1, QueueAssumption DEF TypeInv, TypeOK, Entry
    <3> QED
      BY <3>1, <3>2, <3>3 DEF Before
  <2>2. CASE PopWait(c) \/ PopEnd(c)
    BY <2>2 DEF PopWait, PopEnd
  <2> QED
    BY <1>3, <2>1, <2>2 DEF Pop
<1>4. CASE \/ \E enable \in BOOLEAN : SetBlocking(enable)
           \/ Finish \/ SpuriousWake \/ UNCHANGED vars
  BY <1>4 DEF SetBlocking, Finish, SpuriousWake, vars
<1> QED
  BY <1>1, <1>2, <1>3, <1>4 DEF Next

\* Flows of equal priority leave the queue in the order they entered it, although the
\* queue is reordered by priority and the newest of the weakest band may be evicted.
THEOREM BandsAreFifo == Spec => []FifoWithinBand
<1>1. Init => ClockFresh /\ FifoWithinBand
  BY DEF Init, ClockFresh, FifoWithinBand
<1> QED
  BY <1>1, InitTypeInv, NextTypeInv, NextClockFresh, NextFifo, PTL DEF Spec

LEMMA LossStep ==
  TypeInv /\ [Next]_vars =>
    \A i \in lost' \ lost :
       ~blocking /\ i \notin HeldItems => \A e \in q' : Priority[i] <= Pri(e)
<1> SUFFICES ASSUME TypeInv, [Next]_vars, NEW x \in lost' \ lost,
                    ~blocking, x \notin HeldItems, NEW e \in q'
             PROVE  Priority[x] <= Priority[e.item]
  BY DEF Pri
<1>0. \A f \in q : f.item \in Items /\ Priority[f.item] \in Int
  BY QueueAssumption DEF TypeInv, TypeOK, Entry
<1>1. ASSUME NEW p \in Producers, NEW i \in Items, Push(p, i)
      PROVE  Priority[x] <= Priority[e.item]
  <2>1. CASE PushEvict(p, i)
    <3>1. PICK lowest \in q : /\ IsBack(lowest) /\ Priority[i] > Pri(lowest)
                              /\ CountDrop(lowest.item) /\ Emplace(i, q \ {lowest})
      BY <2>1 DEF PushEvict
    <3>2. x = lowest.item
      BY <3>1 DEF CountDrop
    <3>3. \A f \in q \ {lowest} : Before(f, lowest)
      BY <3>1 DEF IsBack
    <3>4. Priority[i] \in Int
      BY QueueAssumption
    <3>5. e \in q \ {lowest} \/ e.item = i
      BY <3>1 DEF Emplace
    <3> QED
      BY <1>0, <3>1, <3>2, <3>3, <3>4, <3>5 DEF Before, Pri
  <2>2. CASE PushRefuse(p, i)
    <3>1. PICK lowest \in q : IsBack(lowest) /\ Priority[i] <= Pri(lowest)
      BY <2>2 DEF PushRefuse
    <3>2. x = i /\ q' = q
      BY <2>2 DEF PushRefuse, CountDrop
    <3>3. e = lowest \/ Before(e, lowest)
      BY <3>1, <3>2 DEF IsBack
    <3>4. Priority[i] \in Int
      BY QueueAssumption
    <3> QED
      BY <1>0, <3>1, <3>2, <3>3, <3>4 DEF Before, Pri
  <2>3. CASE PushRoom(p, i) \/ PushWait(p, i) \/ PushFinished(p, i)
    BY <2>3 DEF PushRoom, PushWait, PushFinished
  <2> QED
    BY <1>1, <2>1, <2>2, <2>3 DEF Push
<1>2. ASSUME NEW p \in Producers, Resume(p)
      PROVE  Priority[x] <= Priority[e.item]
  BY <1>2 DEF Resume, ResumeRoom, ResumeDrop, ResumeWait, Wakes, CountDrop, HeldItems, Inside
<1>3. ASSUME NEW c \in Consumers, Pop(c)
      PROVE  Priority[x] <= Priority[e.item]
  BY <1>3 DEF Pop, PopItem, PopWait, PopEnd
<1>4. CASE \/ \E enable \in BOOLEAN : SetBlocking(enable)
           \/ Finish \/ SpuriousWake \/ UNCHANGED vars
  BY <1>4 DEF SetBlocking, Finish, SpuriousWake, vars
<1> QED
  BY <1>1, <1>2, <1>3, <1>4 DEF Next

\* The emergency drop loses the least suspicious flow: nothing left in the queue has a
\* lower priority than what was lost.
THEOREM EmergencyDropIsWeakest == Spec => StrongestSurvive
  BY InitTypeInv, NextTypeInv, LossStep, PTL DEF Spec, StrongestSurvive

-------------------------------------------------------------------------------
(* Accounting.  The five places an item can be in are images of the state; each *)
(* critical section moves one item from one of them to another, an eviction two. *)

\* What Accounting leans on: no two entries and no two suspended calls have the
\* same item, so that taking one away takes its item out of the place.
Single ==
  /\ \A e, f \in q : e.item = f.item => e = f
  /\ \A p, r \in Inside : parked[p] = parked[r] => p = r
  /\ IsFiniteSet(lost)

AccountInv == TypeInv /\ Accounting /\ Single

LEMMA CountOne ==
  ASSUME IsFiniteSet(lost), dropped_count = Cardinality(lost),
         NEW x, x \notin lost, CountDrop(x)
  PROVE  IsFiniteSet(lost') /\ dropped_count' = Cardinality(lost')
  BY FS_AddElement DEF CountDrop

LEMMA AddQueued ==
  ASSUME NEW i \in Items, NEW base \in SUBSET q, Emplace(i, base)
  PROVE  QueuedItems' = {e.item : e \in base} \cup {i}
<1> DEFINE new == [item |-> i, at |-> clock]
<1>1. q' = base \cup {new} /\ QueuedItems' = {e.item : e \in q'}
  BY DEF Emplace, QueuedItems
<1>2. new.item = i
  OBVIOUS
<1> HIDE DEF new
<1> QED
  BY <1>1, <1>2

LEMMA DropQueued ==
  ASSUME Single, NEW x \in q
  PROVE  {e.item : e \in q \ {x}} = QueuedItems \ {x.item} /\ x.item \in QueuedItems
  BY DEF Single, QueuedItems

\* What one critical section does to the five places.
Enters(i) == /\ i \in fresh /\ fresh' = fresh \ {i}
             /\ UNCHANGED <<modeVars, TakenItems>>
Leaves(i) == /\ i \in HeldItems /\ HeldItems' = HeldItems \ {i}
             /\ UNCHANGED <<modeVars, fresh, TakenItems>>
KeepLost == UNCHANGED <<lost, dropped_count>>

Move ==
  \/ \E i \in Items :
       /\ Enters(i) /\ Size < Capacity
       /\ QueuedItems' = QueuedItems \cup {i} /\ HeldItems' = HeldItems /\ KeepLost
  \/ \E i \in Items, x \in QueuedItems :
       /\ Enters(i) /\ Size >= Capacity /\ ~blocking
       /\ QueuedItems' = (QueuedItems \ {x}) \cup {i} /\ HeldItems' = HeldItems
       /\ CountDrop(x)
  \/ \E i \in Items :
       /\ Enters(i) /\ Size >= Capacity /\ (~blocking \/ done)
       /\ UNCHANGED <<QueuedItems, HeldItems>> /\ CountDrop(i)
  \/ \E i \in Items :
       /\ Enters(i) /\ Size >= Capacity /\ blocking /\ ~done
       /\ HeldItems' = HeldItems \cup {i} /\ QueuedItems' = QueuedItems /\ KeepLost
  \/ \E i \in Items :
       /\ Leaves(i) /\ Size < Capacity
       /\ QueuedItems' = QueuedItems \cup {i} /\ KeepLost
  \/ \E i \in Items :
       /\ Leaves(i) /\ Size >= Capacity /\ (~blocking \/ done)
       /\ QueuedItems' = QueuedItems /\ CountDrop(i)
  \/ \E i \in QueuedItems :
       /\ QueuedItems' = QueuedItems \ {i} /\ TakenItems' = TakenItems \cup {i}
       /\ UNCHANGED <<modeVars, fresh, HeldItems>> /\ KeepLost
  \/ UNCHANGED <<fresh, HeldItems, QueuedItems, TakenItems>> /\ KeepLost

\* Every step is such a move, and leaves items where they can be told apart.
LEMMA StepMoves == AccountInv /\ [Next]_vars => Move /\ (IsFiniteSet(lost') => Single')
<1> SUFFICES ASSUME AccountInv, [Next]_vars
             PROVE  Move /\ (IsFiniteSet(lost') => Single')
  OBVIOUS
<1>s. /\ TypeOK /\ ThreadsOK /\ Accounting /\ Single
      /\ QueuedItems \subseteq Items
  BY DEF AccountInv, TypeInv, TypeOK, Entry, QueuedItems
<1>1. ASSUME NEW p \in Producers, NEW i \in Items, Push(p, i)
      PROVE  Move /\ (IsFiniteSet(lost') => Single')
  <2>0. Enters(i)
    BY <1>1 DEF Push, PushRoom, PushEvict, PushRefuse, PushWait, PushFinished,
       CallPush, TakenItems, Enters
  <2>n. i \notin HeldItems \cup QueuedItems
    BY <1>s, <2>0 DEF Accounting, Enters
  <2>1. CASE PushRoom(p, i)
    <3>1. Size < Capacity /\ HeldItems' = HeldItems /\ KeepLost /\ UNCHANGED pushWait
      BY <2>1 DEF PushRoom, pushWait, HeldItems, Inside, KeepLost
    <3>2. QueuedItems' = QueuedItems \cup {i}
      BY <2>1, AddQueued DEF PushRoom, QueuedItems
    <3>3. IsFiniteSet(lost') => Single'
      BY <1>s, <2>1, <2>n, <3>1 DEF Single, PushRoom, Emplace, QueuedItems, Inside, pushWait
    <3> QED
      BY <2>0, <3>1, <3>2, <3>3 DEF Move
  <2>2. CASE PushEvict(p, i)
    <3>1. PICK x \in q : CountDrop(x.item) /\ Emplace(i, q \ {x})
      BY <2>2 DEF PushEvict
    <3>2. /\ Size >= Capacity /\ ~blocking
          /\ HeldItems' = HeldItems /\ UNCHANGED pushWait
      BY <2>2 DEF PushEvict, pushWait, HeldItems, Inside
    <3>3. x.item \in QueuedItems /\ QueuedItems' = (QueuedItems \ {x.item}) \cup {i}
      BY <1>s, <3>1, AddQueued, DropQueued
    <3>4. IsFiniteSet(lost') => Single'
      BY <1>s, <2>n, <3>1, <3>2 DEF Single, Emplace, QueuedItems, Inside, pushWait
    <3> QED
      BY <2>0, <3>1, <3>2, <3>3, <3>4 DEF Move
  <2>3. CASE PushRefuse(p, i) \/ PushFinished(p, i)
    <3>1. /\ CountDrop(i) /\ Size >= Capacity /\ (~blocking \/ done)
          /\ UNCHANGED <<HeldItems, QueuedItems, q, pushWait>>
      BY <2>3 DEF PushRefuse, PushFinished, pushWait, HeldItems, QueuedItems, Inside
    <3>2. IsFiniteSet(lost') => Single'
      BY <1>s, <3>1 DEF Single, Inside, pushWait
    <3> QED
      BY <2>0, <3>1, <3>2 DEF Move
  <2>4. CASE PushWait(p, i)
    <3>1. /\ Size >= Capacity /\ blocking /\ ~done
          /\ p \notin Inside
          /\ Inside' = Inside \cup {p}
          /\ parked' = [parked EXCEPT ![p] = i]
          /\ UNCHANGED <<q, QueuedItems>> /\ KeepLost
      BY <2>4 DEF PushWait, CallPush, Inside, QueuedItems, KeepLost
    <3>2. HeldItems' = HeldItems \cup {i}
      BY <1>s, <3>1 DEF HeldItems, TypeOK, Inside
    <3>3. IsFiniteSet(lost') => Single'
      BY <1>s, <2>n, <3>1 DEF Single, HeldItems, TypeOK, Inside
    <3> QED
      BY <2>0, <3>1, <3>2, <3>3 DEF Move
  <2> QED
    BY <1>1, <2>1, <2>2, <2>3, <2>4 DEF Push
<1>2. ASSUME NEW p \in Producers, Resume(p)
      PROVE  Move /\ (IsFiniteSet(lost') => Single')
  <2> DEFINE i == parked[p]
  <2>0. /\ p \in Inside /\ p \notin pushAsleep /\ i \in HeldItems
        /\ UNCHANGED <<modeVars, fresh, taken, TakenItems>>
    BY <1>2, <1>s DEF Resume, ResumeRoom, ResumeDrop, ResumeWait, Wakes, Inside,
       HeldItems, TakenItems, ThreadsOK
  <2>i. i \in Items /\ i \notin QueuedItems
    BY <1>s, <2>0 DEF TypeOK, ThreadsOK, Accounting
  <2>l. ASSUME ResumeRoom(p) \/ ResumeDrop(p)
        PROVE  /\ Leaves(i)
               /\ \A r, t \in Inside' : parked'[r] = parked'[t] => r = t
    <3>1. Inside' = Inside \ {p} /\ parked' = [parked EXCEPT ![p] = NoItem]
      BY <2>0, <2>l DEF ResumeRoom, ResumeDrop, Wakes, Inside
    <3>2. \A r \in Inside' : parked'[r] = parked[r]
      BY <1>s, <3>1 DEF TypeOK, Inside
    <3>3. \A r \in Inside : parked[r] = parked[p] => r = p
      BY <1>s, <2>0 DEF Single
    <3>4. HeldItems' = HeldItems \ {i}
      BY <1>s, <2>0, <3>1, <3>2, <3>3 DEF HeldItems
    <3> QED
      BY <1>s, <2>0, <3>1, <3>2, <3>4 DEF Leaves, Single
  <2>1. CASE ResumeRoom(p)
    <3>1. Emplace(i, q) /\ KeepLost /\ Size < Capacity
      BY <2>1 DEF ResumeRoom, KeepLost
    <3> HIDE DEF i
    <3>2. QueuedItems' = QueuedItems \cup {i}
      BY <2>i, <3>1, AddQueued DEF QueuedItems
    <3>3. IsFiniteSet(lost') => Single'
      BY <1>s, <2>1, <2>i, <2>l, <3>1 DEF Single, Emplace, QueuedItems
    <3> QED
      BY <2>1, <2>i, <2>l, <3>1, <3>2, <3>3 DEF Move
  <2>2. CASE ResumeDrop(p)
    <3>1. CountDrop(i) /\ UNCHANGED <<q, QueuedItems>> /\ Size >= Capacity /\ (~blocking \/ done)
      BY <2>2 DEF ResumeDrop, QueuedItems
    <3> HIDE DEF i
    <3>2. IsFiniteSet(lost') => Single'
      BY <1>s, <2>2, <2>l, <3>1 DEF Single
    <3> QED
      BY <2>2, <2>i, <2>l, <3>1, <3>2 DEF Move
  <2>3. CASE ResumeWait(p)
    <3>1. UNCHANGED <<q, parked>> /\ KeepLost /\ Inside' = Inside
      BY <2>3 DEF ResumeWait, Wakes, Inside, KeepLost
    <3> QED
      BY <1>s, <2>0, <3>1 DEF Move, Single, HeldItems, QueuedItems, KeepLost
  <2> QED
    BY <1>2, <2>1, <2>2, <2>3 DEF Resume
<1>3. ASSUME NEW c \in Consumers, PopItem(c)
      PROVE  Move /\ (IsFiniteSet(lost') => Single')
  <2>1. PICK x \in q : q' = q \ {x} /\ taken' = taken \cup {x}
    BY <1>3 DEF PopItem
  <2>2. /\ QueuedItems' = QueuedItems \ {x.item} /\ x.item \in QueuedItems
        /\ TakenItems' = TakenItems \cup {x.item}
    BY <1>s, <2>1, DropQueued DEF QueuedItems, TakenItems
  <2>3. UNCHANGED <<modeVars, fresh, parked>> /\ KeepLost /\ Inside' = Inside
    BY <1>3, <1>s DEF PopItem, NotifyPush, Inside, KeepLost
  <2>4. (IsFiniteSet(lost') => Single') /\ HeldItems' = HeldItems
    BY <1>s, <2>1, <2>3 DEF Single, HeldItems
  <2> QED
    BY <2>2, <2>3, <2>4 DEF Move
<1>4. ASSUME \/ \E c \in Consumers : PopWait(c) \/ PopEnd(c)
             \/ \E enable \in BOOLEAN : SetBlocking(enable)
             \/ Finish \/ SpuriousWake \/ UNCHANGED vars
      PROVE  Move /\ (IsFiniteSet(lost') => Single')
  <2>1. UNCHANGED <<q, fresh, taken, parked>> /\ KeepLost /\ Inside' = Inside
    BY <1>4, <1>s DEF PopWait, PopEnd, SetBlocking, Finish, SpuriousWake, vars,
       pushWait, WakeAllPushers, Inside, KeepLost
  <2> QED
    BY <1>s, <2>1 DEF Move, Single, HeldItems, QueuedItems, TakenItems
<1> QED
  BY <1>1, <1>2, <1>3, <1>4 DEF Next, Pop

LEMMA NextAccount == AccountInv /\ [Next]_vars => AccountInv'
<1> SUFFICES ASSUME AccountInv, [Next]_vars
             PROVE  AccountInv'
  OBVIOUS
<1>1. TypeInv' /\ TypeOK'
  BY NextTypeInv DEF AccountInv, TypeInv
<1>2. Move /\ (IsFiniteSet(lost') => Single')
  BY StepMoves
<1>3. Accounting /\ IsFiniteSet(lost) /\ QueuedItems \subseteq Items
  BY DEF AccountInv, Single, TypeInv, TypeOK, Entry, QueuedItems
<1>4. \/ KeepLost
      \/ \E x \in fresh \cup HeldItems \cup QueuedItems : CountDrop(x)
  BY <1>2 DEF Move, Enters, Leaves
<1>5. IsFiniteSet(lost') /\ dropped_count' = Cardinality(lost')
  BY <1>3, <1>4, CountOne DEF KeepLost, Accounting
<1>6. /\ fresh' \cup HeldItems' \cup QueuedItems' \cup TakenItems' \cup lost' = Items
      /\ fresh' \cap (HeldItems' \cup QueuedItems' \cup TakenItems' \cup lost') = {}
      /\ HeldItems' \cap (QueuedItems' \cup TakenItems' \cup lost') = {}
      /\ QueuedItems' \cap (TakenItems' \cup lost') = {}
      /\ TakenItems' \cap lost' = {}
  BY <1>2, <1>3 DEF Move, Enters, Leaves, KeepLost, CountDrop, Accounting
<1> QED
  BY <1>1, <1>2, <1>5, <1>6 DEF AccountInv, Accounting

LEMMA InitAccount == Init => AccountInv
<1> SUFFICES ASSUME Init PROVE Accounting /\ Single
  BY InitTypeInv DEF AccountInv
<1>1. TypeOK
  BY InitTypeInv DEF TypeInv
<1>2. HeldItems = {} /\ QueuedItems = {} /\ TakenItems = {} /\ Inside = {}
  BY DEF Init, HeldItems, QueuedItems, TakenItems, Inside
<1>3. lost = {} /\ q = {} /\ fresh = Items /\ dropped_count = 0
  BY DEF Init
<1> QED
  BY <1>1, <1>2, <1>3, FS_EmptySet DEF Accounting, Single

\* No path of push(), suspended, evicting, refused or finished, loses an item without
\* counting it, counts one twice or delivers one twice.
THEOREM NothingUncounted == Spec => []Accounting
<1>1. AccountInv => Accounting
  BY DEF AccountInv
<1> QED
  BY <1>1, InitAccount, NextAccount, PTL DEF Spec

-------------------------------------------------------------------------------
(* Refinement.  Place reads an item's status off the five places, and the       *)
(* ledger's full queue is the multimap's: its entries have distinct items.      *)

PlacesRead ==
  /\ Place \in [Items -> {"fresh", "held", "queued", "taken", "dropped"}]
  /\ \A i \in Items : /\ Place[i] = "fresh" <=> i \in fresh
                      /\ Place[i] = "held" <=> i \in HeldItems
                      /\ Place[i] = "queued" <=> i \in QueuedItems
                      /\ Place[i] = "taken" <=> i \in TakenItems
                      /\ Place[i] = "dropped" <=> i \in lost

LEMMA ReadPlaces == Accounting => PlacesRead
<1> SUFFICES ASSUME Accounting PROVE PlacesRead
  OBVIOUS
<1>1. \A i \in Items : /\ (\E e \in taken : e.item = i) <=> i \in TakenItems
                       /\ (\E e \in q : e.item = i) <=> i \in QueuedItems
  BY DEF TakenItems, QueuedItems
<1>2. \A i \in Items :
        Place[i] = IF i \in fresh THEN "fresh"
                   ELSE IF i \in lost THEN "dropped"
                   ELSE IF i \in TakenItems THEN "taken"
                   ELSE IF i \in QueuedItems THEN "queued"
                   ELSE "held"
  BY <1>1 DEF Place
<1>3. Place = [i \in Items |-> Place[i]]
  BY DEF Place
<1> QED
  BY <1>2, <1>3 DEF PlacesRead, Accounting

LEMMA LedgerCounts ==
  ASSUME NEW S PROVE Ledger!Cardinality(S) = Cardinality(S)
  BY Zenon DEF Cardinality, Ledger!Cardinality

LEMMA SameSize ==
  ASSUME AccountInv, CapacityBound
  PROVE  Ledger!Cardinality(Ledger!Queued) = Size
<1> DEFINE f == [e \in q |-> e.item]
<1>1. Ledger!Queued = QueuedItems
  BY ReadPlaces DEF AccountInv, PlacesRead, Ledger!Queued, TypeInv, TypeOK, Entry, QueuedItems
<1>2. f \in [q -> QueuedItems]
  BY DEF QueuedItems
<1>3. \A a, b \in q : f[a] = f[b] => a = b
  BY DEF AccountInv, Single
<1>4. \A t \in QueuedItems : \E e \in q : f[e] = t
  BY DEF QueuedItems
<1>5. f \in Bijection(q, QueuedItems)
  BY <1>2, <1>3, <1>4 DEF Bijection, Injection, Surjection, IsInjective
<1>6. ExistsBijection(q, QueuedItems)
  BY <1>5 DEF ExistsBijection
<1> QED
  BY <1>1, <1>6, FS_Bijection, LedgerCounts DEF CapacityBound, Size

LEMMA ReadPlacesNext == Accounting' => PlacesRead'
  BY ReadPlaces, PTL

LEMMA StepSimulates ==
  ASSUME AccountInv, AccountInv', CapacityBound, [Next]_vars
  PROVE  [Ledger!Next]_Ledger!vars
<1>1. PlacesRead /\ PlacesRead' /\ Accounting /\ Accounting'
  BY ReadPlaces, ReadPlacesNext DEF AccountInv
<1>2. Ledger!Full <=> Size >= Capacity
  BY SameSize DEF Ledger!Full
<1>3. Size \in Nat /\ Capacity \in Nat
  BY QueueAssumption, FS_CardinalityType DEF CapacityBound, Size
<1>4. blocking \in BOOLEAN /\ blocking' \in BOOLEAN /\ done \in BOOLEAN /\ done' \in BOOLEAN
  BY <1>1 DEF Accounting, TypeOK
<1>m. Move
  BY StepMoves
<1>s. /\ fresh \subseteq Items /\ lost \subseteq Items
      /\ QueuedItems \subseteq Items /\ HeldItems \subseteq Items
  BY <1>1 DEF Accounting
<1> USE <1>1, <1>2, <1>3, <1>s DEF PlacesRead
<1>5. ASSUME NEW i \in Items, Enters(i), Size < Capacity,
             QueuedItems' = QueuedItems \cup {i}, HeldItems' = HeldItems, KeepLost
      PROVE  Ledger!Accept(i)
  <2>1. Place' = [Place EXCEPT ![i] = "queued"]
    BY <1>5 DEF Enters, KeepLost, Accounting
  <2> QED
    BY <2>1, <1>5 DEF Ledger!Accept, Enters, modeVars
<1>6. ASSUME NEW i \in Items, NEW x \in QueuedItems, Enters(i), Size >= Capacity, ~blocking,
             QueuedItems' = (QueuedItems \ {x}) \cup {i}, HeldItems' = HeldItems, CountDrop(x)
      PROVE  Ledger!Replace(i, x)
  <2>1. Place' = [Place EXCEPT ![i] = "queued", ![x] = "dropped"]
    BY <1>6 DEF Enters, CountDrop, Accounting
  <2> QED
    BY <2>1, <1>6 DEF Ledger!Replace, Enters, modeVars
<1>7. ASSUME NEW i \in Items, Enters(i) \/ Leaves(i), Size >= Capacity, ~blocking \/ done,
             QueuedItems' = QueuedItems, HeldItems' = HeldItems \ {i}, CountDrop(i)
      PROVE  Ledger!Refuse(i)
  <2>1. Place' = [Place EXCEPT ![i] = "dropped"]
    BY <1>7 DEF Enters, Leaves, CountDrop, Accounting
  <2> QED
    BY <2>1, <1>7 DEF Ledger!Refuse, Enters, Leaves, modeVars
<1>8. ASSUME NEW i \in Items, Enters(i), Size >= Capacity, blocking, ~done,
             HeldItems' = HeldItems \cup {i}, QueuedItems' = QueuedItems, KeepLost
      PROVE  Ledger!Hold(i)
  <2>1. Place' = [Place EXCEPT ![i] = "held"]
    BY <1>8 DEF Enters, KeepLost, Accounting
  <2> QED
    BY <2>1, <1>8 DEF Ledger!Hold, Enters, modeVars
<1>9. ASSUME NEW i \in Items, Leaves(i), Size < Capacity,
             QueuedItems' = QueuedItems \cup {i}, KeepLost
      PROVE  Ledger!Release(i)
  <2>1. Place' = [Place EXCEPT ![i] = "queued"]
    BY <1>9 DEF Leaves, KeepLost, Accounting
  <2> QED
    BY <2>1, <1>9 DEF Ledger!Release, Leaves, modeVars
<1>10. ASSUME NEW i \in QueuedItems, QueuedItems' = QueuedItems \ {i},
              TakenItems' = TakenItems \cup {i},
              UNCHANGED <<modeVars, fresh, HeldItems>>, KeepLost
       PROVE  Ledger!Deliver(i)
  <2>1. Place' = [Place EXCEPT ![i] = "taken"]
    BY <1>10 DEF KeepLost, Accounting
  <2> QED
    BY <2>1, <1>10 DEF Ledger!Deliver, modeVars
<1>11. ASSUME UNCHANGED <<fresh, HeldItems, QueuedItems, TakenItems>>, KeepLost
       PROVE  Ledger!ChangeMode
  <2>1. Place' = Place
    BY <1>11 DEF KeepLost, Accounting
  <2> QED
    BY <2>1, <1>4 DEF Ledger!ChangeMode
<1>12. \A i \in Items : Enters(i) => HeldItems \ {i} = HeldItems
  BY DEF Enters, Accounting
<1>13. \A i \in Items : Leaves(i) => HeldItems' = HeldItems \ {i}
  BY DEF Leaves
<1> QED
  BY <1>m, <1>5, <1>6, <1>7, <1>8, <1>9, <1>10, <1>11, <1>12, <1>13
  DEF Move, Ledger!Next

\* The queue is the ledger: an item is lost only when the queue is full and is not
\* holding its callers back, and otherwise it is accepted or held until there is room.
THEOREM QueueKeepsPromise == Spec => ImplementsLedger
<1>1. Init => Ledger!Init
  <2>1. ASSUME Init PROVE Ledger!Init
    <3>1. fresh = Items /\ (~blocking \/ done) = TRUE
      BY <2>1 DEF Init
    <3> QED
      BY <3>1 DEF Ledger!Init, Place
  <2> QED
    BY <2>1
<1> QED
  BY <1>1, InitAccount, NextAccount, NeverOverfull, StepSimulates, PTL
  DEF Spec, ImplementsLedger, Ledger!Spec
===============================================================================
