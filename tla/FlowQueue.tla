------------------------------- MODULE FlowQueue -------------------------------
(* ThreadSafeQueue<T> (include/thread_safe_queue.hpp): the bounded priority     *)
(* queue between two pipeline stages.  Each action is one critical section     *)
(* under the mutex m.  The two condition variables are modelled by the sets of *)
(* threads asleep on them and the sets of threads woken but not yet holding m. *)
EXTENDS Integers, FiniteSets

CONSTANTS Producers,  \* threads that call push()
          Consumers,  \* threads that call pop()
          Items,      \* the items pushed, each once
          Priority,   \* the priority argument each item is pushed with
          Capacity,   \* max_capacity
          NoItem      \* "this producer holds no item"

ASSUME QueueAssumption ==
  /\ IsFiniteSet(Producers) /\ IsFiniteSet(Consumers)
  /\ Priority \in [Items -> Int]
  /\ Capacity \in Nat \ {0}
  /\ NoItem \notin Items

VARIABLES
  q,              \* the multimap: entries [item, at], at being the insertion order
  blocking,       \* blocking_
  done,           \* done
  dropped_count,  \* dropped_count
  parked,         \* the item of each push() suspended in cv_push.wait
  pushAsleep,     \* producers asleep on cv_push
  pushWoken,      \* producers notified, or woken spuriously, and not yet running
  popAsleep,      \* consumers asleep on cv
  popWoken,       \* consumers notified, or woken spuriously, and not yet running
  clock,          \* insertions so far (orders entries of equal priority)
  fresh,          \* history: items no push() was called with yet
  taken,          \* history: entries pop() returned
  lost            \* history: items the queue dropped

modeVars == <<blocking, done>>
pushWait == <<parked, pushAsleep, pushWoken>>
popWait == <<popAsleep, popWoken>>
vars == <<q, blocking, done, dropped_count, parked, pushAsleep, pushWoken,
          popAsleep, popWoken, clock, fresh, taken, lost>>

Entry == [item : Items, at : Nat]
Pri(e) == Priority[e.item]
Size == Cardinality(q)

\* Bug_Name operators are known-bad variants of the definition that follows them.
Bug_Before(e, f) == \/ Pri(e) > Pri(f)
                    \/ Pri(e) = Pri(f) /\ e.at > f.at

\* Iteration order of std::multimap<int, T, std::greater<int>>: higher priority
\* first, insertion order among equal priorities.
Before(e, f) == \/ Pri(e) > Pri(f)
                \/ Pri(e) = Pri(f) /\ e.at < f.at

IsFront(e) == e \in q /\ \A f \in q \ {e} : Before(e, f)  \* q.begin()
Bug_IsBack(e) == IsFront(e)
IsBack(e) == e \in q /\ \A f \in q \ {e} : Before(f, e)   \* std::prev(q.end())

Bug_NotifyPop == UNCHANGED popWait

\* cv.notify_one(): one sleeper, if any, is woken.
NotifyPop ==
  \/ popAsleep = {} /\ UNCHANGED popWait
  \/ \E c \in popAsleep : /\ popAsleep' = popAsleep \ {c}
                          /\ popWoken' = popWoken \cup {c}

Bug_NotifyPush == UNCHANGED <<pushAsleep, pushWoken>>

\* cv_push.notify_one().
NotifyPush ==
  \/ pushAsleep = {} /\ UNCHANGED <<pushAsleep, pushWoken>>
  \/ \E p \in pushAsleep : /\ pushAsleep' = pushAsleep \ {p}
                           /\ pushWoken' = pushWoken \cup {p}

WakeAllPushers ==
  /\ pushAsleep' = {}
  /\ pushWoken' = pushWoken \cup pushAsleep

\* q.emplace(priority, item); cv.notify_one(); base is q, less an evicted entry.
Emplace(i, base) ==
  /\ q' = base \cup {[item |-> i, at |-> clock]}
  /\ clock' = clock + 1
  /\ NotifyPop

CountDrop(i) ==
  /\ dropped_count' = dropped_count + 1
  /\ lost' = lost \cup {i}

Init ==
  /\ q = {} /\ clock = 0
  /\ blocking = FALSE /\ done = FALSE
  /\ dropped_count = 0
  /\ parked = [p \in Producers |-> NoItem]
  /\ pushAsleep = {} /\ pushWoken = {}
  /\ popAsleep = {} /\ popWoken = {}
  /\ fresh = Items /\ taken = {} /\ lost = {}

CallPush(p, i) ==
  /\ p \notin pushAsleep \cup pushWoken
  /\ i \in fresh
  /\ fresh' = fresh \ {i}
  /\ UNCHANGED <<modeVars, taken>>

\* push() finding room.
PushRoom(p, i) ==
  /\ CallPush(p, i)
  /\ Size < Capacity
  /\ Emplace(i, q)
  /\ UNCHANGED <<dropped_count, lost, pushWait>>

\* push() on a full queue that is not blocking: the emergency drop.
PushEvict(p, i) ==
  /\ CallPush(p, i)
  /\ Size >= Capacity /\ ~blocking
  /\ \E lowest \in q :
       /\ IsBack(lowest)
       /\ Priority[i] > Pri(lowest)
       /\ CountDrop(lowest.item)
       /\ Emplace(i, q \ {lowest})
  /\ UNCHANGED pushWait

Bug_PushRefuse(p, i) ==
  /\ CallPush(p, i)
  /\ Size >= Capacity
  /\ \E lowest \in q : IsBack(lowest) /\ Priority[i] <= Pri(lowest)
  /\ CountDrop(i)
  /\ UNCHANGED <<q, clock, pushWait, popWait>>

PushRefuse(p, i) ==
  /\ CallPush(p, i)
  /\ Size >= Capacity /\ ~blocking
  /\ \E lowest \in q : IsBack(lowest) /\ Priority[i] <= Pri(lowest)
  /\ CountDrop(i)
  /\ UNCHANGED <<q, clock, pushWait, popWait>>

\* push() on a full blocking queue: the wait's predicate is false, so it sleeps...
PushWait(p, i) ==
  /\ CallPush(p, i)
  /\ Size >= Capacity /\ blocking /\ ~done
  /\ parked' = [parked EXCEPT ![p] = i]
  /\ pushAsleep' = pushAsleep \cup {p}
  /\ UNCHANGED <<q, clock, dropped_count, lost, pushWoken, popWait>>

\* ...unless the queue is finished: the wait returns at once and the item is dropped.
PushFinished(p, i) ==
  /\ CallPush(p, i)
  /\ Size >= Capacity /\ blocking /\ done
  /\ CountDrop(i)
  /\ UNCHANGED <<q, clock, pushWait, popWait>>

\* A woken push() holds m again and evaluates the predicate.
Wakes(p) ==
  /\ p \in pushWoken
  /\ pushWoken' = pushWoken \ {p}
  /\ UNCHANGED <<modeVars, fresh, taken>>

Bug_ResumeRoom(p) ==
  /\ Wakes(p)
  /\ Emplace(parked[p], q)
  /\ parked' = [parked EXCEPT ![p] = NoItem]
  /\ UNCHANGED <<dropped_count, lost, pushAsleep>>

ResumeRoom(p) ==
  /\ Wakes(p)
  /\ Size < Capacity
  /\ Emplace(parked[p], q)
  /\ parked' = [parked EXCEPT ![p] = NoItem]
  /\ UNCHANGED <<dropped_count, lost, pushAsleep>>

Bug_ResumeDrop(p) ==
  /\ Wakes(p)
  /\ Size >= Capacity /\ (done \/ ~blocking)
  /\ lost' = lost \cup {parked[p]}
  /\ parked' = [parked EXCEPT ![p] = NoItem]
  /\ UNCHANGED <<q, clock, dropped_count, pushAsleep, popWait>>

ResumeDrop(p) ==
  /\ Wakes(p)
  /\ Size >= Capacity /\ (done \/ ~blocking)
  /\ CountDrop(parked[p])
  /\ parked' = [parked EXCEPT ![p] = NoItem]
  /\ UNCHANGED <<q, clock, pushAsleep, popWait>>

ResumeWait(p) ==
  /\ Wakes(p)
  /\ Size >= Capacity /\ blocking /\ ~done
  /\ pushAsleep' = pushAsleep \cup {p}
  /\ UNCHANGED <<q, clock, dropped_count, lost, parked, popWait>>

\* pop(), on entry or woken, finding an item: begin() is returned.
PopItem(c) ==
  /\ c \notin popAsleep
  /\ \E e \in q : /\ IsFront(e)
                  /\ q' = q \ {e}
                  /\ taken' = taken \cup {e}
  /\ NotifyPush
  /\ popWoken' = popWoken \ {c}
  /\ UNCHANGED <<modeVars, dropped_count, parked, popAsleep, clock, fresh, lost>>

\* pop() finding nothing on an unfinished queue sleeps.
PopWait(c) ==
  /\ c \notin popAsleep
  /\ q = {} /\ ~done
  /\ popAsleep' = popAsleep \cup {c}
  /\ popWoken' = popWoken \ {c}
  /\ UNCHANGED <<q, modeVars, dropped_count, pushWait, clock, fresh, taken, lost>>

\* pop() on an empty finished queue returns std::nullopt.
PopEnd(c) ==
  /\ c \notin popAsleep
  /\ q = {} /\ done
  /\ popWoken' = popWoken \ {c}
  /\ UNCHANGED <<q, modeVars, dropped_count, pushWait, popAsleep, clock, fresh,
                 taken, lost>>

SetBlocking(enable) ==
  /\ blocking' = enable
  /\ IF enable THEN UNCHANGED <<pushAsleep, pushWoken>> ELSE WakeAllPushers
  /\ UNCHANGED <<q, done, dropped_count, parked, popWait, clock, fresh, taken, lost>>

Bug_Finish ==
  /\ done' = TRUE
  /\ popAsleep' = {}
  /\ popWoken' = popWoken \cup popAsleep
  /\ UNCHANGED <<q, blocking, dropped_count, pushWait, clock, fresh, taken, lost>>

Finish ==
  /\ done' = TRUE
  /\ WakeAllPushers
  /\ popAsleep' = {}
  /\ popWoken' = popWoken \cup popAsleep
  /\ UNCHANGED <<q, blocking, dropped_count, parked, clock, fresh, taken, lost>>

\* The C++ standard lets a wait return without a notification.
SpuriousWake ==
  /\ \/ \E p \in pushAsleep : /\ pushAsleep' = pushAsleep \ {p}
                              /\ pushWoken' = pushWoken \cup {p}
                              /\ UNCHANGED popWait
     \/ \E c \in popAsleep : /\ popAsleep' = popAsleep \ {c}
                             /\ popWoken' = popWoken \cup {c}
                             /\ UNCHANGED <<pushAsleep, pushWoken>>
  /\ UNCHANGED <<q, modeVars, dropped_count, parked, clock, fresh, taken, lost>>

Push(p, i) == \/ PushRoom(p, i) \/ PushEvict(p, i) \/ PushRefuse(p, i)
              \/ PushWait(p, i) \/ PushFinished(p, i)
Resume(p) == ResumeRoom(p) \/ ResumeDrop(p) \/ ResumeWait(p)
Pop(c) == PopItem(c) \/ PopWait(c) \/ PopEnd(c)

Next ==
  \/ \E p \in Producers, i \in Items : Push(p, i)
  \/ \E p \in Producers : Resume(p)
  \/ \E c \in Consumers : Pop(c)
  \/ \E enable \in BOOLEAN : SetBlocking(enable)
  \/ Finish
  \/ SpuriousWake

Spec == Init /\ [][Next]_vars

\* Workers call pop() in a loop, and a woken thread eventually runs.  Nothing is
\* assumed of set_blocking(), finish(), spurious wakeups or new pushes.
Fairness == /\ \A p \in Producers : WF_vars(Resume(p))
            /\ \A c \in Consumers : WF_vars(Pop(c))
FairSpec == Spec /\ Fairness

-------------------------------------------------------------------------------
QueuedItems == {e.item : e \in q}
TakenItems == {e.item : e \in taken}
Inside == pushAsleep \cup pushWoken
HeldItems == {parked[p] : p \in Inside}

TypeOK ==
  /\ q \subseteq Entry /\ taken \subseteq Entry
  /\ blocking \in BOOLEAN /\ done \in BOOLEAN
  /\ dropped_count \in Nat /\ clock \in Nat
  /\ parked \in [Producers -> Items \cup {NoItem}]
  /\ pushAsleep \subseteq Producers /\ pushWoken \subseteq Producers
  /\ popAsleep \subseteq Consumers /\ popWoken \subseteq Consumers
  /\ fresh \subseteq Items /\ lost \subseteq Items

\* A producer holds an item exactly while it is inside a suspended push(), and no
\* thread is both asleep and woken (the part of the invariant TypeOK leans on).
ThreadsOK ==
  /\ pushAsleep \cap pushWoken = {} /\ popAsleep \cap popWoken = {}
  /\ \A p \in Producers : parked[p] = NoItem <=> p \notin Inside

\* The queue never holds more than max_capacity items, whichever of the four
\* insertion paths of push() was taken and however resumed and direct pushes race.
CapacityBound == IsFiniteSet(q) /\ Size <= Capacity

\* Every item is in exactly one place, and dropped_count is exactly the number of
\* items lost: no path of push() loses an item without counting it or counts twice.
\* The type invariant is part of it.
Accounting ==
  /\ TypeOK
  /\ fresh \cup HeldItems \cup QueuedItems \cup TakenItems \cup lost = Items
  /\ fresh \cap (HeldItems \cup QueuedItems \cup TakenItems \cup lost) = {}
  /\ HeldItems \cap (QueuedItems \cup TakenItems \cup lost) = {}
  /\ QueuedItems \cap (TakenItems \cup lost) = {}
  /\ TakenItems \cap lost = {}
  /\ dropped_count = Cardinality(lost)

\* Within a priority band pop() is first in, first out, evictions included: what is
\* still queued was inserted after everything of its band already returned.
FifoWithinBand == \A t \in taken, e \in q : Pri(t) = Pri(e) => t.at < e.at

\* notify_one() in push() suffices: while a consumer sleeps, at least as many other
\* consumers are on their way as there are items, so no item waits for nobody.
NoLostPopWakeup == popAsleep # {} => Size <= Cardinality(popWoken)

\* notify_one() in pop() suffices: while a producer sleeps, free slots are covered by
\* producers already woken, even if a direct push() steals the slot meanwhile.
NoLostPushWakeup ==
  pushAsleep # {} => Size + Cardinality(pushWoken) >= Capacity

\* notify_one() suffices on both condition variables.
WakeupsSuffice == NoLostPopWakeup /\ NoLostPushWakeup

\* finish() and set_blocking(false) leave nobody asleep, for good: no later push() or
\* pop() goes back to sleep (this is what makes the pipeline's joins return).
ReleasedForGood ==
  /\ done \/ ~blocking => pushAsleep = {}
  /\ done => popAsleep = {}

\* "Either way the most-suspicious flows survive": what a push() on a full, not
\* blocking queue loses is outranked by nothing that could have been lost instead.
StrongestSurvive ==
  [][\A i \in lost' \ lost :
       ~blocking /\ i \notin HeldItems =>
         \A e \in q' : Priority[i] <= Pri(e)]_vars

\* Under fair workers every item a push() was called with is returned or dropped, and
\* no push() stays suspended: backpressure never becomes a standstill.
EveryPushSettles == \A i \in Items : i \notin fresh ~> i \in TakenItems \cup lost

-------------------------------------------------------------------------------
\* The promise of FlowLedger, item by item.
Place == [i \in Items |->
            IF i \in fresh THEN "fresh"
            ELSE IF i \in lost THEN "dropped"
            ELSE IF \E e \in taken : e.item = i THEN "taken"
            ELSE IF \E e \in q : e.item = i THEN "queued"
            ELSE "held"]

Ledger == INSTANCE FlowLedger WITH status <- Place, lossy <- ~blocking \/ done

\* The queue loses an item only when it is full and is either not blocking or
\* finished; in every other case it accepts the item or holds the caller back.
ImplementsLedger == Ledger!Spec
===============================================================================
