-------------------------- MODULE EventBridgeProofs --------------------------
(* Machine-checked proofs about EventBridge for any queue size, any batches,   *)
(* and any number of events and starts.                                        *)
EXTENDS EventBridge, SequenceTheorems, TLAPS

-------------------------------------------------------------------------------
(* Sequences that are runs of consecutive numbers                              *)

\* q holds the last Len(q) of the numbers up to top.
LatestRun(q, top) ==
  /\ Len(q) <= top
  /\ \A i \in 1 .. Len(q) : q[i] = top - Len(q) + i

\* s is in order, and nothing in it is beyond bound.
OrderedUpTo(s, bound) ==
  /\ \A i \in 1 .. Len(s) : s[i] <= bound
  /\ \A i, j \in 1 .. Len(s) : i < j => s[i] < s[j]

\* What is not beyond a bound is not beyond a later one.
LEMMA LaterBound ==
  ASSUME NEW s \in Seq(Nat), NEW m \in Int, NEW n \in Int, m <= n, OrderedUpTo(s, m)
  PROVE  OrderedUpTo(s, n)
<1>1. ASSUME NEW i \in 1 .. Len(s) PROVE s[i] <= n
  <2>1. s[i] \in Nat /\ s[i] <= m
    BY DEF OrderedUpTo
  <2> QED
    BY <2>1
<1> QED
  BY <1>1 DEF OrderedUpTo

\* A queue that receives the next number, and loses its oldest one if it is full, is a
\* latest run again, and never starts earlier than before.
LEMMA EnqueueKeepsRun ==
  ASSUME NEW q \in Seq(Nat), NEW top \in Nat, Len(q) <= MaxQueue, LatestRun(q, top)
  PROVE  /\ Enqueue(q, top + 1) \in Seq(Nat)
         /\ Len(Enqueue(q, top + 1)) <= MaxQueue
         /\ LatestRun(Enqueue(q, top + 1), top + 1)
         /\ top - Len(q) <= top + 1 - Len(Enqueue(q, top + 1))
<1> DEFINE r == Enqueue(q, top + 1)
<1>0. MaxQueue \in Nat \ {0} /\ Len(q) \in Nat
  BY EventBridgeAssumption
<1>1. CASE Len(q) < MaxQueue
  <2>1. r = Append(q, top + 1)
    BY <1>1 DEF Enqueue
  <2>2. /\ r \in Seq(Nat) /\ Len(r) = Len(q) + 1
        /\ \A i \in 1 .. Len(q) : r[i] = q[i]
        /\ r[Len(q) + 1] = top + 1
    BY <2>1, AppendProperties, SMTT(30)
  <2> HIDE DEF r
  <2>3. ASSUME NEW i \in 1 .. Len(r) PROVE r[i] = top + 1 - Len(r) + i
    <3>1. CASE i = Len(q) + 1
      BY <1>0, <2>2, <3>1
    <3>2. CASE i # Len(q) + 1
      <4>1. i \in 1 .. Len(q)
        BY <1>0, <2>2, <3>2
      <4> QED
        BY <1>0, <2>2, <4>1 DEF LatestRun
    <3> QED
      BY <3>1, <3>2
  <2>4. LatestRun(r, top + 1)
    BY <1>0, <2>2, <2>3 DEF LatestRun
  <2>5. Len(r) <= MaxQueue /\ top - Len(q) <= top + 1 - Len(r)
    BY <1>0, <1>1, <2>2
  <2> QED
    BY <2>2, <2>4, <2>5 DEF r
<1>2. CASE ~(Len(q) < MaxQueue)
  <2>1. Len(q) \in Nat \ {0} /\ Len(q) = MaxQueue /\ q # <<>>
    BY <1>0, <1>2
  <2> DEFINE t == Tail(q)
  <2>2. /\ t \in Seq(Nat) /\ Len(t) = Len(q) - 1
        /\ \A i \in 1 .. Len(t) : t[i] = q[i + 1]
    BY <2>1
  <2>3. r = Append(t, top + 1)
    BY <1>2 DEF Enqueue
  <2> HIDE DEF t
  <2>4. /\ r \in Seq(Nat) /\ Len(r) = Len(q)
        /\ \A i \in 1 .. Len(t) : r[i] = t[i]
        /\ r[Len(q)] = top + 1
    <3>1. Len(t) + 1 = Len(q)
      BY <2>1, <2>2
    <3>2. t \in Seq(Nat) /\ top + 1 \in Nat
      BY <2>2
    <3> HIDE DEF r
    <3>3. /\ r \in Seq(Nat) /\ Len(r) = Len(t) + 1
          /\ \A i \in 1 .. Len(t) : r[i] = t[i]
          /\ r[Len(t) + 1] = top + 1
      BY <2>3, <3>2, AppendProperties
    <3> QED
      BY <3>1, <3>3
  <2> HIDE DEF r
  <2>5. ASSUME NEW i \in 1 .. Len(r) PROVE r[i] = top + 1 - Len(r) + i
    <3>1. CASE i = Len(q)
      BY <2>1, <2>4, <3>1
    <3>2. CASE i # Len(q)
      <4>1. i \in 1 .. Len(t) /\ i + 1 \in 1 .. Len(q)
        BY <2>1, <2>2, <2>4, <3>2, SMTT(30)
      <4>2. q[i + 1] = top - Len(q) + (i + 1)
        BY <4>1 DEF LatestRun
      <4> QED
        BY <2>1, <2>2, <2>4, <4>1, <4>2
    <3> QED
      BY <3>1, <3>2
  <2>6. LatestRun(r, top + 1)
    BY <2>1, <2>4, <2>5, SMTT(30) DEF LatestRun
  <2>7. Len(r) <= MaxQueue /\ top - Len(q) <= top + 1 - Len(r)
    BY <2>1, <2>4
  <2> QED
    BY <2>4, <2>6, <2>7 DEF r
<1> QED
  BY <1>1, <1>2

\* Moving the first k numbers of a latest run to the end of an ordered sequence that
\* stops before it keeps both, and the one still stops before the other.
LEMMA PollKeepsRun ==
  ASSUME NEW q \in Seq(Nat), NEW s \in Seq(Nat), NEW top \in Nat, NEW k \in 0 .. Len(q),
         LatestRun(q, top), OrderedUpTo(s, top - Len(q))
  PROVE  /\ SubSeq(q, k + 1, Len(q)) \in Seq(Nat)
         /\ Len(SubSeq(q, k + 1, Len(q))) = Len(q) - k
         /\ LatestRun(SubSeq(q, k + 1, Len(q)), top)
         /\ s \o SubSeq(q, 1, k) \in Seq(Nat)
         /\ OrderedUpTo(s \o SubSeq(q, 1, k), top - (Len(q) - k))
<1> DEFINE taken == SubSeq(q, 1, k)
           rest == SubSeq(q, k + 1, Len(q))
           both == s \o taken
<1>0. Len(q) \in Nat /\ Len(s) \in Nat /\ k \in Nat /\ k <= Len(q) /\ Len(q) <= top
  BY DEF LatestRun
<1>1. /\ taken \in Seq(Nat) /\ Len(taken) = k
      /\ \A i \in 1 .. k : taken[i] = q[i]
  BY <1>0, SMT
<1>2. /\ rest \in Seq(Nat) /\ Len(rest) = Len(q) - k
      /\ \A i \in 1 .. Len(rest) : rest[i] = q[k + i]
  BY <1>0, SMT
<1>3. /\ both \in Seq(Nat) /\ Len(both) = Len(s) + k
      /\ \A i \in 1 .. Len(s) : both[i] = s[i]
      /\ \A i \in Len(s) + 1 .. Len(s) + k : both[i] = taken[i - Len(s)]
  <2> HIDE DEF taken
  <2>1. /\ both \in Seq(Nat) /\ Len(both) = Len(s) + k
        /\ \A i \in 1 .. Len(s) + k : both[i] = IF i <= Len(s) THEN s[i] ELSE taken[i - Len(s)]
    BY <1>1, ConcatProperties
  <2> QED
    BY <1>0, <2>1, SMTT(30)
<1> HIDE DEF taken, rest, both
<1>4. LatestRun(rest, top)
  <2>1. ASSUME NEW i \in 1 .. Len(rest) PROVE rest[i] = top - Len(rest) + i
    <3>1. k + i \in 1 .. Len(q)
      BY <1>0, <1>2
    <3>2. q[k + i] = top - Len(q) + (k + i)
      BY <3>1 DEF LatestRun
    <3> QED
      BY <1>0, <1>2, <3>2
  <2> QED
    BY <1>0, <1>2, <2>1 DEF LatestRun
<1>5. ASSUME NEW i \in Len(s) + 1 .. Len(s) + k
      PROVE  both[i] = top - Len(q) + (i - Len(s))
  <2>1. i - Len(s) \in 1 .. k /\ i - Len(s) \in 1 .. Len(q)
    BY <1>0
  <2>2. q[i - Len(s)] = top - Len(q) + (i - Len(s))
    BY <2>1 DEF LatestRun
  <2> QED
    BY <1>1, <1>3, <2>1, <2>2
<1>6. ASSUME NEW i \in 1 .. Len(s) PROVE both[i] \in Nat /\ both[i] <= top - Len(q)
  BY <1>0, <1>3, SMTT(30) DEF OrderedUpTo
<1>7. ASSUME NEW i \in 1 .. Len(both) PROVE both[i] <= top - Len(rest)
  <2>1. CASE i \in 1 .. Len(s)
    BY <1>0, <1>2, <1>6, <2>1, SMTT(30)
  <2>2. CASE i \in Len(s) + 1 .. Len(s) + k
    BY <1>0, <1>2, <1>5, <2>2
  <2> QED
    BY <1>0, <1>3, <2>1, <2>2
<1>8. ASSUME NEW i \in 1 .. Len(both), NEW j \in 1 .. Len(both), i < j
      PROVE  both[i] < both[j]
  <2>1. CASE j \in 1 .. Len(s)
    <3>1. i \in 1 .. Len(s)
      BY <1>0, <1>3, <1>8, <2>1
    <3> QED
      BY <1>3, <1>8, <2>1, <3>1 DEF OrderedUpTo
  <2>2. CASE j \in Len(s) + 1 .. Len(s) + k /\ i \in 1 .. Len(s)
    <3>1. both[j] = top - Len(q) + (j - Len(s)) /\ j - Len(s) >= 1
      BY <1>0, <1>5, <2>2
    <3>2. both[i] \in Nat /\ both[i] <= top - Len(q) /\ top - Len(q) \in Int
      BY <1>0, <1>6, <2>2
    <3>3. j - Len(s) \in Int
      BY <1>0
    <3> HIDE DEF both
    <3> QED
      BY <3>1, <3>2, <3>3
  <2>3. CASE j \in Len(s) + 1 .. Len(s) + k /\ i \in Len(s) + 1 .. Len(s) + k
    BY <1>0, <1>5, <1>8, <2>3
  <2> QED
    BY <1>0, <1>3, <1>8, <2>1, <2>2, <2>3, SMTT(30)
<1>9. OrderedUpTo(both, top - Len(rest))
  BY <1>7, <1>8 DEF OrderedUpTo
<1> QED
  BY <1>2, <1>3, <1>4, <1>9 DEF taken, rest, both

-------------------------------------------------------------------------------
(* Types                                                                       *)

CallNames == {"state", "cancel"} \cup Channels

\* What a tick and a state poll put in the list of calls, and which of it is a cancel.
LEMMA CallFacts ==
  /\ <<"state">> \o Polls \in Seq(CallNames)
  /\ Polls \in Seq(CallNames)
  /\ Polls \o <<"cancel">> \o Polls \in Seq(CallNames)
  /\ \A i \in 1 .. Len(Polls) : Polls[i] # "cancel"
  /\ \A i \in 1 .. Len(<<"state">> \o Polls) : (<<"state">> \o Polls)[i] # "cancel"
<1>1. /\ Polls \in Seq(CallNames) /\ Len(Polls) = 3
      /\ \A i \in 1 .. Len(Polls) : Polls[i] # "cancel"
  BY DEF Polls, CallNames, Channels
<1>2. <<"state">> \in Seq(CallNames) /\ <<"cancel">> \in Seq(CallNames)
  BY DEF CallNames
<1>3. /\ <<"state">> \o Polls \in Seq(CallNames)
      /\ Polls \o <<"cancel">> \in Seq(CallNames)
  BY <1>1, <1>2, ConcatProperties
<1>4. Polls \o <<"cancel">> \o Polls \in Seq(CallNames)
  BY <1>1, <1>3, ConcatProperties
<1>5. \A i \in 1 .. Len(<<"state">> \o Polls) : (<<"state">> \o Polls)[i] # "cancel"
  <2>1. /\ Len(<<"state">>) = 1 /\ <<"state">>[1] = "state"
        /\ Len(<<"state">> \o Polls) = 4
        /\ \A i \in 1 .. 4 : (<<"state">> \o Polls)[i] =
             IF i <= 1 THEN <<"state">>[i] ELSE Polls[i - 1]
    <3>1. Len(<<"state">>) = 1 /\ <<"state">>[1] = "state"
      OBVIOUS
    <3> DEFINE one == <<"state">>
    <3>2. one \in Seq(CallNames) /\ Len(one) = 1
      BY <1>2
    <3> HIDE DEF one
    <3>3. /\ Len(one \o Polls) = 4
          /\ \A i \in 1 .. 4 : (one \o Polls)[i] =
               IF i <= 1 THEN one[i] ELSE Polls[i - 1]
      <4>1. /\ Len(one \o Polls) = Len(one) + Len(Polls)
            /\ \A i \in 1 .. Len(one) + Len(Polls) : (one \o Polls)[i] =
                 IF i <= Len(one) THEN one[i] ELSE Polls[i - Len(one)]
        BY <1>1, <3>2, ConcatProperties, Zenon
      <4> QED
        BY <1>1, <3>2, <4>1
    <3> QED
      BY <3>1, <3>3 DEF one
  <2>2. ASSUME NEW i \in 1 .. 4 PROVE (<<"state">> \o Polls)[i] # "cancel"
    <3>1. CASE i = 1
      BY <2>1, <3>1
    <3>2. CASE i # 1
      <4>1. i - 1 \in 1 .. Len(Polls) /\ ~(i <= 1)
        BY <1>1, <3>2
      <4> QED
        BY <1>1, <2>1, <4>1
    <3> QED
      BY <3>1, <3>2
  <2> QED
    BY <2>1, <2>2
<1> QED
  BY <1>1, <1>3, <1>4, <1>5

\* A poll takes no more than there is.
LEMMA TakenBound ==
  ASSUME TypeOK, NEW ch \in Channels
  PROVE  Taken(ch) \in 0 .. Len(pending[ch])
<1>1. Len(pending[ch]) \in Nat /\ Batch[ch] \in Nat \ {0}
  BY EventBridgeAssumption DEF TypeOK
<1> QED
  BY <1>1 DEF Taken

\* The queues and what was delivered, as far as the steps of the two sides go.
Flowing(ch) ==
  /\ LatestRun(pending[ch], raised[ch])
  /\ OrderedUpTo(history[ch], raised[ch] - Len(pending[ch]))
  /\ handle = "freed" => Len(pending[ch]) = 0

FlowInv == \A ch \in Channels : Flowing(ch)

\* A cancellation under way, like a timer that is not set, goes with a pipeline at its
\* end that the dashboard shows.
AtEnd == state \in Terminal /\ currentState = state
TimerInv ==
  /\ handle = "alive" /\ ~timer => AtEnd
  /\ (\E i \in 1 .. Len(calls) : calls[i] = "cancel") => AtEnd

Inv == TypeOK /\ FlowInv /\ TimerInv

LEMMA InitInv == Init => Inv
<1> SUFFICES ASSUME Init PROVE Inv
  OBVIOUS
<1>1. TypeOK
  <2>1. <<>> \in Seq(Nat) /\ <<>> \in Seq({"state", "cancel"} \cup Channels) /\ Len(<<>>) = 0
    OBVIOUS
  <2>2. /\ raised \in [Channels -> Nat]
        /\ pending \in [Channels -> Seq(Nat)] /\ history \in [Channels -> Seq(Nat)]
    BY <2>1 DEF Init
  <2>3. \A ch \in Channels : Len(pending[ch]) <= MaxQueue
    BY <2>1, EventBridgeAssumption DEF Init
  <2>4. starts \in 0 .. MaxStarts
    BY EventBridgeAssumption DEF Init
  <2> QED
    BY <2>1, <2>2, <2>3, <2>4 DEF Init, TypeOK, Terminal
<1>2. FlowInv
  BY DEF Init, FlowInv, Flowing, LatestRun, OrderedUpTo
<1>3. TimerInv
  BY DEF Init, TimerInv, AtEnd, Terminal
<1> QED
  BY <1>1, <1>2, <1>3 DEF Inv

\* The pipeline's threads only add to the queues, and rest once they are at their end.
LEMMA EmitKeepsInv == \A ch \in Channels : Inv /\ Emit(ch) => Inv'
<1> SUFFICES ASSUME NEW ch \in Channels, Inv, Emit(ch) PROVE Inv'
  OBVIOUS
<1> DEFINE q == pending[ch]
           r == Enqueue(q, raised[ch] + 1)
<1>1. /\ q \in Seq(Nat) /\ raised[ch] \in Nat /\ Len(q) <= MaxQueue
      /\ Len(q) \in Nat /\ history[ch] \in Seq(Nat)
      /\ LatestRun(q, raised[ch])
  BY DEF Inv, TypeOK, FlowInv, Flowing
<1>2. /\ raised' = [raised EXCEPT ![ch] = @ + 1]
      /\ UNCHANGED <<state, requested, handle, timer, calls, currentState, history, starts>>
  BY DEF Emit, controller, service
<1>3. TimerInv'
  BY <1>2 DEF Inv, TimerInv, AtEnd
<1>4. raised' \in [Channels -> Nat] /\ raised'[ch] = raised[ch] + 1
  BY <1>1, <1>2 DEF Inv, TypeOK
<1>5. CASE handle = "freed"
  <2>1. torn' = TRUE /\ pending' = pending
    BY <1>5 DEF Emit
  <2>2. TypeOK'
    BY <1>2, <1>4, <2>1 DEF Inv, TypeOK
  <2>3. ASSUME NEW d \in Channels PROVE Flowing(d)'
    <3>1. CASE d = ch
      <4>1. Len(q) = 0
        BY <1>5 DEF Inv, FlowInv, Flowing
      <4>2. /\ OrderedUpTo(history[ch], raised[ch] - Len(q))
            /\ raised[ch] - Len(q) \in Int /\ raised[ch] + 1 \in Int
            /\ raised[ch] - Len(q) <= raised[ch] + 1
        BY <1>1 DEF Inv, FlowInv, Flowing
      <4>3. OrderedUpTo(history[ch], raised[ch] + 1)
        BY <1>1, <4>2, LaterBound, Zenon
      <4>4. LatestRun(q, raised[ch] + 1)
        BY <1>1, <4>1 DEF LatestRun
      <4> QED
        BY <1>1, <1>2, <1>4, <2>1, <3>1, <4>1, <4>3, <4>4 DEF Flowing
    <3>2. CASE d # ch
      BY <1>2, <2>1, <3>2 DEF Inv, TypeOK, FlowInv, Flowing
    <3> QED
      BY <3>1, <3>2
  <2> QED
    BY <1>3, <2>2, <2>3 DEF Inv, FlowInv
<1>6. CASE handle # "freed"
  <2>1. torn' = torn /\ pending' = [pending EXCEPT ![ch] = r]
    BY <1>6 DEF Emit
  <2>2. /\ r \in Seq(Nat) /\ Len(r) <= MaxQueue /\ Len(r) \in Nat
        /\ LatestRun(r, raised[ch] + 1)
        /\ raised[ch] - Len(q) <= raised[ch] + 1 - Len(r)
    <3>1. /\ r \in Seq(Nat) /\ Len(r) <= MaxQueue
          /\ LatestRun(r, raised[ch] + 1)
          /\ raised[ch] - Len(q) <= raised[ch] + 1 - Len(r)
      BY <1>1, EnqueueKeepsRun, Zenon
    <3> QED
      BY <3>1
  <2> HIDE DEF r
  <2>3. pending' \in [Channels -> Seq(Nat)] /\ pending'[ch] = r
    BY <2>1, <2>2 DEF Inv, TypeOK
  <2>4. TypeOK'
    BY <1>2, <1>4, <2>1, <2>2, <2>3 DEF Inv, TypeOK
  <2>5. ASSUME NEW d \in Channels PROVE Flowing(d)'
    <3>1. CASE d = ch
      <4>1. /\ OrderedUpTo(history[ch], raised[ch] - Len(q))
            /\ raised[ch] - Len(q) \in Int /\ raised[ch] + 1 - Len(r) \in Int
        BY <1>1, <2>2 DEF Inv, FlowInv, Flowing
      <4>2. OrderedUpTo(history[ch], raised[ch] + 1 - Len(r))
        BY <1>1, <2>2, <4>1, LaterBound, Zenon
      <4>3. /\ pending'[d] = r /\ raised'[d] = raised[ch] + 1
            /\ history'[d] = history[ch] /\ handle' # "freed"
        BY <1>2, <1>4, <1>6, <2>3, <3>1
      <4>4. LatestRun(pending'[d], raised'[d])
        BY <2>2, <4>3, Zenon
      <4>5. OrderedUpTo(history'[d], raised'[d] - Len(pending'[d]))
        <5>1. raised[ch] \in Nat /\ Len(r) \in Nat
          BY <1>1, <2>2
        <5>2. raised'[d] - Len(pending'[d]) = raised[ch] + 1 - Len(r)
          BY <4>3, <5>1
        <5>3. history'[d] = history[ch]
          BY <4>3
        <5> QED
          BY <4>2, <5>2, <5>3, Zenon
      <4> QED
        BY <4>3, <4>4, <4>5 DEF Flowing
    <3>2. CASE d # ch
      BY <1>2, <2>1, <3>2 DEF Inv, TypeOK, FlowInv, Flowing
    <3> QED
      BY <3>1, <3>2
  <2> QED
    BY <1>3, <2>4, <2>5 DEF Inv, FlowInv
<1> QED
  BY <1>5, <1>6

LEMMA ControllerKeepsInv == Inv /\ (Running \/ Failed \/ Ending \/ Stopped) => Inv'
<1> SUFFICES ASSUME Inv, Running \/ Failed \/ Ending \/ Stopped PROVE Inv'
  OBVIOUS
<1>1. PICK from \in {"Starting", "Running", "Stopping"},
           to \in Terminal \cup {"Running", "Stopping"} : Become(from, to)
  BY DEF Running, Failed, Ending, Stopped, Terminal
<1>2. /\ state = from /\ state' = to /\ state \notin Terminal
      /\ UNCHANGED <<requested, handle, raised, pending, torn, timer, calls,
                     currentState, history, starts>>
  BY <1>1 DEF Become, queues, service, Terminal
<1>3. TypeOK'
  BY <1>2 DEF Inv, TypeOK
<1>4. FlowInv'
  BY <1>2 DEF Inv, FlowInv, Flowing
<1>5. TimerInv'
  BY <1>2 DEF Inv, TimerInv, AtEnd
<1> QED
  BY <1>3, <1>4, <1>5 DEF Inv

\* A start sets the timer; stop and dispose leave the queues alone.
LEMMA ButtonsKeepInv == Inv /\ Buttons => Inv'
<1> SUFFICES ASSUME Inv, Buttons PROVE Inv'
  OBVIOUS
<1> USE DEF controller, queues, service
<1>1. CASE Start
  <2>1. /\ UNCHANGED <<handle, raised, pending, torn, calls, history>>
        /\ timer' = TRUE /\ calls = <<>> /\ starts' \in 0 .. MaxStarts
        /\ state' = "Starting" /\ currentState' = "Starting" /\ requested' = FALSE
    BY <1>1, EventBridgeAssumption DEF Start, Idle, Inv, TypeOK
  <2>2. TypeOK'
    BY <2>1 DEF Inv, TypeOK
  <2>3. FlowInv'
    BY <2>1 DEF Inv, FlowInv, Flowing
  <2>4. TimerInv'
    BY <2>1 DEF TimerInv
  <2> QED
    BY <2>2, <2>3, <2>4 DEF Inv
<1>2. CASE Stop
  BY <1>2 DEF Stop, Inv, TypeOK, FlowInv, Flowing, TimerInv, AtEnd
<1>3. CASE Dispose
  <2>1. /\ UNCHANGED <<state, raised, pending, torn, calls, currentState, history, starts>>
        /\ timer' = FALSE /\ requested' = TRUE /\ handle' = "stopping"
    BY <1>3 DEF Dispose
  <2>2. TypeOK'
    BY <2>1 DEF Inv, TypeOK
  <2>3. FlowInv'
    BY <2>1 DEF Inv, FlowInv, Flowing
  <2>4. TimerInv'
    BY <2>1 DEF Inv, TimerInv, AtEnd
  <2> QED
    BY <2>2, <2>3, <2>4 DEF Inv
<1> QED
  BY <1>1, <1>2, <1>3 DEF Buttons

LEMMA DestroyKeepsInv == Inv /\ Destroy => Inv'
<1> SUFFICES ASSUME Inv, Destroy PROVE Inv'
  OBVIOUS
<1> USE DEF controller, queues, service
<1>1. CASE FreeQueues
  <2>1. /\ UNCHANGED <<state, requested, raised, torn, timer, calls, currentState,
                       history, starts>>
        /\ handle' = "freed" /\ pending' = [ch \in Channels |-> <<>>]
    BY <1>1 DEF FreeQueues
  <2>2. <<>> \in Seq(Nat) /\ Len(<<>>) = 0
    OBVIOUS
  <2>3. pending' \in [Channels -> Seq(Nat)]
    BY <2>1, <2>2
  <2>4. \A ch \in Channels : Len(pending'[ch]) = 0
    BY <2>1, <2>2
  <2>5. TypeOK'
    BY <2>1, <2>3, <2>4, EventBridgeAssumption DEF Inv, TypeOK
  <2>6. ASSUME NEW ch \in Channels PROVE Flowing(ch)'
    <3>1. /\ raised[ch] \in Nat /\ Len(pending[ch]) \in Nat /\ history[ch] \in Seq(Nat)
          /\ OrderedUpTo(history[ch], raised[ch] - Len(pending[ch]))
      BY DEF Inv, TypeOK, FlowInv, Flowing
    <3>2. OrderedUpTo(history[ch], raised[ch] - 0)
      BY <3>1, SMTT(30) DEF OrderedUpTo
    <3>3. LatestRun(pending'[ch], raised'[ch])
      BY <2>1, <2>4, <3>1 DEF LatestRun
    <3>4. raised'[ch] - Len(pending'[ch]) = raised[ch] - 0
      BY <2>1, <2>4, <3>1
    <3>5. OrderedUpTo(history'[ch], raised'[ch] - Len(pending'[ch]))
      <4>1. history'[ch] = history[ch]
        BY <2>1
      <4> QED
        BY <3>2, <3>4, <4>1, Zenon
    <3> QED
      BY <2>4, <3>3, <3>5 DEF Flowing
  <2>7. TimerInv'
    BY <2>1 DEF Inv, TimerInv, AtEnd
  <2> QED
    BY <2>5, <2>6, <2>7 DEF Inv, FlowInv
<1>2. CASE JoinPipeline
  BY <1>2 DEF JoinPipeline, Inv, TypeOK, FlowInv, Flowing, TimerInv, AtEnd
<1> QED
  BY <1>1, <1>2 DEF Destroy

\* A poll moves the oldest of a queue to the end of what was delivered.
LEMMA PollKeepsInv == \A ch \in Channels : Inv /\ Poll(ch) => Inv'
<1> SUFFICES ASSUME NEW ch \in Channels, Inv, Poll(ch) PROVE Inv'
  OBVIOUS
<1> DEFINE q == pending[ch]
           s == history[ch]
           k == Taken(ch)
<1>1. /\ q \in Seq(Nat) /\ s \in Seq(Nat) /\ raised[ch] \in Nat
      /\ Len(q) \in Nat /\ Len(q) <= MaxQueue
      /\ LatestRun(q, raised[ch]) /\ OrderedUpTo(s, raised[ch] - Len(q))
  BY DEF Inv, TypeOK, FlowInv, Flowing
<1>2. k \in 0 .. Len(q)
  BY TakenBound DEF Inv
<1>3. /\ UNCHANGED <<state, requested, handle, raised, torn, timer, currentState, starts>>
      /\ calls # <<>> /\ calls' = Tail(calls)
      /\ history' = [history EXCEPT ![ch] = s \o SubSeq(q, 1, k)]
      /\ pending' = [pending EXCEPT ![ch] = SubSeq(q, k + 1, Len(q))]
  BY DEF Poll, controller
<1> HIDE DEF k
<1> DEFINE rest == SubSeq(q, k + 1, Len(q))
           seen == s \o SubSeq(q, 1, k)
<1>4. /\ rest \in Seq(Nat) /\ Len(rest) = Len(q) - k /\ LatestRun(rest, raised[ch])
      /\ seen \in Seq(Nat) /\ OrderedUpTo(seen, raised[ch] - (Len(q) - k))
  <2> DEFINE top == raised[ch]
  <2>1. /\ q \in Seq(Nat) /\ s \in Seq(Nat) /\ top \in Nat /\ k \in 0 .. Len(q)
        /\ LatestRun(q, top) /\ OrderedUpTo(s, top - Len(q))
    BY <1>1, <1>2
  <2> HIDE DEF q, s, top
  <2>2. /\ rest \in Seq(Nat) /\ Len(rest) = Len(q) - k /\ LatestRun(rest, top)
        /\ seen \in Seq(Nat) /\ OrderedUpTo(seen, top - (Len(q) - k))
    BY <2>1, PollKeepsRun, SMTT(30)
  <2> QED
    BY <2>2 DEF q, s, top
<1>5. history' = [history EXCEPT ![ch] = seen] /\ pending' = [pending EXCEPT ![ch] = rest]
  BY <1>3
<1> HIDE DEF rest, seen
<1>6. /\ pending' \in [Channels -> Seq(Nat)] /\ pending'[ch] = rest
      /\ history' \in [Channels -> Seq(Nat)] /\ history'[ch] = seen
  BY <1>4, <1>5 DEF Inv, TypeOK
<1>7. /\ calls' \in Seq({"state", "cancel"} \cup Channels)
      /\ \A i \in 1 .. Len(calls') : i + 1 \in 1 .. Len(calls) /\ calls'[i] = calls[i + 1]
  BY <1>3, HeadTailProperties DEF Inv, TypeOK
<1>8. TypeOK'
  <2>1. \A d \in Channels : Len(pending'[d]) <= MaxQueue
    <3>1. Len(rest) <= MaxQueue
      BY <1>1, <1>2, <1>4, EventBridgeAssumption
    <3> QED
      BY <1>5, <1>6, <3>1 DEF Inv, TypeOK
  <2> QED
    BY <1>3, <1>6, <1>7, <2>1 DEF Inv, TypeOK
<1>9. ASSUME NEW d \in Channels PROVE Flowing(d)'
  <2>1. CASE d = ch
    <3>1. /\ pending'[d] = rest /\ history'[d] = seen /\ raised'[d] = raised[ch]
          /\ handle' = handle
      BY <1>3, <1>6, <2>1
    <3>2. raised'[d] - Len(pending'[d]) = raised[ch] - (Len(q) - k)
      BY <1>1, <1>2, <1>4, <3>1
    <3>3. LatestRun(pending'[d], raised'[d])
      BY <1>4, <3>1, Zenon
    <3>4. OrderedUpTo(history'[d], raised'[d] - Len(pending'[d]))
      BY <1>4, <3>1, <3>2, Zenon
    <3>5. handle' = "freed" => Len(pending'[d]) = 0
      <4>1. handle = "freed" => Len(q) = 0
        BY DEF Inv, FlowInv, Flowing
      <4> QED
        BY <1>2, <1>4, <3>1, <4>1
    <3> QED
      BY <3>3, <3>4, <3>5 DEF Flowing
  <2>2. CASE d # ch
    BY <1>3, <1>5, <2>2 DEF Inv, TypeOK, FlowInv, Flowing
  <2> QED
    BY <2>1, <2>2
<1>10. TimerInv'
  BY <1>3, <1>7 DEF Inv, TimerInv, AtEnd
<1> QED
  BY <1>8, <1>9, <1>10 DEF Inv, FlowInv

\* The rest of the callback: only a state poll that sees the end plans a cancellation.
LEMMA CallbackKeepsInv == Inv /\ (Tick \/ PollState \/ Cancel) => Inv'
<1> SUFFICES ASSUME Inv, Tick \/ PollState \/ Cancel PROVE Inv'
  OBVIOUS
<1> USE DEF controller, queues
<1>1. CASE Tick
  <2>1. /\ UNCHANGED <<state, requested, handle, raised, pending, torn, timer,
                       currentState, history, starts>>
        /\ calls' = <<"state">> \o Polls
    BY <1>1 DEF Tick
  <2>2. TypeOK'
    BY <2>1, CallFacts DEF Inv, TypeOK, CallNames
  <2>3. TimerInv'
    BY <2>1, CallFacts DEF Inv, TimerInv, AtEnd
  <2> QED
    BY <2>1, <2>2, <2>3 DEF Inv, FlowInv, Flowing
<1>2. CASE PollState
  <2>1. /\ UNCHANGED <<state, requested, handle, raised, pending, torn, timer, history, starts>>
        /\ currentState' = state
        /\ calls' = IF Over(state) THEN Polls \o <<"cancel">> \o Polls ELSE Polls
    BY <1>2 DEF PollState
  <2>2. calls' \in Seq(CallNames)
    BY <2>1, CallFacts
  <2>3. TypeOK'
    BY <2>1, <2>2 DEF Inv, TypeOK, CallNames
  <2>4. TimerInv'
    <3>1. CASE Over(state)
      BY <2>1, <3>1 DEF TimerInv, AtEnd, Over
    <3>2. CASE ~Over(state)
      <4>1. \A i \in 1 .. Len(calls') : calls'[i] # "cancel"
        BY <2>1, <3>2, CallFacts
      <4> QED
        BY <2>1, <4>1 DEF Inv, TimerInv, AtEnd
    <3> QED
      BY <3>1, <3>2
  <2> QED
    BY <2>1, <2>3, <2>4 DEF Inv, FlowInv, Flowing
<1>3. CASE Cancel
  <2>1. /\ UNCHANGED <<state, requested, handle, raised, pending, torn, currentState,
                       history, starts>>
        /\ calls # <<>> /\ Head(calls) = "cancel" /\ timer' = FALSE
        /\ calls' = Tail(calls)
    BY <1>3 DEF Cancel
  <2>2. calls \in Seq(CallNames) /\ calls[1] = "cancel" /\ 1 \in 1 .. Len(calls)
    BY <2>1 DEF Inv, TypeOK, CallNames
  <2>3. AtEnd
    BY <2>2 DEF Inv, TimerInv
  <2>4. calls' \in Seq(CallNames)
    BY <2>1, <2>2, HeadTailProperties
  <2>5. TypeOK'
    BY <2>1, <2>4 DEF Inv, TypeOK, CallNames
  <2>6. TimerInv'
    BY <2>1, <2>3 DEF TimerInv, AtEnd
  <2> QED
    BY <2>1, <2>5, <2>6 DEF Inv, FlowInv, Flowing
<1> QED
  BY <1>1, <1>2, <1>3

LEMMA NextKeepsInv == Inv /\ [Next]_vars => Inv'
<1> SUFFICES ASSUME Inv, [Next]_vars PROVE Inv'
  OBVIOUS
<1>1. CASE Pipeline
  BY <1>1, EmitKeepsInv, ControllerKeepsInv DEF Pipeline
<1>2. CASE Buttons
  BY <1>2, ButtonsKeepInv
<1>3. CASE Destroy
  BY <1>3, DestroyKeepsInv
<1>4. CASE Callback
  BY <1>4, CallbackKeepsInv, PollKeepsInv DEF Callback
<1>5. CASE UNCHANGED vars
  BY <1>5 DEF vars, controller, queues, service, Inv, TypeOK, FlowInv, Flowing, TimerInv, AtEnd
<1> QED
  BY <1>1, <1>2, <1>3, <1>4, <1>5 DEF Next

-------------------------------------------------------------------------------
(* What follows                                                                *)

\* A queue at its limit sheds its oldest events: whatever the sizes of queue and batch,
\* what waits is the latest run of events raised, without a gap.
THEOREM LatestEventsWait == Spec => []PendingIsLatest
<1>1. Inv => PendingIsLatest
  <2> SUFFICES ASSUME Inv, NEW ch \in Channels
               PROVE  pending[ch] = [i \in 1 .. Len(pending[ch]) |->
                                       raised[ch] - Len(pending[ch]) + i]
    BY DEF PendingIsLatest, Inv
  <2> DEFINE q == pending[ch]
  <2>1. q \in Seq(Nat) /\ LatestRun(q, raised[ch])
    BY DEF Inv, TypeOK, FlowInv, Flowing
  <2> HIDE DEF q
  <2>2. q = [i \in 1 .. Len(q) |-> q[i]]
    BY <2>1
  <2>3. q = [i \in 1 .. Len(q) |-> raised[ch] - Len(q) + i]
    BY <2>1, <2>2 DEF LatestRun
  <2> QED
    BY <2>3 DEF q
<1> QED
  BY <1>1, InitInv, NextKeepsInv, PTL DEF Spec

\* Across polls, overflows and restarts the dashboard gets each event at most once and in
\* the order raised, and nothing that waits is older than what it has.
THEOREM EventsArriveInOrder == Spec => []DeliveredOnceInOrder
<1>1. Inv => DeliveredOnceInOrder
  <2> SUFFICES ASSUME Inv, NEW ch \in Channels,
                      NEW i \in 1 .. Len(history[ch] \o pending[ch]),
                      NEW j \in 1 .. Len(history[ch] \o pending[ch]), i < j
               PROVE  (history[ch] \o pending[ch])[i] < (history[ch] \o pending[ch])[j]
    BY DEF DeliveredOnceInOrder
  <2> DEFINE q == pending[ch]
             s == history[ch]
             top == raised[ch]
  <2>1. /\ q \in Seq(Nat) /\ s \in Seq(Nat) /\ top \in Nat /\ Len(q) \in Nat
        /\ Len(s) \in Nat
        /\ LatestRun(q, top) /\ OrderedUpTo(s, top - Len(q))
    BY DEF Inv, TypeOK, FlowInv, Flowing
  <2> HIDE DEF q, s, top
  <2>2. OrderedUpTo(s \o SubSeq(q, 1, Len(q)), top - (Len(q) - Len(q)))
    <3>1. Len(q) \in 0 .. Len(q)
      BY <2>1
    <3> QED
      BY <2>1, <3>1, PollKeepsRun, Zenon
  <2>3. SubSeq(q, 1, Len(q)) = q
    BY <2>1
  <2>4. OrderedUpTo(s \o q, top - (Len(q) - Len(q)))
    BY <2>2, <2>3, Zenon
  <2>5. \A a, b \in 1 .. Len(s \o q) : a < b => (s \o q)[a] < (s \o q)[b]
    BY <2>4, Zenon DEF OrderedUpTo
  <2> QED
    BY <2>5 DEF q, s
<1> QED
  BY <1>1, InitInv, NextKeepsInv, PTL DEF Spec

\* While the pipeline is not at its end the timer is set, so that the dashboard cannot
\* miss the end, and when it is not set the dashboard shows the pipeline's state.
THEOREM EndIsWatched == Spec => []TimerWatches
<1>1. Inv => TimerWatches
  BY DEF Inv, TimerInv, AtEnd, TimerWatches
<1> QED
  BY <1>1, InitInv, NextKeepsInv, PTL DEF Spec
===============================================================================
