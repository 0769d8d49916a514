---------------------------- MODULE MonitorProofs ----------------------------
(***************************************************************************)
(* Proofs about the two monitors of util: BlockingQueue, for any threads,  *)
(* items and bound, and CountDownLatch, for any threads, count and number  *)
(* of calls.                                                               *)
(***************************************************************************)
EXTENDS BlockingQueue, FiniteSetTheorems, TLAPS

CONSTANTS Count, MaxDowns      \* of the latch

VARIABLES count, downs, where  \* of the latch; where is its at

L == INSTANCE CountDownLatch WITH at <- where

-----------------------------------------------------------------------------
(* The queue.                                                              *)

\* The inductive invariant needs nothing more: NoLostWakeup counts the items
\* and the woken threads, so it is preserved step by step.
IInv == TypeOK /\ NoLostWakeup

\* The woken threads can be counted.
LEMMA AwakeFinite == IsFiniteSet(Awake) /\ Cardinality(Awake) \in Nat
<1>1. IsFiniteSet(Awake)
  BY ThreadsAssumption, FS_Subset DEF Awake
<1>. QED
  BY <1>1, FS_CardinalityType

\* A wakeup adds one to the woken threads.
LEMMA OneWakes ==
  ASSUME TypeOK, NEW t \in Threads, at[t] # "awake", at' = [at EXCEPT ![t] = "awake"]
  PROVE  /\ Cardinality(Awake') = Cardinality(Awake) + 1
         /\ Asleep' = Asleep \ {t}
<1>1. Awake' = Awake \cup {t} /\ t \notin Awake
  BY DEF Awake, TypeOK
<1>2. Asleep' = Asleep \ {t}
  BY DEF Asleep, TypeOK
<1>. QED
  BY <1>1, <1>2, AwakeFinite, FS_AddElement

\* A woken thread that goes elsewhere takes one away.
LEMMA OneSettles ==
  ASSUME TypeOK, NEW t \in Threads, NEW place \in Places \ {"awake"},
         at' = [at EXCEPT ![t] = place]
  PROVE  /\ Cardinality(Awake') \in Nat
         /\ at[t] = "awake" => Cardinality(Awake') = Cardinality(Awake) - 1
         /\ at[t] # "awake" => Cardinality(Awake') = Cardinality(Awake)
         /\ place # "asleep" => Asleep' \subseteq Asleep
<1>1. Awake' = Awake \ {t}
  BY DEF Awake, TypeOK
<1>2. place # "asleep" => Asleep' \subseteq Asleep
  BY DEF Asleep, TypeOK
<1>3. CASE at[t] = "awake"
  <2>1. t \in Awake
    BY <1>3 DEF Awake
  <2>2. IsFiniteSet(Awake \ {t}) /\ Cardinality(Awake \ {t}) = Cardinality(Awake) - 1
    BY <2>1, AwakeFinite, FS_RemoveElement
  <2>3. Cardinality(Awake \ {t}) \in Nat
    BY <2>2, FS_CardinalityType
  <2>. QED
    BY <1>1, <1>2, <1>3, <2>2, <2>3
<1>4. CASE at[t] # "awake"
  <2>1. Awake' = Awake
    BY <1>1, <1>4 DEF Awake
  <2>. QED
    BY <1>2, <1>4, <2>1, AwakeFinite
<1>. QED
  BY <1>3, <1>4

LEMMA InitInv == Init => IInv
  BY LengthAssumption DEF Init, IInv, TypeOK, Places, NoLostWakeup, Asleep

LEMMA NextInv == IInv /\ [Next]_vars => IInv'
<1> SUFFICES ASSUME IInv, [Next]_vars PROVE IInv'
  OBVIOUS
<1>0. TypeOK /\ NoLostWakeup
  BY DEF IInv
<1>. USE LengthAssumption
<1>1. ASSUME NEW x \in Items, Push(x) PROVE IInv'
  <2>1. queue' \in Seq(Items) /\ Len(queue') = Len(queue) + 1 /\ Len(queue') <= MaxLength
    BY <1>0, <1>1 DEF Push, TypeOK
  <2>2. CASE Asleep = {}
    <3>1. at' = at
      BY <1>1, <2>2 DEF Push, NotifyOne
    <3>. QED
      BY <1>0, <1>1, <2>1, <2>2, <3>1 DEF Push, IInv, TypeOK, NoLostWakeup, Asleep
  <2>3. CASE Asleep # {}
    <3>1. PICK t \in Asleep : at' = [at EXCEPT ![t] = "awake"]
      BY <1>1, <2>3 DEF Push, NotifyOne
    <3>2. t \in Threads /\ at[t] # "awake"
      BY DEF Asleep
    <3>3. Cardinality(Awake') = Cardinality(Awake) + 1
      BY <1>0, <3>1, <3>2, OneWakes
    <3>4. TypeOK'
      BY <1>0, <1>1, <2>1, <3>1, <3>2 DEF Push, TypeOK, Places
    <3>5. Len(queue') <= Cardinality(Awake')
      BY <1>0, <2>1, <2>3, <3>3, AwakeFinite DEF NoLostWakeup, TypeOK
    <3>. QED
      BY <3>4, <3>5 DEF IInv, NoLostWakeup
  <2>. QED
    BY <2>2, <2>3
<1>2. ASSUME NEW t \in Threads, Call(t) PROVE IInv'
  <2>1. TypeOK'
    BY <1>0, <1>2 DEF Call, TypeOK, Places
  <2>2. Cardinality(Awake') = Cardinality(Awake) /\ Asleep' \subseteq Asleep
    <3>1. "entering" \in Places \ {"awake"}
      BY DEF Places
    <3>2. at' = [at EXCEPT ![t] = "entering"] /\ at[t] # "awake"
      BY <1>2 DEF Call
    <3>. QED
      BY <1>0, <3>1, <3>2, OneSettles
  <2>. QED
    BY <1>0, <1>2, <2>1, <2>2 DEF Call, IInv, NoLostWakeup
<1>3. ASSUME NEW t \in Threads, Pop(t), queue # << >> PROVE IInv'
  <2>1. queue' = Tail(queue) /\ at' = [at EXCEPT ![t] = "out"]
        /\ taken' = [taken EXCEPT ![t] = Head(queue)]
    BY <1>3 DEF Pop, TakeFront
  <2>2. queue' \in Seq(Items) /\ Len(queue') = Len(queue) - 1 /\ Head(queue) \in Items
    BY <1>0, <1>3, <2>1 DEF TypeOK
  <2>3. TypeOK'
    BY <1>0, <2>1, <2>2 DEF TypeOK, Places
  <2>4. Cardinality(Awake') >= Cardinality(Awake) - 1 /\ Asleep' \subseteq Asleep
    <3>1. "out" \in Places \ {"awake"}
      BY DEF Places
    <3>2. /\ Cardinality(Awake') = Cardinality(Awake) - 1 \/ Cardinality(Awake') = Cardinality(Awake)
          /\ Asleep' \subseteq Asleep
      BY <1>0, <2>1, <3>1, OneSettles
    <3>. QED
      BY <3>2, AwakeFinite
  <2>5. Cardinality(Awake') \in Nat
    <3>1. "out" \in Places \ {"awake"}
      BY DEF Places
    <3>. QED
      BY <1>0, <2>1, <3>1, OneSettles
  <2>6. ASSUME Asleep' # {} PROVE Len(queue') <= Cardinality(Awake')
    BY <1>0, <2>2, <2>4, <2>5, <2>6, AwakeFinite DEF NoLostWakeup, TypeOK
  <2>. QED
    BY <2>3, <2>6 DEF IInv, NoLostWakeup
<1>4. ASSUME NEW t \in Threads, Pop(t), queue = << >> PROVE IInv'
  <2>1. UNCHANGED <<queue, taken>> /\ at' = [at EXCEPT ![t] = "asleep"]
    BY <1>4 DEF Pop
  <2>2. TypeOK'
    BY <1>0, <2>1 DEF TypeOK, Places
  <2>3. Cardinality(Awake') \in Nat
    <3>1. "asleep" \in Places \ {"awake"}
      BY DEF Places
    <3>. QED
      BY <1>0, <2>1, <3>1, OneSettles
  <2>. QED
    BY <1>4, <2>1, <2>2, <2>3 DEF IInv, NoLostWakeup
<1>5. ASSUME NEW t \in Threads, SpuriousWakeup(t) PROVE IInv'
  <2>1. UNCHANGED <<queue, taken>> /\ at' = [at EXCEPT ![t] = "awake"] /\ at[t] = "asleep"
    BY <1>5 DEF SpuriousWakeup
  <2>2. TypeOK'
    BY <1>0, <2>1 DEF TypeOK, Places
  <2>3. Cardinality(Awake') = Cardinality(Awake) + 1 /\ Asleep' \subseteq Asleep
    BY <1>0, <2>1, OneWakes
  <2>. QED
    BY <1>0, <2>1, <2>2, <2>3, AwakeFinite DEF IInv, NoLostWakeup, TypeOK
<1>6. CASE UNCHANGED vars
  BY <1>0, <1>6 DEF vars, IInv, TypeOK, NoLostWakeup, Asleep, Awake
<1>. QED
  BY <1>1, <1>2, <1>3, <1>4, <1>5, <1>6 DEF Next

LEMMA Invariance == Spec => []IInv
  BY InitInv, NextInv, PTL DEF Spec

\* Every variable of the queue keeps its type.
THEOREM TypeCorrect == Spec => []TypeOK
  BY Invariance, PTL DEF IInv

\* push never loses a wakeup, however many threads pop.
THEOREM WakeupsAreKept == Spec => []NoLostWakeup
  BY Invariance, PTL DEF IInv

\* Every step of the queue is a step of a FIFO queue: the safety half of
\* ImplementsFifo.
THEOREM ImplementsFifoSteps == Spec => Abstract!FifoSpec
<1>1. Init => Abstract!FifoInit
  BY DEF Init, Abstract!FifoInit
<1>2. IInv /\ [Next]_vars => [Abstract!FifoNext]_(Abstract!fifoVars)
  <2> SUFFICES ASSUME IInv, [Next]_vars
               PROVE  Abstract!FifoNext \/ UNCHANGED Abstract!fifoVars
    OBVIOUS
  <2>. USE DEF IInv, TypeOK, Places, Abstract!fifoVars
  <2>1. ASSUME NEW x \in Items, Push(x) PROVE Abstract!Put(x)
    <3>1. {t \in Threads : at'[t] # "out"} = {t \in Threads : at[t] # "out"}
      BY <2>1 DEF Push, NotifyOne, Asleep
    <3>. QED
      BY <2>1, <3>1 DEF Push, Abstract!Put
  <2>2. ASSUME NEW t \in Threads, Call(t) PROVE Abstract!Ask(t)
    BY <2>2 DEF Call, Abstract!Ask
  <2>3. ASSUME NEW t \in Threads, Pop(t), queue # << >> PROVE Abstract!Take(t)
    BY <2>3 DEF Pop, TakeFront, Abstract!Take
  <2>4. ASSUME NEW t \in Threads, Pop(t), queue = << >> PROVE UNCHANGED Abstract!fifoVars
    BY <2>4 DEF Pop
  <2>5. ASSUME NEW t \in Threads, SpuriousWakeup(t) PROVE UNCHANGED Abstract!fifoVars
    BY <2>5 DEF SpuriousWakeup
  <2>6. CASE UNCHANGED vars
    BY <2>6 DEF vars
  <2>. QED
    BY <2>1, <2>2, <2>3, <2>4, <2>5, <2>6 DEF Next, Abstract!FifoNext
<1>. QED
  BY <1>1, <1>2, Invariance, PTL DEF Spec, Abstract!FifoSpec
-----------------------------------------------------------------------------
(* The latch.                                                              *)

\* The inductive invariant: the count says how often countDown was called.
LatchInv ==
    /\ L!TypeOK
    /\ count = Count - downs
    /\ L!NobodyEarly
    /\ L!NobodyLeft

LEMMA LatchInit ==
    ASSUME Count \in Nat, MaxDowns \in Nat, L!Init PROVE LatchInv
  BY DEF L!Init, LatchInv, L!TypeOK, L!Places, L!NobodyEarly, L!NobodyLeft

LEMMA LatchNext ==
    ASSUME Count \in Nat, MaxDowns \in Nat, LatchInv, [L!Next]_(L!vars) PROVE LatchInv'
<1>. USE DEF LatchInv, L!TypeOK, L!Places, L!NobodyEarly, L!NobodyLeft
<1>1. CASE L!CountDown
  <2>1. downs' \in 0 .. MaxDowns /\ count' = Count - downs' /\ count' \in (Count - MaxDowns) .. Count
    BY <1>1 DEF L!CountDown
  <2>2. where' \in [Threads -> L!Places] /\ \A t \in Threads : where'[t] = "passed" => where[t] = "passed"
    BY <1>1 DEF L!CountDown, L!NotifyAll
  <2>3. count' = 0 => \A t \in Threads : where'[t] # "asleep"
    BY <1>1 DEF L!CountDown, L!NotifyAll
  <2>. QED
    BY <1>1, <2>1, <2>2, <2>3 DEF L!CountDown
<1>2. ASSUME NEW t \in Threads, L!Call(t) PROVE LatchInv'
  BY <1>2 DEF L!Call
<1>3. ASSUME NEW t \in Threads, L!Wait(t) PROVE LatchInv'
  BY <1>3 DEF L!Wait
<1>4. ASSUME NEW t \in Threads, L!SpuriousWakeup(t) PROVE LatchInv'
  BY <1>4 DEF L!SpuriousWakeup
<1>5. CASE UNCHANGED L!vars
  BY <1>5 DEF L!vars
<1>. QED
  BY <1>1, <1>2, <1>3, <1>4, <1>5 DEF L!Next

LEMMA LatchInvariance ==
    ASSUME Count \in Nat, MaxDowns \in Nat PROVE L!Spec => []LatchInv
<1>1. L!Init => LatchInv
  BY LatchInit
<1>2. LatchInv /\ [L!Next]_(L!vars) => LatchInv'
  BY LatchNext
<1>. QED
  BY <1>1, <1>2, PTL DEF L!Spec

\* Every variable of the latch keeps its type.
THEOREM LatchTypeCorrect ==
    ASSUME Count \in Nat, MaxDowns \in Nat PROVE L!Spec => []L!TypeOK
<1>1. LatchInv => L!TypeOK
  BY DEF LatchInv
<1>. QED
  BY <1>1, LatchInvariance, PTL

\* wait returns only after Count calls of countDown.
THEOREM NobodyPassesEarly ==
    ASSUME Count \in Nat, MaxDowns \in Nat PROVE L!Spec => []L!NobodyEarly
<1>1. LatchInv => L!NobodyEarly
  BY DEF LatchInv
<1>. QED
  BY <1>1, LatchInvariance, PTL

\* No thread sleeps in wait while the count is zero.
THEOREM NobodyStaysBehind ==
    ASSUME Count \in Nat, MaxDowns \in Nat PROVE L!Spec => []L!NobodyLeft
<1>1. LatchInv => L!NobodyLeft
  BY DEF LatchInv
<1>. QED
  BY <1>1, LatchInvariance, PTL
=============================================================================
