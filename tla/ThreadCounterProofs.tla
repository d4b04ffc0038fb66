------------------------ MODULE ThreadCounterProofs ------------------------
(* Proofs about ThreadCounter, for any finite set of threads. *)
EXTENDS ThreadCounter, FiniteSetTheorems, TLAPS

Running(f) == {t \in Threads : f[t] = "running"}

(* A step that leaves thread t's "running" status alone leaves the set of   *)
(* counted threads alone; Incr adds one thread to it, Decr removes one.     *)
LEMMA RunningFinite ==
  ASSUME NEW f
  PROVE  IsFiniteSet(Running(f)) /\ Cardinality(Running(f)) \in Nat
<1>1. Running(f) \subseteq Threads
  BY DEF Running
<1>2. IsFiniteSet(Running(f))
  BY <1>1, ThreadsFinite, FS_Subset
<1>3. QED
  BY <1>2, FS_CardinalityType

LEMMA RunningAdd ==
  ASSUME NEW f \in [Threads -> PCs], NEW t \in Threads, f[t] # "running"
  PROVE  Cardinality(Running([f EXCEPT ![t] = "running"]))
           = Cardinality(Running(f)) + 1
<1>1. Running([f EXCEPT ![t] = "running"]) = Running(f) \cup {t}
  BY DEF Running
<1>2. t \notin Running(f)
  BY DEF Running
<1>3. QED
  BY <1>1, <1>2, RunningFinite, FS_AddElement

LEMMA RunningRemove ==
  ASSUME NEW f \in [Threads -> PCs], NEW t \in Threads, NEW s \in PCs,
         f[t] = "running", s # "running"
  PROVE  /\ Cardinality(Running([f EXCEPT ![t] = s]))
              = Cardinality(Running(f)) - 1
         /\ Cardinality(Running(f)) > 0
<1>1. Running([f EXCEPT ![t] = s]) = Running(f) \ {t}
  BY DEF Running
<1>2. t \in Running(f)
  BY DEF Running
<1>3. Cardinality(Running(f) \ {t}) = Cardinality(Running(f)) - 1
  BY <1>2, RunningFinite, FS_RemoveElement
<1>4. Cardinality(Running(f) \ {t}) \in Nat
  <2>1. IsFiniteSet(Running(f) \ {t})
    BY RunningFinite, FS_Subset
  <2>2. QED
    BY <2>1, FS_CardinalityType
<1>5. Cardinality(Running(f)) \in Nat
  BY RunningFinite
<1>6. Cardinality(Running(f)) > 0
  BY <1>3, <1>4, <1>5
<1>7. QED
  BY <1>1, <1>3, <1>6

LEMMA RunningSame ==
  ASSUME NEW f \in [Threads -> PCs], NEW t \in Threads, NEW s \in PCs,
         f[t] # "running", s # "running"
  PROVE  Running([f EXCEPT ![t] = s]) = Running(f)
BY DEF Running

-----------------------------------------------------------------------------
(* The inductive invariant: the three invariants of the runs together.      *)
(* NoLostWakeup needs CounterExact (an increment leaves the count above     *)
(* zero), and CounterExact gives counter \in Nat.                           *)
IInv == TypeOK /\ CounterExact /\ NoLostWakeup

LEMMA InitIInv == Init => IInv
<1>1. ASSUME Init PROVE IInv
  <2>1. Running(pc) = {}
    BY <1>1 DEF Init, Running
  <2>2. Cardinality(Running(pc)) = 0
    BY <2>1, FS_EmptySet
  <2>3. QED
    BY <1>1, <2>2 DEF Init, IInv, TypeOK, CounterExact, NoLostWakeup, Running, PCs, Mains
<1>2. QED
  BY <1>1

LEMMA NextIInv == IInv /\ [Next]_vars => IInv'
<1> SUFFICES ASSUME IInv, [Next]_vars PROVE IInv'
  OBVIOUS
<1> USE DEF IInv, TypeOK, NoLostWakeup
<1> counter = Cardinality(Running(pc))
  BY DEF CounterExact, Running
<1> SUFFICES TypeOK' /\ counter' = Cardinality(Running(pc')) /\ NoLostWakeup'
  BY DEF CounterExact, Running
<1>1. ASSUME NEW t \in Threads, Spawn(t)
      PROVE  TypeOK' /\ counter' = Cardinality(Running(pc')) /\ NoLostWakeup'
  BY <1>1, RunningSame DEF Spawn, PCs
<1>2. ASSUME NEW t \in Threads, Incr(t)
      PROVE  TypeOK' /\ counter' = Cardinality(Running(pc')) /\ NoLostWakeup'
  <2>1. Cardinality(Running(pc')) = Cardinality(Running(pc)) + 1
    BY <1>2, RunningAdd DEF Incr, PCs
  <2>2. QED
    BY <1>2, <2>1 DEF Incr, PCs
<1>3. ASSUME NEW t \in Threads, Decr(t)
      PROVE  TypeOK' /\ counter' = Cardinality(Running(pc')) /\ NoLostWakeup'
  <2>1. /\ Cardinality(Running(pc')) = Cardinality(Running(pc)) - 1
        /\ Cardinality(Running(pc)) > 0
    BY <1>3, RunningRemove DEF Decr, PCs
  <2>2. QED
    BY <1>3, <2>1 DEF Decr, PCs
<1>4. ASSUME NEW t \in Threads, Unlock(t)
      PROVE  TypeOK' /\ counter' = Cardinality(Running(pc')) /\ NoLostWakeup'
  BY <1>4, RunningSame DEF Unlock, PCs
<1>5. ASSUME NEW t \in Threads, UseFreed(t)
      PROVE  TypeOK' /\ counter' = Cardinality(Running(pc')) /\ NoLostWakeup'
  BY <1>5 DEF UseFreed
<1>6. CASE Sighup
  BY <1>6 DEF Sighup, Mains
<1>7. CASE WaitCheck
  BY <1>7 DEF WaitCheck, Mains
<1>8. CASE WaitP
  BY <1>8 DEF WaitP, Mains
<1>9. CASE Fini
  BY <1>9 DEF Fini, Mains
<1>10. CASE Exit
  BY <1>10 DEF Exit, Mains
<1>11. CASE UNCHANGED vars
  BY <1>11 DEF vars
<1>12. QED
  BY <1>1, <1>2, <1>3, <1>4, <1>5, <1>6, <1>7, <1>8, <1>9, <1>10, <1>11
     DEF Next, MainStep, ThreadStep

(* The inductive invariant holds at every state of every behaviour. *)
THEOREM Invariance == Spec => []IInv
<1>1. QED
  BY InitIInv, NextIInv, PTL DEF Spec

(* Every variable keeps its type in every behaviour of the counter. *)
THEOREM TypeCorrect == Spec => []TypeOK
<1>1. IInv => TypeOK
  BY DEF IInv
<1>2. QED
  BY <1>1, Invariance, PTL

(* tcnt_incr and tcnt_decr keep the count exact, however many threads run   *)
(* them and in whatever order.                                              *)
THEOREM CountIsExact == Spec => []CounterExact
<1>1. IInv => CounterExact
  BY DEF IInv
<1>2. QED
  BY <1>1, Invariance, PTL

(* tcnt_wait_for_zero loses no wake-up although it tests the count without  *)
(* the mutex.                                                               *)
THEOREM NoWakeupIsLost == Spec => []NoLostWakeup
<1>1. IInv => NoLostWakeup
  BY DEF IInv
<1>2. QED
  BY <1>1, Invariance, PTL
=============================================================================
