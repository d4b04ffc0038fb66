--------------------------- MODULE ThreadCounter ---------------------------
(***************************************************************************)
(* The thread counter of the Bavarde server (hw5/src/thread_counter.c) with *)
(* the threads that use it: the main thread, which counts nothing and       *)
(* waits for zero in terminate(), and the service threads, which count      *)
(* themselves in when they start running and out when they are about to     *)
(* exit.                                                                    *)
(*                                                                          *)
(* tcnt_decr posts the semaphore while it still holds the mutex, so the     *)
(* thread inside it is modelled in two steps (Decr, Unlock).  The mutex is  *)
(* held in no other state that another thread can see: tcnt_incr is one     *)
(* critical section without a call that wakes anybody, and                  *)
(* tcnt_wait_for_zero reads the counter without the mutex.                  *)
(***************************************************************************)
EXTENDS Integers, FiniteSets

CONSTANT Threads       \* the service threads the server may ever create

ASSUME ThreadsFinite == IsFiniteSet(Threads)

VARIABLES
  counter,   \* tc->counter
  sem,       \* value of tc->semaphore
  pc,        \* where each service thread is with respect to the counter
  main,      \* where the main thread is: accept loop, then terminate()
  fault      \* some thread has touched the counter after tcnt_fini freed it

vars == <<counter, sem, pc, main, fault>>

PCs == {"unborn", "created", "running", "unlocking", "done"}
Mains == {"accepting", "terminating", "waiting", "returned", "finalized", "exited"}

(* Threads whose next step on the counter is still to come. *)
Pending == {t \in Threads : pc[t] \in {"created", "running", "unlocking"}}

(* tcnt_fini has freed the counter. *)
Freed == main \in {"finalized", "exited"}

MutexFree == \A t \in Threads : pc[t] # "unlocking"

Init ==
  /\ counter = 0
  /\ sem = 0
  /\ pc = [t \in Threads |-> "unborn"]
  /\ main = "accepting"
  /\ fault = FALSE

(* Mutants: plausible mistakes, each defined before what it would replace.  *)
SpawnCounting(t) ==        \* the creator counts the new thread as well
  /\ pc[t] = "unborn"
  /\ main = "accepting" \/ \E u \in Threads : pc[u] = "running"
  /\ main # "exited"
  /\ pc' = [pc EXCEPT ![t] = "created"]
  /\ counter' = counter + 1
  /\ UNCHANGED <<sem, main, fault>>

IncrForgotten(t) ==        \* the thread starts without counting itself
  /\ pc[t] = "created"
  /\ pc' = [pc EXCEPT ![t] = "running"]
  /\ UNCHANGED <<counter, sem, main, fault>>

DecrTestFirst(t) ==        \* the test for zero comes before the decrement
  /\ pc[t] = "running"
  /\ MutexFree /\ ~Freed
  /\ counter' = counter - 1
  /\ sem' = IF counter = 0 THEN sem + 1 ELSE sem
  /\ pc' = [pc EXCEPT ![t] = "unlocking"]
  /\ UNCHANGED <<main, fault>>

(* pthread_create: by the accept loop for a connection, or by a running     *)
(* client service thread for the mailbox of a login.  The new thread has    *)
(* not counted itself yet.                                                  *)
Spawn(t) ==
  /\ pc[t] = "unborn"
  /\ main = "accepting" \/ \E u \in Threads : pc[u] = "running"
  /\ main # "exited"
  /\ pc' = [pc EXCEPT ![t] = "created"]
  /\ UNCHANGED <<counter, sem, main, fault>>

Incr(t) ==
  /\ pc[t] = "created"
  /\ MutexFree /\ ~Freed
  /\ counter' = counter + 1
  /\ pc' = [pc EXCEPT ![t] = "running"]
  /\ UNCHANGED <<sem, main, fault>>

(* tcnt_decr up to and including the V; the mutex is still held. *)
Decr(t) ==
  /\ pc[t] = "running"
  /\ MutexFree /\ ~Freed
  /\ counter' = counter - 1
  /\ sem' = IF counter' = 0 THEN sem + 1 ELSE sem
  /\ pc' = [pc EXCEPT ![t] = "unlocking"]
  /\ UNCHANGED <<main, fault>>

Unlock(t) ==
  /\ pc[t] = "unlocking"
  /\ ~Freed
  /\ pc' = [pc EXCEPT ![t] = "done"]
  /\ UNCHANGED <<counter, sem, main, fault>>

(* A thread runs into the freed counter.  What happens then is undefined,   *)
(* so the behaviour is not followed further.                                *)
UseFreed(t) ==
  /\ main = "finalized"
  /\ t \in Pending
  /\ fault' = TRUE
  /\ UNCHANGED <<counter, sem, pc, main>>

(* SIGHUP interrupts the accept loop, and terminate() never returns to it.  *)
Sighup ==
  /\ main = "accepting"
  /\ main' = "terminating"
  /\ UNCHANGED <<counter, sem, pc, fault>>

(* The unlocked test at the head of tcnt_wait_for_zero. *)
WaitCheck ==
  /\ main = "terminating"
  /\ main' = IF counter = 0 THEN "returned" ELSE "waiting"
  /\ UNCHANGED <<counter, sem, pc, fault>>

WaitP ==
  /\ main = "waiting"
  /\ sem > 0
  /\ sem' = sem - 1
  /\ main' = "returned"
  /\ UNCHANGED <<counter, pc, fault>>

(* tcnt_fini: the semaphore and the mutex are destroyed, the counter freed. *)
Fini ==
  /\ main = "returned"
  /\ main' = "finalized"
  /\ UNCHANGED <<counter, sem, pc, fault>>

Exit ==
  /\ main = "finalized"
  /\ main' = "exited"
  /\ UNCHANGED <<counter, sem, pc, fault>>

ThreadStep(t) == Spawn(t) \/ Incr(t) \/ Decr(t) \/ Unlock(t) \/ UseFreed(t)
MainStep == Sighup \/ WaitCheck \/ WaitP \/ Fini \/ Exit

Next == ~fault /\ (MainStep \/ \E t \in Threads : ThreadStep(t))

Spec == Init /\ [][Next]_vars

(* Every started call finishes, the main thread goes on once SIGHUP has     *)
(* arrived, and service threads do exit: the last is the contract of        *)
(* thread_counter.h, which has the main thread "cause the other threads to  *)
(* terminate" before it waits.  tcnt_decr needs the mutex, which threads    *)
(* contend for, hence SF.                                                   *)
Fairness ==
  /\ WF_vars(~fault /\ (WaitCheck \/ WaitP \/ Fini \/ Exit))
  /\ \A t \in Threads : /\ SF_vars(~fault /\ (Incr(t) \/ Decr(t)))
                        /\ WF_vars(~fault /\ Unlock(t))

FairSpec == Spec /\ Fairness

-----------------------------------------------------------------------------
(* Every variable keeps its type. *)
TypeOK ==
  /\ counter \in Nat
  /\ sem \in Nat
  /\ pc \in [Threads -> PCs]
  /\ main \in Mains
  /\ fault \in BOOLEAN

(* The counter is the number of threads between their tcnt_incr and their   *)
(* tcnt_decr: no count is lost or made twice by any interleaving.           *)
CounterExact == counter = Cardinality({t \in Threads : pc[t] = "running"})

(* No lost wake-up: the main thread tests the counter without the mutex and *)
(* only then sleeps, yet it never sleeps on an empty semaphore while the    *)
(* count is zero.                                                           *)
NoLostWakeup == main = "waiting" /\ counter = 0 => sem > 0

(* Shutdown gets through the counter: once SIGHUP has arrived and service   *)
(* threads keep exiting, the main thread gets out of tcnt_wait_for_zero and *)
(* leaves the process.                                                      *)
ShutdownCompletes == main = "terminating" ~> (main = "exited" \/ fault)
=============================================================================
