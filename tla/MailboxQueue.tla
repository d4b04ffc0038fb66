---------------------------- MODULE MailboxQueue ----------------------------
(***************************************************************************)
(* What a mailbox promises, whatever its nodes, its semaphore and its       *)
(* reference count do (hw5/src/mailbox.c implements it, see Mailbox):       *)
(* entries come out in the order they went in, each of them once, none of   *)
(* them out of an empty mailbox; shutting the mailbox down lets at most the *)
(* one call of mb_next_entry that is past its defunct test return another   *)
(* entry; after that the service is told to stop, and only a stopped        *)
(* mailbox is ever freed.                                                   *)
(***************************************************************************)
EXTENDS Naturals, Sequences

CONSTANT Kinds         \* what an entry may be

VARIABLES
  log,      \* every entry ever added, oldest first
  taken,    \* how many of them have been handed out
  mode      \* how far the mailbox is shut down

qvars == <<log, taken, mode>>

Modes == {"open", "closing", "closed", "stopped", "freed"}

QInit == log = <<>> /\ taken = 0 /\ mode = "open"

Put(k) ==
  /\ mode # "freed"
  /\ log' = Append(log, k)
  /\ UNCHANGED <<taken, mode>>

Get ==
  /\ taken < Len(log)
  /\ mode \in {"open", "closing"}
  /\ taken' = taken + 1
  /\ mode' = IF mode = "closing" THEN "closed" ELSE mode
  /\ UNCHANGED log

Close ==
  /\ mode = "open"
  /\ mode' \in {"closing", "closed"}
  /\ UNCHANGED <<log, taken>>

Stop ==
  /\ mode = "closed"
  /\ mode' = "stopped"
  /\ UNCHANGED <<log, taken>>

Free ==
  /\ mode = "stopped"
  /\ mode' = "freed"
  /\ UNCHANGED <<log, taken>>

QNext == (\E k \in Kinds : Put(k)) \/ Get \/ Close \/ Stop \/ Free

QSpec == QInit /\ [][QNext]_qvars
=============================================================================
