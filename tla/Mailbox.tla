------------------------------ MODULE Mailbox ------------------------------
(***************************************************************************)
(* One mailbox of the Bavarde server (hw5/src/mailbox.c), down to its list  *)
(* nodes, its semaphore and its reference count, with everybody who may     *)
(* touch it.  Counted pointers are held by the directory, until             *)
(* dir_unregister or dir_fini; by the mailbox service thread, until         *)
(* mb_next_entry returns NULL; and by Senders, the client service threads   *)
(* that get one from dir_lookup or FDLookup and drop it when they have      *)
(* added their entry.  Nobody counts the pointer in the list of descriptors *)
(* nor those in messages from this mailbox (message.from).                  *)
(*                                                                          *)
(* Nodes are numbered in the order they are allocated and never reused, so  *)
(* a pointer to a freed node is recognisable.  A critical section under     *)
(* mb->mutex is one step; mb_next_entry is several, since it sleeps and     *)
(* tests mb->defunct before it takes the mutex.                             *)
(*                                                                          *)
(* Of other mailboxes there is only what they do to this one: they deliver  *)
(* its messages, or discard them.  Module Server has all of them.           *)
(***************************************************************************)
EXTENDS Integers, Sequences, FiniteSets

CONSTANTS
  Senders,      \* client service threads that may look the mailbox up
  MaxEntries,   \* bound: entries ever added
  MaxSent       \* bound: messages from this mailbox that others have

ASSUME SendersFinite == IsFiniteSet(Senders)
ASSUME MaxEntriesNat == MaxEntries \in Nat
ASSUME MaxSentNat == MaxSent \in Nat

NULL == 0
Nodes == 1 .. MaxEntries

VARIABLES
  head, tail,   \* mb->head, mb->tail: a node or NULL
  next,         \* node->next
  entry,        \* node->entry: entry[n] is the entry of the n-th node
  live,         \* nodes allocated and not freed
  sem,          \* value of mb->lock
  defunct,      \* mb->defunct
  refCount,     \* mb->refCount
  freed,        \* a finalization has freed the mailbox
  status,       \* "ok", "hung" with mb->mutex locked, or how the process died
  dir,          \* the directory: "registered", "unrefed", "gone"
  fdNode,       \* its node in the list of descriptors: "none", "listed", "taken"
  sent,         \* message.from of messages in other mailboxes: not counted
  svc,          \* where the mailbox service thread is
  snd           \* where each sender is

list == <<head, tail, next, entry, live>>
vars == <<head, tail, next, entry, live, sem, defunct, refCount, freed, status,
          dir, fdNode, sent, svc, snd>>

Kinds == {"notice", "message", "toSelf"}   \* toSelf: from is this mailbox
SvcStates == {"unborn", "P", "check", "dequeue", "leave", "ended"}
SndStates == {"idle", "holding", "added"}

allocated == Len(entry)

(* mb_init (count 1) and the extra mb_ref of dir_register: one count for    *)
(* the directory, one for the service thread to come.                       *)
Init ==
  /\ head = NULL /\ tail = NULL
  /\ next = [n \in Nodes |-> NULL]
  /\ entry = <<>>
  /\ live = {}
  /\ sem = 0
  /\ defunct = FALSE
  /\ refCount = 2
  /\ freed = FALSE /\ status = "ok"
  /\ dir = "registered"
  /\ fdNode = "none" /\ sent = 0
  /\ svc = "unborn"
  /\ snd = [s \in Senders |-> "idle"]

-----------------------------------------------------------------------------
(* Mutants of InsertEntry: tail is taken for the test of an empty list,     *)
(* which mb_next_entry does not keep up to date; no V.                      *)
InsertEntryByTail(k) ==
  LET node == allocated + 1 IN
  /\ node \in Nodes
  /\ entry' = Append(entry, k)
  /\ live' = live \cup {node}
  /\ tail' = node
  /\ IF tail = NULL
     THEN head' = node /\ UNCHANGED next
     ELSE next' = [next EXCEPT ![tail] = node] /\ UNCHANGED head
  /\ sem' = sem + 1

InsertEntrySilent(k) ==
  LET node == allocated + 1 IN
  /\ node \in Nodes
  /\ entry' = Append(entry, k)
  /\ live' = live \cup {node}
  /\ tail' = node
  /\ IF head = NULL
     THEN head' = node /\ UNCHANGED next
     ELSE next' = [next EXCEPT ![tail] = node] /\ UNCHANGED head
  /\ UNCHANGED sem

(* insertEntryNode, then V, all under the mutex (mb_add_message and         *)
(* mb_add_notice).  The tail is read only if the list is not empty.         *)
InsertEntry(k) ==
  LET node == allocated + 1 IN
  /\ node \in Nodes
  /\ entry' = Append(entry, k)
  /\ live' = live \cup {node}
  /\ tail' = node
  /\ IF head = NULL
     THEN head' = node /\ UNCHANGED next
     ELSE next' = [next EXCEPT ![tail] = node] /\ UNCHANGED head
  /\ sem' = sem + 1

(* A node is left for the ACK of LOGIN. *)
Room == svc = "unborn" => allocated + 1 < MaxEntries

(* Finalization frees an empty mailbox.  With entries left it never gets    *)
(* through the first one: a message from this very mailbox makes it lock    *)
(* its own mutex again, and free() of the inside of an entry aborts.  On    *)
(* its way to that free() a message from another mailbox may also take it   *)
(* to a mailbox that is locked for ever, or freed; "aborted" is that death  *)
(* of the process too.                                                      *)
Finalization ==
  IF head = NULL THEN {"ok"}
  ELSE CASE entry[head] = "notice"  -> {"aborted"}
         [] entry[head] = "message" -> {"aborted", "hung"}
         [] entry[head] = "toSelf"  -> {"hung"}

UnrefTestFirst ==         \* mutant: tests for zero before it decrements
  /\ refCount' = refCount - 1
  /\ IF refCount = 0
     THEN status' \in Finalization /\ freed' = (head = NULL)
     ELSE UNCHANGED <<status, freed>>
  /\ UNCHANGED <<list, sem, defunct>>

(* mb_unref: the last count finalizes the mailbox. *)
Unref ==
  /\ refCount' = refCount - 1
  /\ IF refCount = 1
     THEN status' \in Finalization /\ freed' = (head = NULL)
     ELSE UNCHANGED <<status, freed>>
  /\ UNCHANGED <<list, sem, defunct>>

-----------------------------------------------------------------------------
(* handle_packet, LOGIN: after dir_register the mailbox goes into the list  *)
(* of descriptors, then the ACK notice goes into the mailbox, and then the  *)
(* service thread is created.                                               *)
AddNode ==
  /\ fdNode = "none"
  /\ fdNode' = "listed"
  /\ UNCHANGED <<list, sem, defunct, refCount, freed, status, dir, sent, svc, snd>>

LoginAck ==
  /\ svc = "unborn" /\ fdNode # "none"
  /\ InsertEntry("notice")
  /\ svc' = "P"
  /\ UNCHANGED <<defunct, refCount, freed, status, dir, fdNode, sent, snd>>

DirLookupUncounted(s) ==  \* mutant: the pointer is returned without mb_ref
  /\ snd[s] = "idle"
  /\ dir = "registered"
  /\ snd' = [snd EXCEPT ![s] = "holding"]
  /\ UNCHANGED <<list, sem, defunct, refCount, freed, status, dir, fdNode, sent, svc>>

(* dir_lookup finds the mailbox while it is registered.                     *)
DirLookup(s) ==
  /\ snd[s] = "idle"
  /\ dir = "registered"
  /\ refCount' = refCount + 1
  /\ snd' = [snd EXCEPT ![s] = "holding"]
  /\ UNCHANGED <<list, sem, defunct, freed, status, dir, fdNode, sent, svc>>

(* FDLookup finds it as long as its node is in the list of descriptors,     *)
(* also after dir_fini.                                                     *)
FDLookup(s) ==
  /\ snd[s] = "idle"
  /\ fdNode = "listed"
  /\ refCount' = refCount + 1
  /\ snd' = [snd EXCEPT ![s] = "holding"]
  /\ UNCHANGED <<list, sem, defunct, freed, status, dir, fdNode, sent, svc>>

(* mb_add_message or mb_add_notice by the holder of a pointer, whose        *)
(* mailbox may have become defunct since it was looked up.                  *)
Add(s, k) ==
  /\ snd[s] = "holding" /\ Room
  /\ InsertEntry(k)
  /\ snd' = [snd EXCEPT ![s] = "added"]
  /\ UNCHANGED <<defunct, refCount, freed, status, dir, fdNode, sent, svc>>

(* mb_add_message to another mailbox by the holder of the pointer to its    *)
(* own: message.from is a copy that is not counted.                         *)
SendAway(s) ==
  /\ snd[s] = "holding" /\ sent < MaxSent
  /\ sent' = sent + 1
  /\ snd' = [snd EXCEPT ![s] = "added"]
  /\ UNCHANGED <<list, sem, defunct, refCount, freed, status, dir, fdNode, svc>>

(* mb_unref, with or without an entry added: SEND by a client that is not   *)
(* logged in looks the receiver up and adds nothing.                        *)
Release(s) ==
  /\ snd[s] \in {"holding", "added"}
  /\ snd' = [snd EXCEPT ![s] = "idle"]
  /\ Unref
  /\ UNCHANGED <<dir, fdNode, sent, svc>>

(* The service thread of another mailbox delivers a message from this one,  *)
(* and queues the receipt here.                                             *)
Receipt ==
  /\ sent > 0 /\ Room
  /\ InsertEntry("notice")
  /\ sent' = sent - 1
  /\ UNCHANGED <<defunct, refCount, freed, status, dir, fdNode, svc, snd>>

(* The finalization of another mailbox discards a message from this one: it *)
(* drops a count that the message never had.  If that was the last, this    *)
(* mailbox is finalized in turn, and freed if it is empty; the discard hook *)
(* is then called on it.  If it was not, the free() of the entry follows.   *)
Discard ==
  /\ sent > 0
  /\ refCount' = refCount - 1
  /\ status' \in IF refCount # 1 THEN {"aborted"}
                 ELSE IF head = NULL THEN {"fault"} ELSE Finalization
  /\ UNCHANGED <<list, sem, defunct, freed, dir, fdNode, sent, svc, snd>>

(* LOGOUT: removeNode takes the node out of the list of descriptors, then   *)
(* dir_unregister the mailbox out of the directory; it drops the            *)
(* directory's count and only then shuts the mailbox down.  dir_fini does   *)
(* the same, and leaves the list of descriptors as it is.  It comes at the  *)
(* end of the process, but not always after the last thread (ThreadCounter) *)
(* and so at any time here.                                                 *)
RemoveNode ==
  /\ fdNode = "listed"
  /\ fdNode' = "taken"
  /\ UNCHANGED <<list, sem, defunct, refCount, freed, status, dir, sent, svc, snd>>

DirUnref ==
  /\ dir = "registered"
  /\ dir' = "unrefed"
  /\ Unref
  /\ UNCHANGED <<fdNode, sent, svc, snd>>

ShutdownSilent ==         \* mutant: sets defunct and wakes nobody
  /\ dir = "unrefed"
  /\ dir' = "gone"
  /\ defunct' = TRUE
  /\ UNCHANGED <<list, sem, refCount, freed, status, fdNode, sent, svc, snd>>

Shutdown ==
  /\ dir = "unrefed"
  /\ dir' = "gone"
  /\ defunct' = TRUE
  /\ sem' = sem + 1
  /\ UNCHANGED <<list, refCount, freed, status, fdNode, sent, svc, snd>>

-----------------------------------------------------------------------------
(* mb_next_entry, called in a loop by bvd_mailbox_service. *)
SvcP ==
  /\ svc = "P"
  /\ sem > 0
  /\ sem' = sem - 1
  /\ svc' = "check"
  /\ UNCHANGED <<list, defunct, refCount, freed, status, dir, fdNode, sent, snd>>

SvcCheckNever ==          \* mutant: serves a defunct mailbox to the end
  /\ svc = "check"
  /\ svc' = IF defunct /\ head = NULL THEN "leave" ELSE "dequeue"
  /\ UNCHANGED <<list, sem, defunct, refCount, freed, status, dir, fdNode, sent, snd>>

SvcCheck ==
  /\ svc = "check"
  /\ svc' = IF defunct THEN "leave" ELSE "dequeue"
  /\ UNCHANGED <<list, sem, defunct, refCount, freed, status, dir, fdNode, sent, snd>>

(* The mutex part.  head is not tested: an empty list is a null dereference.*)
SvcDequeue ==
  /\ svc = "dequeue"
  /\ IF head = NULL
     THEN status' = "segfault" /\ UNCHANGED <<head, live>>
     ELSE /\ head' = next[head]
          /\ live' = live \ {head}
          /\ UNCHANGED status
  /\ svc' = "P"
  /\ UNCHANGED <<tail, next, entry, sem, defunct, refCount, freed, dir, fdNode, sent, snd>>

(* NULL tells the service thread to drop its pointer and exit.  It exits    *)
(* if mb_unref returns.                                                     *)
SvcLeave ==
  /\ svc = "leave"
  /\ Unref
  /\ svc' = IF status' = "ok" THEN "ended" ELSE "leave"
  /\ UNCHANGED <<dir, fdNode, sent, snd>>

-----------------------------------------------------------------------------
SvcStep == SvcP \/ SvcCheck \/ SvcDequeue \/ SvcLeave
DirStep == RemoveNode \/ DirUnref \/ Shutdown
SenderStep(s) == \/ DirLookup(s) \/ FDLookup(s) \/ (\E k \in Kinds : Add(s, k))
                 \/ SendAway(s) \/ Release(s)
Step == \/ AddNode \/ LoginAck \/ SvcStep \/ DirStep \/ Receipt \/ Discard
        \/ \E s \in Senders : SenderStep(s)

(* Whoever still goes by a pointer, counted or not. *)
holders == {s \in Senders : snd[s] # "idle"}

UseFreed ==
  /\ dir # "gone" \/ svc # "ended" \/ holders # {} \/ fdNode = "listed" \/ sent > 0
  /\ status' = "fault"
  /\ UNCHANGED <<list, sem, defunct, refCount, freed, dir, fdNode, sent, svc, snd>>

(* Nothing is done to the mailbox any more once the process has died or     *)
(* mb->mutex stays locked.                                                  *)
Alive == status = "ok"

Next == Alive /\ IF freed THEN UseFreed ELSE Step

Spec == Init /\ [][Next]_vars

(* The service thread runs whenever it can; LOGIN gets to create it; a      *)
(* started dir_unregister and a started request finish.  Nobody has to look *)
(* the mailbox up or to log out.                                            *)
Fairness ==
  /\ WF_vars(Alive /\ ~freed /\ (AddNode \/ LoginAck))
  /\ WF_vars(Alive /\ ~freed /\ SvcStep)
  /\ WF_vars(Alive /\ ~freed /\ Shutdown)
  /\ \A s \in Senders : WF_vars(Alive /\ ~freed /\ Release(s))

FairSpec == Spec /\ Fairness

-----------------------------------------------------------------------------
(* What the pointers stand for. *)
taken == IF head = NULL THEN allocated ELSE head - 1
count == allocated - taken

mode == IF freed THEN "freed"
        ELSE IF svc \in {"leave", "ended"} THEN "stopped"
        ELSE IF ~defunct THEN "open"
        ELSE IF svc = "dequeue" THEN "closing" ELSE "closed"

Queue == INSTANCE MailboxQueue WITH log <- entry

(* The mailbox, with its nodes, its semaphore and its unlocked test of      *)
(* defunct, implements the queue that MailboxQueue promises.                *)
ImplementsQueue == Queue!QSpec

(* Every variable keeps its type. *)
TypeOK ==
  /\ head \in Nodes \cup {NULL} /\ tail \in Nodes \cup {NULL}
  /\ next \in [Nodes -> Nodes \cup {NULL}]
  /\ entry \in Seq(Kinds) /\ allocated <= MaxEntries
  /\ live \subseteq Nodes
  /\ sem \in Nat
  /\ defunct \in BOOLEAN
  /\ refCount \in Nat
  /\ freed \in BOOLEAN
  /\ status \in {"ok", "hung", "aborted", "segfault", "fault"}
  /\ dir \in {"registered", "unrefed", "gone"}
  /\ fdNode \in {"none", "listed", "taken"}
  /\ sent \in 0 .. MaxSent
  /\ svc \in SvcStates
  /\ snd \in [Senders -> SndStates]

(* The list from head is exactly the nodes not yet freed, in the order they *)
(* were added, and ends at tail; so the stale tail left by mb_next_entry    *)
(* when it empties the list is never followed.                              *)
ListShape ==
  /\ live = (taken + 1) .. allocated
  /\ head # NULL =>
       /\ head <= allocated
       /\ tail = allocated
       /\ \A n \in live : next[n] = IF n = allocated THEN NULL ELSE n + 1
  /\ \A n \in Nodes : n > allocated => next[n] = NULL

(* The semaphore counts one token per entry and one for the shutdown, less  *)
(* the token the service thread has taken and not yet used.                 *)
TokensMatch ==
  sem + (IF svc \in {"unborn", "P"} THEN 0 ELSE 1)
    = count + (IF defunct THEN 1 ELSE 0)

(* mb_next_entry never takes an entry from an empty list, although it tests *)
(* neither head nor, under the mutex, defunct.                              *)
NoNullDereference ==
  /\ status # "segfault"
  /\ svc = "dequeue" => head # NULL

(* mb_ref and mb_unref match the counted pointers: the directory's, the     *)
(* service thread's and those of the requests under way; until a            *)
(* finalization goes wrong, or takes a count from a sender's mailbox.       *)
CountsMatch ==
  status = "ok" =>
    refCount = (IF dir = "registered" THEN 1 ELSE 0)
               + (IF svc = "ended" THEN 0 ELSE 1) + Cardinality(holders)

(* Nobody who holds a counted pointer uses the mailbox after it has been    *)
(* freed.  In particular dir_unregister may shut it down after it has       *)
(* dropped its count: the service thread keeps its own until it has seen    *)
(* defunct.  Who does use it has an uncounted one: a message to another     *)
(* mailbox (SenderOutlivesMessage of Server), or, after dir_fini, the list  *)
(* of descriptors.                                                          *)
NoUseAfterFree ==
  /\ freed => dir = "gone" /\ svc = "ended" /\ holders = {}
  /\ status = "fault" => fdNode = "listed" \/ sent > 0

(* Once dir_unregister or dir_fini has started, the service thread ends,    *)
(* however many entries are still in the mailbox; unless the process dies,  *)
(* or a finalization has left the mailbox locked, the thread's own with     *)
(* entries left among them.                                                 *)
ServiceEnds == dir = "unrefed" ~> (svc = "ended" \/ ~Alive)

(* An entry of an open mailbox is handed out, unless the mailbox is shut    *)
(* down first.                                                              *)
EntriesHandedOut ==
  \A n \in Nodes : n <= allocated ~> (taken >= n \/ defunct \/ ~Alive)
=============================================================================
