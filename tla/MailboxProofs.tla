--------------------------- MODULE MailboxProofs ---------------------------
(* Proofs about Mailbox, for any finite set of senders and any number of    *)
(* entries.                                                                 *)
EXTENDS Mailbox, FiniteSetTheorems, TLAPS

HoldersOf(f) == {s \in Senders : f[s] # "idle"}

LEMMA HoldersFinite ==
  ASSUME NEW f
  PROVE  IsFiniteSet(HoldersOf(f)) /\ Cardinality(HoldersOf(f)) \in Nat
<1>1. IsFiniteSet(HoldersOf(f))
  BY SendersFinite, FS_Subset DEF HoldersOf
<1>2. QED
  BY <1>1, FS_CardinalityType

(* A sender that gets a pointer adds one to the holders. *)
LEMMA HoldersAdd ==
  ASSUME NEW f \in [Senders -> SndStates], NEW s \in Senders, f[s] = "idle"
  PROVE  Cardinality(HoldersOf([f EXCEPT ![s] = "holding"]))
           = Cardinality(HoldersOf(f)) + 1
<1>1. HoldersOf([f EXCEPT ![s] = "holding"]) = HoldersOf(f) \cup {s}
  BY DEF HoldersOf
<1>2. s \notin HoldersOf(f)
  BY DEF HoldersOf
<1>3. QED
  BY <1>1, <1>2, HoldersFinite, FS_AddElement

(* A sender that drops its pointer takes one from the holders. *)
LEMMA HoldersRemove ==
  ASSUME NEW f \in [Senders -> SndStates], NEW s \in Senders, f[s] # "idle"
  PROVE  /\ Cardinality(HoldersOf([f EXCEPT ![s] = "idle"]))
              = Cardinality(HoldersOf(f)) - 1
         /\ Cardinality(HoldersOf([f EXCEPT ![s] = "idle"])) \in Nat
<1>1. HoldersOf([f EXCEPT ![s] = "idle"]) = HoldersOf(f) \ {s}
  BY DEF HoldersOf
<1>2. s \in HoldersOf(f)
  BY DEF HoldersOf
<1>3. Cardinality(HoldersOf(f) \ {s}) = Cardinality(HoldersOf(f)) - 1
  BY <1>2, HoldersFinite, FS_RemoveElement
<1>4. QED
  BY <1>1, <1>3, HoldersFinite

(* Nobody holds a pointer when there are no holders to count. *)
LEMMA NoHolders ==
  ASSUME NEW f, Cardinality(HoldersOf(f)) = 0
  PROVE  HoldersOf(f) = {}
BY HoldersFinite, FS_EmptySet

-----------------------------------------------------------------------------
(* The inductive invariant.  Two of the last three parts tie the shutdown   *)
(* of the mailbox to the directory and to the service thread; they are why  *)
(* dir_unregister's count is never the last one.  The other ties the last   *)
(* count to the finalization, as long as none has gone wrong.               *)
DefunctWhenGone == defunct <=> dir = "gone"
LeavesWhenDefunct == svc \in {"leave", "ended"} => defunct
FreedWithLastCount == status = "ok" => (freed <=> refCount = 0)

IInv == /\ TypeOK /\ ListShape /\ TokensMatch /\ NoNullDereference
        /\ CountsMatch /\ NoUseAfterFree
        /\ DefunctWhenGone /\ LeavesWhenDefunct /\ FreedWithLastCount

LEMMA InitIInv == Init => IInv
<1> SUFFICES ASSUME Init PROVE IInv
  OBVIOUS
<1>1. HoldersOf(snd) = {}
  BY DEF Init, HoldersOf
<1>2. Cardinality(HoldersOf(snd)) = 0
  BY <1>1, FS_EmptySet
<1>3. TypeOK
  <2>1. entry \in Seq(Kinds) /\ allocated = 0
    BY DEF Init, allocated
  <2>2. next \in [Nodes -> Nodes \cup {NULL}] /\ snd \in [Senders -> SndStates]
    BY DEF Init, SndStates
  <2>3. allocated <= MaxEntries
    BY <2>1, MaxEntriesNat
  <2>4. 0 \in 0 .. MaxSent
    BY MaxSentNat
  <2>5. QED
    BY <2>1, <2>2, <2>3, <2>4 DEF Init, TypeOK, SvcStates
<1>4. ListShape
  BY MaxEntriesNat DEF Init, ListShape, Nodes, NULL, taken, allocated
<1>5. TokensMatch
  BY DEF Init, TokensMatch, count, taken, allocated, NULL
<1>6. CountsMatch
  BY <1>2 DEF Init, CountsMatch, holders, HoldersOf
<1>7. QED
  BY <1>3, <1>4, <1>5, <1>6 DEF Init, IInv, NoNullDereference, NoUseAfterFree,
     DefunctWhenGone, LeavesWhenDefunct, FreedWithLastCount

(* Adding an entry keeps the list in shape and adds one to the count. *)
LEMMA InsertKeepsList ==
  ASSUME TypeOK, ListShape, NEW k \in Kinds, InsertEntry(k)
  PROVE  /\ ListShape'
         /\ taken' = taken
         /\ count' = count + 1
         /\ allocated' = allocated + 1
         /\ head' # NULL
         /\ entry' \in Seq(Kinds) /\ allocated' <= MaxEntries
         /\ live' \subseteq Nodes
         /\ head' \in Nodes \cup {NULL} /\ tail' \in Nodes \cup {NULL}
         /\ next' \in [Nodes -> Nodes \cup {NULL}]
         /\ sem' = sem + 1
<1> USE MaxEntriesNat DEF NULL, Nodes
<1> DEFINE node == allocated + 1
<1>1. allocated \in Nat /\ node \in Nodes
  BY DEF TypeOK, InsertEntry, allocated
<1>2. /\ entry' = Append(entry, k) /\ live' = live \cup {node} /\ tail' = node
      /\ sem' = sem + 1
  BY DEF InsertEntry
<1>3. allocated' = node /\ entry' \in Seq(Kinds)
  BY <1>2 DEF TypeOK, allocated
<1>4. CASE head = NULL
  <2>1. head' = node /\ next' = next
    BY <1>4 DEF InsertEntry
  <2>2. taken = allocated /\ taken' = allocated
    BY <1>1, <1>4, <2>1 DEF taken
  <2>3. ListShape'
    BY <1>1, <1>2, <1>3, <2>1, <2>2 DEF ListShape, TypeOK
  <2>4. QED
    BY <1>1, <1>2, <1>3, <2>1, <2>2, <2>3 DEF TypeOK, count
<1>5. CASE head # NULL
  <2>1. head' = head /\ next' = [next EXCEPT ![tail] = node]
    BY <1>5 DEF InsertEntry
  <2>2. taken = head - 1 /\ taken' = head - 1 /\ head \in Nodes
    BY <1>5, <2>1 DEF taken, TypeOK
  <2>3. tail = allocated /\ tail \in Nodes /\ head <= allocated
    BY <1>1, <1>5, <2>2 DEF ListShape, TypeOK
  <2>4. live' = (taken' + 1) .. allocated'
    BY <1>1, <1>2, <1>3, <2>2, <2>3 DEF ListShape
  <2>5. next' \in [Nodes -> Nodes \cup {NULL}]
    BY <1>1, <2>1 DEF TypeOK
  <2>6. \A n \in live' : next'[n] = IF n = allocated' THEN NULL ELSE n + 1
    <3> TAKE n \in live'
    <3>1. CASE n = node
      BY <1>1, <1>3, <2>1, <2>3, <3>1 DEF TypeOK, ListShape
    <3>2. CASE n = allocated
      BY <1>1, <1>3, <2>1, <2>3, <3>2 DEF TypeOK
    <3>3. CASE n # node /\ n # allocated
      BY <1>1, <1>2, <1>3, <1>5, <2>1, <2>3, <3>3 DEF TypeOK, ListShape
    <3>4. QED
      BY <3>1, <3>2, <3>3
  <2>7. \A n \in Nodes : n > allocated' => next'[n] = NULL
    BY <1>1, <1>3, <2>1, <2>3 DEF TypeOK, ListShape
  <2>8. ListShape'
    BY <1>1, <1>2, <1>3, <2>1, <2>2, <2>3, <2>4, <2>6, <2>7 DEF ListShape
  <2>9. QED
    BY <1>1, <1>2, <1>3, <2>1, <2>2, <2>3, <2>5, <2>8 DEF TypeOK, count
<1>6. QED
  BY <1>4, <1>5

(* Taking the first entry keeps the list in shape and takes one from the    *)
(* count.                                                                   *)
LEMMA DequeueKeepsList ==
  ASSUME TypeOK, ListShape, head # NULL, head' = next[head],
         live' = live \ {head}, UNCHANGED <<tail, next, entry>>
  PROVE  /\ ListShape'
         /\ taken' = taken + 1
         /\ count' = count - 1
         /\ allocated' = allocated
         /\ taken < allocated
         /\ head' \in Nodes \cup {NULL} /\ live' \subseteq Nodes
<1> USE MaxEntriesNat DEF NULL, Nodes
<1>1. allocated \in Nat /\ allocated' = allocated
  BY DEF TypeOK, allocated
<1>2. /\ head \in Nodes /\ head <= allocated /\ tail = allocated
      /\ taken = head - 1
  BY <1>1 DEF TypeOK, ListShape, taken
<1>3. head' = IF head = allocated THEN NULL ELSE head + 1
  BY <1>1, <1>2 DEF ListShape
<1>4. taken' = head
  BY <1>1, <1>2, <1>3 DEF taken
<1>5. live' = (taken' + 1) .. allocated'
  BY <1>1, <1>2, <1>4 DEF ListShape
<1>6. ListShape'
  BY <1>1, <1>2, <1>3, <1>4, <1>5 DEF ListShape
<1>7. QED
  BY <1>1, <1>2, <1>3, <1>4, <1>6 DEF TypeOK, count

(* A mailbox with a token to spare is not empty. *)
LEMMA CountHead ==
  ASSUME TypeOK, ListShape
  PROVE  /\ count \in Nat
         /\ count = 0 <=> head = NULL
         /\ taken \in Nat /\ allocated \in Nat
BY MaxEntriesNat DEF TypeOK, ListShape, count, taken, allocated, NULL, Nodes

-----------------------------------------------------------------------------
(* The steps that leave the list, the semaphore and the shutdown alone, and *)
(* do not touch the count.                                                  *)
LEMMA AsideIInv ==
  ASSUME IInv, Alive, ~freed, fdNode' \in {"none", "listed", "taken"},
         sent' \in 0 .. MaxSent, snd' \in [Senders -> SndStates],
         HoldersOf(snd') = HoldersOf(snd),
         UNCHANGED <<list, sem, defunct, refCount, freed, status, dir, svc>>
  PROVE  IInv'
<1> USE DEF IInv
<1>1. TypeOK'
  BY DEF TypeOK, list, allocated
<1>2. ListShape' /\ TokensMatch'
  BY DEF ListShape, TokensMatch, list, taken, allocated, count
<1>3. CountsMatch'
  BY DEF CountsMatch, holders, HoldersOf
<1>4. QED
  BY <1>1, <1>2, <1>3
     DEF Alive, NoNullDereference, NoUseAfterFree, DefunctWhenGone,
         LeavesWhenDefunct, FreedWithLastCount, list

(* The steps that add an entry. *)
LEMMA InsertIInv ==
  ASSUME IInv, Alive, ~freed, NEW k \in Kinds, InsertEntry(k),
         svc' = svc \/ (svc = "unborn" /\ svc' = "P"),
         sent' \in 0 .. MaxSent, snd' \in [Senders -> SndStates],
         HoldersOf(snd') = HoldersOf(snd),
         UNCHANGED <<defunct, refCount, freed, status, dir, fdNode>>
  PROVE  IInv'
<1> USE DEF IInv
<1>1. TypeOK'
  BY InsertKeepsList DEF TypeOK, SvcStates
<1>2. ListShape'
  BY InsertKeepsList
<1>3. TokensMatch'
  BY InsertKeepsList, CountHead DEF TokensMatch, TypeOK
<1>4. CountsMatch'
  BY DEF CountsMatch, holders, HoldersOf
<1>5. NoNullDereference'
  BY InsertKeepsList DEF NoNullDereference
<1>6. QED
  BY <1>1, <1>2, <1>3, <1>4, <1>5
     DEF Alive, NoUseAfterFree, DefunctWhenGone, LeavesWhenDefunct,
         FreedWithLastCount

(* The steps that take a count for a sender. *)
LEMMA LookupIInv ==
  ASSUME IInv, Alive, ~freed, NEW s \in Senders, snd[s] = "idle",
         refCount' = refCount + 1, snd' = [snd EXCEPT ![s] = "holding"],
         UNCHANGED <<list, sem, defunct, freed, status, dir, fdNode, sent, svc>>
  PROVE  IInv'
<1> USE DEF IInv
<1>1. TypeOK'
  BY DEF TypeOK, SndStates, list, allocated
<1>2. ListShape' /\ TokensMatch'
  BY DEF ListShape, TokensMatch, list, taken, allocated, count
<1>3. CountsMatch'
  <2>1. Cardinality(HoldersOf(snd')) = Cardinality(HoldersOf(snd)) + 1
    BY HoldersAdd DEF TypeOK
  <2>2. QED
    BY <2>1, HoldersFinite DEF CountsMatch, holders, HoldersOf
<1>4. QED
  BY <1>1, <1>2, <1>3
     DEF Alive, NoNullDereference, NoUseAfterFree, DefunctWhenGone,
         LeavesWhenDefunct, FreedWithLastCount, TypeOK, list

LEMMA FinalizationOutcomes ==
  ASSUME TypeOK, ListShape
  PROVE  IF head = NULL THEN Finalization = {"ok"}
         ELSE Finalization \subseteq {"aborted", "hung"}
<1>1. CASE head = NULL
  BY <1>1 DEF Finalization
<1>2. CASE head # NULL
  <2>1. entry \in Seq(Kinds) /\ head \in 1 .. Len(entry)
    BY <1>2, MaxEntriesNat DEF TypeOK, ListShape, Nodes, NULL, allocated
  <2>2. entry[head] \in {"notice", "message", "toSelf"}
    BY <2>1 DEF Kinds
  <2>3. QED
    BY <1>2, <2>2 DEF Finalization
<1>3. QED
  BY <1>1, <1>2

(* A count dropped by somebody who held one: the mailbox is freed with the  *)
(* last, if its finalization goes well.                                     *)
LEMMA UnrefOutcome ==
  ASSUME IInv, Alive, ~freed, Unref
  PROVE  /\ refCount \in Nat /\ refCount > 0 /\ refCount' = refCount - 1
         /\ status' \in {"ok", "hung", "aborted"} /\ freed' \in BOOLEAN
         /\ status' = "ok" => (freed' <=> refCount' = 0)
         /\ freed' => status' = "ok"
         /\ UNCHANGED <<list, sem, defunct>>
<1>1. refCount \in Nat /\ refCount > 0 /\ status = "ok"
  BY DEF IInv, TypeOK, FreedWithLastCount, Alive
<1>2. refCount' = refCount - 1 /\ UNCHANGED <<list, sem, defunct>>
  BY DEF Unref
<1>3. CASE refCount = 1
  <2>1. status' \in Finalization /\ freed' = (head = NULL)
    BY <1>3 DEF Unref
  <2>2. IF head = NULL THEN status' = "ok" ELSE status' \in {"aborted", "hung"}
    BY <2>1, FinalizationOutcomes DEF IInv
  <2>3. refCount' = 0
    BY <1>1, <1>2, <1>3
  <2>4. QED
    BY <1>1, <1>2, <2>1, <2>2, <2>3
<1>4. CASE refCount # 1
  <2>1. UNCHANGED <<status, freed>>
    BY <1>4 DEF Unref
  <2>2. QED
    BY <1>1, <1>2, <1>4, <2>1 DEF IInv, TypeOK
<1>5. QED
  BY <1>3, <1>4

LEMMA ReleaseIInv ==
  ASSUME IInv, Alive, ~freed, NEW s \in Senders, Release(s)
  PROVE  IInv'
<1> USE DEF IInv
<1>1. /\ snd[s] # "idle" /\ snd' = [snd EXCEPT ![s] = "idle"] /\ Unref
      /\ UNCHANGED <<dir, fdNode, sent, svc>>
  BY DEF Release
<1>2. /\ refCount \in Nat /\ refCount > 0 /\ refCount' = refCount - 1
      /\ status' \in {"ok", "hung", "aborted"} /\ freed' \in BOOLEAN
      /\ status' = "ok" => (freed' <=> refCount' = 0)
      /\ freed' => status' = "ok"
      /\ UNCHANGED <<list, sem, defunct>>
  BY <1>1, UnrefOutcome
<1>3. TypeOK'
  BY <1>1, <1>2 DEF TypeOK, SndStates, list, allocated
<1>4. ListShape' /\ TokensMatch'
  BY <1>1, <1>2 DEF ListShape, TokensMatch, list, taken, allocated, count
<1>5. CountsMatch'
  <2>1. Cardinality(HoldersOf(snd')) = Cardinality(HoldersOf(snd)) - 1
    BY <1>1, HoldersRemove DEF TypeOK
  <2>2. refCount = (IF dir = "registered" THEN 1 ELSE 0)
                    + (IF svc = "ended" THEN 0 ELSE 1) + Cardinality(HoldersOf(snd))
    BY DEF Alive, CountsMatch, holders, HoldersOf
  <2>3. refCount' = (IF dir' = "registered" THEN 1 ELSE 0)
                     + (IF svc' = "ended" THEN 0 ELSE 1) + Cardinality(HoldersOf(snd'))
    <3>1. dir' = dir /\ svc' = svc /\ refCount' = refCount - 1
      BY <1>1, <1>2
    <3>2. QED
      BY <2>1, <2>2, <3>1, HoldersFinite
  <2>4. QED
    BY <2>3 DEF CountsMatch, holders, HoldersOf
<1>6. freed' => dir = "gone" /\ svc = "ended" /\ HoldersOf(snd') = {}
  <2> SUFFICES ASSUME freed'
               PROVE  dir = "gone" /\ svc = "ended" /\ HoldersOf(snd') = {}
    OBVIOUS
  <2> DEFINE c == Cardinality(HoldersOf(snd'))
  <2>1. c \in Nat
    BY HoldersFinite
  <2>2. refCount' = 0 /\ status' = "ok"
    BY <1>2
  <2>3. 0 = (IF dir = "registered" THEN 1 ELSE 0) + (IF svc = "ended" THEN 0 ELSE 1) + c
    BY <1>1, <1>5, <2>2 DEF CountsMatch, holders, HoldersOf
  <2>4. c = 0 /\ svc = "ended"
    BY <2>1, <2>3
  <2>5. HoldersOf(snd') = {}
    BY <2>4, NoHolders
  <2>6. QED
    BY <2>4, <2>5 DEF LeavesWhenDefunct, DefunctWhenGone
<1>7. NoUseAfterFree'
  BY <1>1, <1>2, <1>6 DEF NoUseAfterFree, holders, HoldersOf
<1>8. NoNullDereference' /\ FreedWithLastCount'
  BY <1>1, <1>2 DEF NoNullDereference, FreedWithLastCount, list
<1>9. QED
  BY <1>1, <1>2, <1>3, <1>4, <1>5, <1>7, <1>8 DEF DefunctWhenGone, LeavesWhenDefunct

(* A finalization elsewhere takes a count that nobody gave: the process     *)
(* does not outlive it, or the mailbox stays locked.                        *)
LEMMA DiscardIInv ==
  ASSUME IInv, Alive, ~freed, Discard
  PROVE  IInv' /\ status' # "ok"
<1> USE DEF IInv
<1>1. /\ refCount' = refCount - 1 /\ sent > 0
      /\ UNCHANGED <<list, sem, defunct, freed, dir, fdNode, sent, svc, snd>>
      /\ status' \in {"aborted", "hung", "fault"}
  BY FinalizationOutcomes DEF Discard
<1>2. refCount \in Nat /\ refCount > 0
  BY DEF TypeOK, FreedWithLastCount, Alive
<1>3. TypeOK'
  BY <1>1, <1>2 DEF TypeOK, list, allocated
<1>4. ListShape' /\ TokensMatch'
  BY <1>1 DEF ListShape, TokensMatch, list, taken, allocated, count
<1>5. QED
  BY <1>1, <1>3, <1>4
     DEF CountsMatch, NoNullDereference, NoUseAfterFree, DefunctWhenGone,
         LeavesWhenDefunct, FreedWithLastCount, TypeOK, list

(* dir_unregister's own mb_unref never finalizes: the service thread still  *)
(* holds its count, since the mailbox is not defunct yet.                   *)
LEMMA DirUnrefIInv ==
  ASSUME IInv, Alive, ~freed, DirUnref
  PROVE  IInv' /\ UNCHANGED <<status, freed>>
<1> USE DEF IInv
<1>1. /\ dir = "registered" /\ dir' = "unrefed" /\ refCount' = refCount - 1
      /\ UNCHANGED <<list, sem, defunct, fdNode, sent, svc, snd>>
  BY DEF DirUnref, Unref
<1>2. status = "ok" /\ svc # "ended"
  BY <1>1 DEF Alive, LeavesWhenDefunct, DefunctWhenGone
<1>3. refCount > 1
  BY <1>1, <1>2, HoldersFinite DEF CountsMatch, holders, HoldersOf
<1>4. UNCHANGED <<status, freed>>
  BY <1>3 DEF DirUnref, Unref
<1>5. CountsMatch'
  BY <1>1, <1>2, <1>4, HoldersFinite DEF CountsMatch, holders, HoldersOf
<1>6. TypeOK'
  BY <1>1, <1>3, <1>4 DEF TypeOK, list, allocated
<1>7. ListShape' /\ TokensMatch'
  BY <1>1 DEF ListShape, list, taken, allocated, count, TokensMatch
<1>8. FreedWithLastCount'
  BY <1>1, <1>3, <1>4 DEF FreedWithLastCount, TypeOK
<1>9. QED
  BY <1>1, <1>2, <1>4, <1>5, <1>6, <1>7, <1>8
     DEF NoNullDereference, NoUseAfterFree, DefunctWhenGone, LeavesWhenDefunct, list

LEMMA ShutdownIInv ==
  ASSUME IInv, Alive, ~freed, Shutdown
  PROVE  IInv'
<1> USE DEF IInv
<1>1. /\ dir = "unrefed" /\ dir' = "gone" /\ defunct' = TRUE /\ sem' = sem + 1
      /\ UNCHANGED <<list, refCount, freed, status, fdNode, sent, svc, snd>>
  BY DEF Shutdown
<1>2. ~defunct
  BY <1>1 DEF DefunctWhenGone
<1>3. TypeOK'
  BY <1>1 DEF TypeOK, list, allocated
<1>4. ListShape' /\ count' = count
  BY <1>1 DEF ListShape, list, taken, allocated, count
<1>5. TokensMatch'
  BY <1>1, <1>2, <1>4, CountHead DEF TokensMatch, TypeOK
<1>6. QED
  BY <1>1, <1>2, <1>3, <1>4, <1>5
     DEF Alive, NoNullDereference, NoUseAfterFree, DefunctWhenGone,
         LeavesWhenDefunct, FreedWithLastCount, CountsMatch, holders, list

LEMMA SvcPIInv ==
  ASSUME IInv, Alive, ~freed, SvcP
  PROVE  IInv'
<1> USE DEF IInv
<1>1. /\ svc = "P" /\ sem > 0 /\ sem' = sem - 1 /\ svc' = "check"
      /\ UNCHANGED <<list, defunct, refCount, freed, status, dir, fdNode, sent, snd>>
  BY DEF SvcP
<1>2. TypeOK'
  BY <1>1 DEF TypeOK, SvcStates, list, allocated
<1>3. ListShape' /\ count' = count
  BY <1>1 DEF ListShape, list, taken, allocated, count
<1>4. TokensMatch'
  BY <1>1, <1>3, CountHead DEF TokensMatch, TypeOK
<1>5. QED
  BY <1>1, <1>2, <1>3, <1>4
     DEF Alive, NoNullDereference, NoUseAfterFree, DefunctWhenGone,
         LeavesWhenDefunct, FreedWithLastCount, CountsMatch, holders, list

(* The test of defunct outside the mutex is enough for the step after it:   *)
(* with the mailbox open, the token in hand stands for an entry, and nobody *)
(* else takes entries.                                                      *)
LEMMA SvcCheckIInv ==
  ASSUME IInv, Alive, ~freed, SvcCheck
  PROVE  IInv'
<1> USE DEF IInv
<1>1. /\ svc = "check" /\ svc' = IF defunct THEN "leave" ELSE "dequeue"
      /\ UNCHANGED <<list, sem, defunct, refCount, freed, status, dir, fdNode, sent, snd>>
  BY DEF SvcCheck
<1>2. TypeOK'
  BY <1>1 DEF TypeOK, SvcStates, list, allocated
<1>3. ListShape' /\ TokensMatch'
  BY <1>1 DEF ListShape, list, taken, allocated, count, TokensMatch
<1>4. ~defunct => head # NULL
  BY <1>1, CountHead DEF TokensMatch, TypeOK
<1>5. NoNullDereference'
  BY <1>1, <1>4 DEF NoNullDereference, TypeOK, list
<1>6. QED
  BY <1>1, <1>2, <1>3, <1>5
     DEF Alive, NoUseAfterFree, DefunctWhenGone, LeavesWhenDefunct,
         FreedWithLastCount, CountsMatch, holders, list

LEMMA SvcDequeueIInv ==
  ASSUME IInv, Alive, ~freed, SvcDequeue
  PROVE  IInv'
<1> USE DEF IInv
<1>1. svc = "dequeue" /\ head # NULL
  BY DEF SvcDequeue, NoNullDereference
<1>2. /\ head' = next[head] /\ live' = live \ {head} /\ svc' = "P"
      /\ UNCHANGED <<tail, next, entry, sem, defunct, refCount, freed, status,
                     dir, fdNode, sent, snd>>
  BY <1>1 DEF SvcDequeue
<1>3. TypeOK'
  BY <1>1, <1>2, DequeueKeepsList DEF TypeOK, SvcStates
<1>4. ListShape' /\ TokensMatch'
  BY <1>1, <1>2, DequeueKeepsList, CountHead DEF TokensMatch, TypeOK
<1>5. QED
  BY <1>1, <1>2, <1>3, <1>4
     DEF Alive, NoNullDereference, NoUseAfterFree, DefunctWhenGone,
         LeavesWhenDefunct, FreedWithLastCount, CountsMatch, holders

LEMMA SvcLeaveIInv ==
  ASSUME IInv, Alive, ~freed, SvcLeave
  PROVE  IInv'
<1> USE DEF IInv
<1>1. /\ svc = "leave" /\ svc' = (IF status' = "ok" THEN "ended" ELSE "leave")
      /\ Unref /\ UNCHANGED <<dir, fdNode, sent, snd>>
  BY DEF SvcLeave
<1>2. /\ refCount \in Nat /\ refCount > 0 /\ refCount' = refCount - 1
      /\ status' \in {"ok", "hung", "aborted"} /\ freed' \in BOOLEAN
      /\ status' = "ok" => (freed' <=> refCount' = 0)
      /\ freed' => status' = "ok"
      /\ UNCHANGED <<list, sem, defunct>>
  BY <1>1, UnrefOutcome
<1>3. dir = "gone" /\ defunct /\ status = "ok"
  BY <1>1 DEF LeavesWhenDefunct, DefunctWhenGone, Alive
<1>4. TypeOK'
  BY <1>1, <1>2 DEF TypeOK, SvcStates, list, allocated
<1>5. ListShape' /\ TokensMatch'
  BY <1>1, <1>2 DEF ListShape, TokensMatch, list, taken, allocated, count
<1> DEFINE c == Cardinality(HoldersOf(snd))
<1>6. c \in Nat /\ refCount = 1 + c
  BY <1>1, <1>3, HoldersFinite DEF CountsMatch, holders, HoldersOf
<1>7. CountsMatch'
  BY <1>1, <1>2, <1>3, <1>6 DEF CountsMatch, holders, HoldersOf
<1>8. freed' => HoldersOf(snd) = {}
  BY <1>2, <1>6, NoHolders
<1>9. NoUseAfterFree'
  BY <1>1, <1>2, <1>3, <1>8 DEF NoUseAfterFree, holders, HoldersOf
<1>10. NoNullDereference' /\ FreedWithLastCount'
  BY <1>1, <1>2 DEF NoNullDereference, FreedWithLastCount
<1>11. QED
  BY <1>1, <1>2, <1>3, <1>4, <1>5, <1>7, <1>9, <1>10
     DEF DefunctWhenGone, LeavesWhenDefunct

(* A freed mailbox is reached by those who have not counted: the list of    *)
(* descriptors and messages from it.                                        *)
LEMMA UseFreedIInv ==
  ASSUME IInv, Alive, freed, UseFreed
  PROVE  IInv'
<1> USE DEF IInv
<1>1. /\ status' = "fault" /\ (fdNode = "listed" \/ sent > 0)
      /\ UNCHANGED <<list, sem, defunct, refCount, freed, dir, fdNode, sent, svc, snd>>
  BY DEF UseFreed, NoUseAfterFree
<1>2. TypeOK'
  BY <1>1 DEF TypeOK, list, allocated
<1>3. ListShape' /\ TokensMatch'
  BY <1>1 DEF ListShape, TokensMatch, list, taken, allocated, count
<1>4. QED
  BY <1>1, <1>2, <1>3
     DEF CountsMatch, NoNullDereference, NoUseAfterFree, DefunctWhenGone,
         LeavesWhenDefunct, FreedWithLastCount, holders, list

(* The steps of a mailbox that has not been freed. *)
LEMMA StepIInv ==
  ASSUME IInv, Alive, ~freed, Step
  PROVE  IInv'
<1>1. snd \in [Senders -> SndStates] /\ sent \in 0 .. MaxSent /\ MaxSent \in Nat
  BY MaxSentNat DEF IInv, TypeOK
<1>2. CASE AddNode
  BY <1>2, <1>1, AsideIInv DEF AddNode
<1>3. CASE LoginAck
  BY <1>3, <1>1, InsertIInv DEF LoginAck, Kinds
<1>4. CASE Receipt
  <2>1. /\ InsertEntry("notice") /\ sent' \in 0 .. MaxSent
        /\ UNCHANGED <<defunct, refCount, freed, status, dir, fdNode, svc, snd>>
    BY <1>1, <1>4 DEF Receipt
  <2>2. "notice" \in Kinds
    BY DEF Kinds
  <2>3. QED
    BY <1>1, <2>1, <2>2, InsertIInv
<1>5. CASE RemoveNode
  BY <1>5, <1>1, AsideIInv DEF RemoveNode
<1>6. ASSUME NEW s \in Senders, DirLookup(s) PROVE IInv'
  BY <1>6, LookupIInv DEF DirLookup
<1>7. ASSUME NEW s \in Senders, FDLookup(s) PROVE IInv'
  BY <1>7, LookupIInv DEF FDLookup
<1>8. ASSUME NEW s \in Senders, snd[s] = "holding"
      PROVE  /\ [snd EXCEPT ![s] = "added"] \in [Senders -> SndStates]
             /\ HoldersOf([snd EXCEPT ![s] = "added"]) = HoldersOf(snd)
  BY <1>1, <1>8 DEF HoldersOf, SndStates
<1>9. ASSUME NEW s \in Senders, NEW k \in Kinds, Add(s, k) PROVE IInv'
  <2>1. /\ snd[s] = "holding" /\ InsertEntry(k)
        /\ snd' = [snd EXCEPT ![s] = "added"]
        /\ UNCHANGED <<defunct, refCount, freed, status, dir, fdNode, sent, svc>>
    BY <1>9 DEF Add
  <2>2. /\ snd' \in [Senders -> SndStates] /\ HoldersOf(snd') = HoldersOf(snd)
        /\ sent' \in 0 .. MaxSent
    BY <1>1, <1>8, <2>1
  <2>3. QED
    BY <2>1, <2>2, InsertIInv
<1>10. ASSUME NEW s \in Senders, SendAway(s) PROVE IInv'
  <2>1. sent' \in 0 .. MaxSent /\ UNCHANGED fdNode
    BY <1>1, <1>10 DEF SendAway
  <2>2. QED
    BY <1>10, <1>1, <1>8, <2>1, AsideIInv DEF SendAway, IInv, TypeOK
<1>11. QED
  BY <1>2, <1>3, <1>4, <1>5, <1>6, <1>7, <1>9, <1>10, ReleaseIInv, DiscardIInv,
     DirUnrefIInv, ShutdownIInv, SvcPIInv, SvcCheckIInv, SvcDequeueIInv, SvcLeaveIInv
     DEF Step, SvcStep, DirStep, SenderStep

LEMMA NextIInv == IInv /\ [Next]_vars => IInv'
<1>1. ASSUME IInv, UNCHANGED vars PROVE IInv'
  BY <1>1 DEF vars, IInv, TypeOK, ListShape, TokensMatch, NoNullDereference,
     CountsMatch, NoUseAfterFree, DefunctWhenGone, LeavesWhenDefunct,
     FreedWithLastCount, taken, count, allocated, holders
<1>2. QED
  BY <1>1, StepIInv, UseFreedIInv DEF Next

(* The inductive invariant holds at every state of every behaviour. *)
THEOREM Invariance == Spec => []IInv
<1>1. QED
  BY InitIInv, NextIInv, PTL DEF Spec

(* Every variable keeps its type in every behaviour of a mailbox. *)
THEOREM TypeCorrect == Spec => []TypeOK
<1>1. IInv => TypeOK
  BY DEF IInv
<1>2. QED
  BY <1>1, Invariance, PTL

(* The linked list is well formed after any number of additions and         *)
(* removals: insertEntryNode never follows a stale tail.                    *)
THEOREM ListIsWellFormed == Spec => []ListShape
<1>1. IInv => ListShape
  BY DEF IInv
<1>2. QED
  BY <1>1, Invariance, PTL

(* The semaphore has a token for every entry and for the shutdown.          *)
THEOREM TokensAreExact == Spec => []TokensMatch
<1>1. IInv => TokensMatch
  BY DEF IInv
<1>2. QED
  BY <1>1, Invariance, PTL

(* mb_next_entry never dereferences a null head. *)
THEOREM NoNullHead == Spec => []NoNullDereference
<1>1. IInv => NoNullDereference
  BY DEF IInv
<1>2. QED
  BY <1>1, Invariance, PTL

(* mb_ref and mb_unref match the counted pointers, until a finalization has *)
(* gone wrong.                                                              *)
THEOREM CountsAreExact == Spec => []CountsMatch
<1>1. IInv => CountsMatch
  BY DEF IInv
<1>2. QED
  BY <1>1, Invariance, PTL

(* Whoever holds a counted pointer may use the mailbox: when it is used     *)
(* after it has been freed, it is by way of the list of descriptors or of a *)
(* message to another mailbox.                                              *)
THEOREM NobodyUsesFreed == Spec => []NoUseAfterFree
<1>1. IInv => NoUseAfterFree
  BY DEF IInv
<1>2. QED
  BY <1>1, Invariance, PTL

-----------------------------------------------------------------------------
(* The refinement: what each step of the mailbox is to the queue.           *)
LEMMA PutStep ==
  ASSUME IInv, ~freed, NEW k \in Kinds, InsertEntry(k), mode' = mode
  PROVE  Queue!QNext
<1>1. entry' = Append(entry, k) /\ taken' = taken
  BY InsertKeepsList DEF IInv, InsertEntry
<1>2. mode # "freed"
  BY DEF mode
<1>3. QED
  BY <1>1, <1>2 DEF Queue!QNext, Queue!Put

(* A step that leaves the list, the shutdown and the service thread alone.  *)
LEMMA AsideStep ==
  ASSUME UNCHANGED <<list, defunct, freed, svc>>
  PROVE  UNCHANGED <<entry, taken, mode>>
BY DEF list, taken, allocated, mode

(* Dropping a count may free the mailbox, or change nothing the queue has.  *)
LEMMA UnrefStep ==
  ASSUME IInv, IInv', Alive, ~freed, Unref,
         svc' = svc \/ (svc = "leave" /\ svc' \in {"leave", "ended"})
  PROVE  Queue!QNext \/ UNCHANGED <<entry, taken, mode>>
<1>1. entry' = entry /\ taken' = taken /\ UNCHANGED defunct
  BY DEF Unref, list, taken, allocated
<1>2. CASE freed'
  <2>1. svc' = "ended"
    BY <1>2 DEF IInv, NoUseAfterFree
  <2>2. mode = "stopped" /\ mode' = "freed"
    BY <1>2, <2>1 DEF mode
  <2>3. QED
    BY <1>1, <2>2 DEF Queue!QNext, Queue!Free
<1>3. CASE ~freed'
  BY <1>1, <1>3 DEF mode
<1>4. QED
  BY <1>2, <1>3

LEMMA StepRefines == IInv /\ IInv' /\ [Next]_vars => [Queue!QNext]_(Queue!qvars)
<1> SUFFICES ASSUME IInv, IInv', [Next]_vars
             PROVE  Queue!QNext \/ UNCHANGED <<entry, taken, mode>>
  BY DEF Queue!qvars
<1>1. CASE UNCHANGED vars
  BY <1>1, AsideStep DEF vars, list
<1>2. CASE UseFreed
  BY <1>2, AsideStep DEF UseFreed
<1>3. ASSUME Alive, ~freed, Step
      PROVE  Queue!QNext \/ UNCHANGED <<entry, taken, mode>>
  <2>1. CASE LoginAck
    <3>1. mode' = mode /\ InsertEntry("notice")
      BY <2>1 DEF LoginAck, mode
    <3>2. QED
      BY <1>3, <3>1, PutStep DEF Kinds
  <2>2. CASE Receipt
    <3>1. mode' = mode /\ InsertEntry("notice")
      BY <2>2 DEF Receipt, mode
    <3>2. QED
      BY <1>3, <3>1, PutStep DEF Kinds
  <2>3. ASSUME NEW s \in Senders, NEW k \in Kinds, Add(s, k)
        PROVE  Queue!QNext
    <3>1. mode' = mode /\ InsertEntry(k)
      BY <2>3 DEF Add, mode
    <3>2. QED
      BY <1>3, <3>1, PutStep
  <2>4. ASSUME NEW s \in Senders, DirLookup(s) \/ FDLookup(s) \/ SendAway(s)
        PROVE  UNCHANGED <<entry, taken, mode>>
    BY <2>4, AsideStep DEF DirLookup, FDLookup, SendAway
  <2>5. CASE AddNode \/ RemoveNode \/ Discard
    BY <2>5, AsideStep DEF AddNode, RemoveNode, Discard
  <2>6. ASSUME NEW s \in Senders, Release(s)
        PROVE  Queue!QNext \/ UNCHANGED <<entry, taken, mode>>
    <3>1. Unref /\ svc' = svc
      BY <2>6 DEF Release
    <3>2. QED
      BY <1>3, <3>1, UnrefStep
  <2>7. CASE DirUnref
    <3>1. UNCHANGED freed /\ Unref /\ UNCHANGED svc
      BY <1>3, <2>7, DirUnrefIInv DEF DirUnref
    <3>2. QED
      BY <3>1, AsideStep DEF Unref
  <2>8. CASE Shutdown
    <3>1. /\ svc \notin {"leave", "ended"} /\ ~defunct
          /\ defunct' /\ UNCHANGED <<list, freed, svc>>
      BY <2>8 DEF Shutdown, IInv, LeavesWhenDefunct, DefunctWhenGone
    <3>2. mode = "open" /\ mode' \in {"closing", "closed"}
      BY <1>3, <3>1 DEF mode
    <3>3. QED
      BY <3>1, <3>2 DEF list, taken, allocated, Queue!QNext, Queue!Close
  <2>9. CASE SvcP
    BY <2>9 DEF SvcP, list, taken, allocated, mode
  <2>10. CASE SvcCheck
    <3>1. UNCHANGED <<entry, taken, freed, defunct>>
      BY <2>10 DEF SvcCheck, list, taken, allocated
    <3>2. CASE defunct
      <4>1. mode = "closed" /\ mode' = "stopped"
        BY <1>3, <2>10, <3>1, <3>2 DEF SvcCheck, mode
      <4>2. QED
        BY <3>1, <4>1 DEF Queue!QNext, Queue!Stop
    <3>3. CASE ~defunct
      BY <1>3, <2>10, <3>1, <3>3 DEF SvcCheck, mode
    <3>4. QED
      BY <3>2, <3>3
  <2>11. CASE SvcDequeue
    <3>1. /\ head # NULL /\ svc = "dequeue" /\ svc' = "P"
          /\ head' = next[head] /\ live' = live \ {head}
          /\ UNCHANGED <<tail, next, entry, freed, defunct>>
      BY <2>11 DEF SvcDequeue, IInv, NoNullDereference
    <3>2. taken' = taken + 1 /\ taken < Len(entry)
      BY <3>1, DequeueKeepsList DEF IInv, allocated
    <3>3. /\ mode \in {"open", "closing"}
          /\ mode' = IF mode = "closing" THEN "closed" ELSE mode
      BY <1>3, <3>1 DEF mode
    <3>4. QED
      BY <3>1, <3>2, <3>3 DEF Queue!QNext, Queue!Get
  <2>12. CASE SvcLeave
    BY <1>3, <2>12, UnrefStep DEF SvcLeave
  <2>13. QED
    BY <1>3, <2>1, <2>2, <2>3, <2>4, <2>5, <2>6, <2>7, <2>8, <2>9, <2>10, <2>11, <2>12
       DEF Step, SvcStep, DirStep, SenderStep
<1>4. QED
  BY <1>1, <1>2, <1>3 DEF Next

(* A mailbox is the queue it promises to be: entries come out in order,     *)
(* once, and at most one of them after mb_shutdown.                         *)
THEOREM MailboxIsQueue == Spec => ImplementsQueue
<1>1. Init => Queue!QInit
  BY DEF Init, Queue!QInit, taken, mode, allocated, NULL
<1>2. QED
  BY <1>1, StepRefines, Invariance, PTL DEF Spec, ImplementsQueue, Queue!QSpec
=============================================================================
