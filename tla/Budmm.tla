------------------------------- MODULE Budmm --------------------------------
(***************************************************************************)
(* The buddy allocator of hw3 (src/budmm.c, with bud_sbrk of budutil.c):     *)
(* segregated, circular, doubly linked free lists whose links live inside    *)
(* the free blocks, where the program's data was before.                     *)
(*                                                                          *)
(* The heap is cut into units of one smallest block (order 0 here is          *)
(* ORDER_MIN in the code), four words each: the header, the next and prev     *)
(* links, one word more.  A unit holds these whatever it is used for at the   *)
(* moment: to the program that owns the block the links are payload.  Every   *)
(* turn of the loops of bud_malloc, bud_realloc and bud_free is a step; the   *)
(* library is not thread-safe and one call runs at a time.                   *)
(***************************************************************************)
EXTENDS Integers, FiniteSets, FiniteSetsExt

CONSTANTS
  Top,      \* order of the largest block
  Chunks,   \* largest blocks in the heap: MAX_HEAP_SIZE / MAX_BLOCK_SIZE
  Sizes,    \* requests, in words
  MaxCalls  \* bound: calls of the library

Orders == 0 .. Top
Size[k \in Orders] == IF k = 0 THEN 1 ELSE 2 * Size[k - 1]     \* in units
Words(k) == 4 * Size[k]

ASSUME ConstantsOK ==
  /\ Top \in Nat \ {0} /\ MaxCalls \in Nat
  /\ Chunks \in Nat \ {0} /\ Chunks % 2 = 0
  /\ Sizes \subseteq 1 .. (Words(Top) - 1)

N == Chunks * Size[Top]
Units == 0 .. (N - 1)
Head(k) == -(k + 1)                \* &free_list_heads[k], below the heap
Nodes == Units \cup {Head(k) : k \in Orders}
Null == N
Data == N + 1                      \* anything that is no address of a node
Links == Nodes \cup {Null, Data}
None == N + 2                      \* no block (in op)

Headers == [alloc : {0, 1}, order : Orders \cup {-1}, padded : {0, 1}, rsize : Nat]

VARIABLES
  hdr,     \* header word of each unit
  next,    \* link words of each unit and of the list heads
  prev,
  brk,     \* bud_breakp - bud_heap_startp, in units
  held,    \* blocks the program owns: [id, at, size]
  op,      \* the call that is running
  status,  \* "ok", or how the program ended: "abort", "hang", "wild", "null"
  calls,   \* calls made
  harm     \* history: what a step of bud_free has left wrong, see Harm

heap == <<hdr, next, prev, brk>>
vars == <<hdr, next, prev, brk, held, op, status, calls, harm>>

(* order, want: of the block at `at` or `old` and of the request; old: the    *)
(* block a growing bud_realloc replaces.                                      *)
Idle == [call |-> "none", at |-> None, order |-> 0, want |-> 0, size |-> 0,
         old |-> None]

(* Memory filled with zeros, or with ones, read as a header.                *)
Filled(v) == [alloc |-> IF v = Null THEN 0 ELSE 1, order |-> -1,
              padded |-> IF v = Null THEN 0 ELSE 1, rsize |-> 0]
Fills == {Null, Data}

(* bud_mem_init: empty lists, and a heap area nobody has written.           *)
Init ==
  /\ \E v \in Fills :
       /\ hdr = [u \in Units |-> Filled(v)]
       /\ next = [n \in Nodes |-> IF n \in Units THEN v ELSE n]
       /\ prev = next
  /\ brk = 0 /\ held = {} /\ op = Idle /\ status = "ok" /\ calls = 0
  /\ harm = "none"

Fits(r, k) == r + 1 <= Words(k)
Want(r) == Min({k \in Orders : Fits(r, k)} \cup {Top})
Padded(r, k) == IF r + 1 < Words(k) THEN 1 ELSE 0
Buddy(a, k) == IF (a \div Size[k]) % 2 = 0 THEN a + Size[k] ELSE a - Size[k]

-----------------------------------------------------------------------------
(* The free lists.                                                          *)

Empty(k) == next[Head(k)] = Head(k)

(* The nodes a loop sees that starts at Head(k).next and follows next while  *)
(* it is in the heap; Walk(k)[Cardinality(Nodes)] is where it ends up.       *)
Steps == 0 .. Cardinality(Nodes)
Follow == [n \in Links |-> IF n \in Units THEN next[n] ELSE n]
Walk(k) ==
  LET at[i \in Steps] ==
        IF i = 0 THEN next[Head(k)] ELSE Follow[at[i - 1]]
  IN  at
Listed(k) == LET path == Walk(k) IN {path[n] : n \in DOMAIN path} \cap Units

(* How a loop over list k ends that looks for the head: it comes back to it,  *)
(* it never does, or it follows a link that leads out of the list.            *)
WalkEnds(k) ==
  LET last == Walk(k)[Cardinality(Nodes)]
  IN  IF last = Head(k) THEN "ok" ELSE IF last \in Units THEN "hang" ELSE "wild"

Stop(how) == status' = how /\ UNCHANGED <<heap, held, op, calls, harm>>

(* findLowestAddress: the block it unlinks and the links it leaves.         *)
Lowest(k) ==
  IF next[Head(k)] = prev[Head(k)] THEN next[Head(k)] ELSE Min(Listed(k))
LowestEnds(k) ==
  LET low == Min(Listed(k))
  IN  IF next[Head(k)] = prev[Head(k)] THEN "ok"
      ELSE IF WalkEnds(k) # "ok" THEN WalkEnds(k)
      ELSE IF {prev[low], next[low]} \subseteq Nodes THEN "ok" ELSE "wild"
NextWithoutLowest(k) ==
  IF next[Head(k)] = prev[Head(k)] THEN [next EXCEPT ![Head(k)] = Head(k)]
  ELSE [next EXCEPT ![prev[Lowest(k)]] = next[Lowest(k)]]
PrevLeftAlone(k) ==              \* mutant: afterLowest->prev is not set
  IF next[Head(k)] = prev[Head(k)] THEN [prev EXCEPT ![Head(k)] = Head(k)] ELSE prev
PrevWithoutLowest(k) ==
  IF next[Head(k)] = prev[Head(k)] THEN [prev EXCEPT ![Head(k)] = Head(k)]
  ELSE [prev EXCEPT ![next[Lowest(k)]] = prev[Lowest(k)]]

(* History variable harm: "prev" once bud_free has linked a block and left a  *)
(* prev wrong, "lists" once it has done worse or the heap was used after.      *)
Harm(prevWrong, listsWrong) ==
  harm' = IF harm # "none" \/ listsWrong THEN "lists"
          ELSE IF prevWrong THEN "prev" ELSE "none"

Free(h, k) == [h EXCEPT !.order = k, !.alloc = 0]

-----------------------------------------------------------------------------
(* bud_malloc.                                                              *)

StartMalloc(r) ==
  /\ op = Idle /\ calls < MaxCalls
  /\ op' = [Idle EXCEPT !.call = "malloc", !.want = Want(r), !.size = r]
  /\ calls' = calls + 1
  /\ UNCHANGED <<heap, held, status, harm>>

RoomForOldBreak == brk <= N      \* mutant: tests the old break
Room == brk + Size[Top] <= N
CandidatesExact ==                \* mutant: looks at the list of the right size only
  {k \in {op.want} : ~Empty(k)}
Candidates == {k \in op.want .. Top : ~Empty(k)}

(* bud_sbrk, and the new block is all of the largest list; or ENOMEM, in     *)
(* which case a growing bud_realloc copies to address NULL.                  *)
MoreCore ==
  /\ op.call = "malloc" /\ Candidates = {}
  /\ IF Room
     THEN /\ brk' = brk + Size[Top]
          /\ hdr' = [hdr EXCEPT ![brk] = Free(@, Top)]
          /\ next' = [next EXCEPT ![Head(Top)] = brk, ![brk] = Head(Top)]
          /\ prev' = [prev EXCEPT ![Head(Top)] = brk, ![brk] = Head(Top)]
          /\ Harm(FALSE, FALSE)
          /\ UNCHANGED <<held, op, status, calls>>
     ELSE IF op.old = None
     THEN op' = Idle /\ UNCHANGED <<heap, held, status, calls, harm>>
     ELSE Stop("null")

(* The smallest block that is large enough is still too large: split it.    *)
Split ==
  /\ op.call = "malloc" /\ Candidates # {}
  /\ LET i  == Min(Candidates)
         b1 == Lowest(i)
         b2 == b1 + Size[i - 1]
         h  == Head(i - 1)
         nx == NextWithoutLowest(i)
         pv == PrevWithoutLowest(i)
     IN  /\ i > op.want
         /\ IF LowestEnds(i) # "ok" THEN Stop(LowestEnds(i))
            ELSE IF ~({b1, b2} \subseteq Units) THEN Stop("wild")
            ELSE /\ hdr' = [hdr EXCEPT ![b1] = Free(@, i - 1), ![b2] = Free(@, i - 1)]
                 /\ next' = [nx EXCEPT ![b1] = nx[h], ![b2] = b1, ![h] = b2]
                 /\ prev' = IF nx[h] = h
                            THEN [pv EXCEPT ![b1] = b2, ![b2] = h, ![h] = b1]
                            ELSE [pv EXCEPT ![b1] = b2, ![b2] = h]
                 /\ Harm(FALSE, FALSE)
                 /\ UNCHANGED <<brk, held, op, status, calls>>

(* memcpy of the old block, of the order read before bud_malloc and header     *)
(* first, to the payload of the new one: all words move one place up.  The    *)
(* word a unit keeps no record of, its last, is taken to be like its prev.    *)
CopyInHeap(a) == a + Size[op.order] < N /\ op.old + Size[op.order] <= N
Copied(nx, pv, h, a) ==
  LET size == Size[op.order]
      from(u) == op.old + (u - a)
      word(zero) == IF zero THEN Null ELSE Data
  IN  /\ next' = [n \in Nodes |-> IF n \in a .. (a + size - 1)
                                 THEN word(h[from(n)] = Filled(Null)) ELSE nx[n]]
      /\ prev' = [n \in Nodes |-> IF n \in a .. (a + size - 1) THEN nx[from(n)] ELSE pv[n]]
      /\ hdr' = [u \in Units |-> IF u \in (a + 1) .. (a + size)
                                THEN Filled(word(pv[from(u) - 1] = Null)) ELSE h[u]]

(* A block of the right size: bud_malloc returns it, or bud_realloc copies   *)
(* the old block into it and calls bud_free for that.                        *)
Take ==
  /\ op.call = "malloc" /\ Candidates # {} /\ Min(Candidates) = op.want
  /\ LET a  == Lowest(op.want)
         h  == [hdr EXCEPT ![a].rsize = op.size, ![a].alloc = 1,
                           ![a].padded = Padded(op.size, op.want)]
         nx == NextWithoutLowest(op.want)
         pv == PrevWithoutLowest(op.want)
     IN  IF LowestEnds(op.want) # "ok" THEN Stop(LowestEnds(op.want))
         ELSE IF a \notin Units \/ (op.old # None /\ ~CopyInHeap(a)) THEN Stop("wild")
         ELSE /\ held' = held \cup {[id |-> calls, at |-> a, size |-> op.size]}
              /\ IF op.old = None
                 THEN hdr' = h /\ next' = nx /\ prev' = pv /\ op' = Idle
                 ELSE /\ Copied(nx, pv, h, a)
                      /\ op' = [Idle EXCEPT !.call = "check", !.at = op.old]
              /\ Harm(FALSE, FALSE)
              /\ UNCHANGED <<brk, status, calls>>

(* The program writes its payload, whole units of it with their headers too. *)
Write(b, v) ==
  LET inside == (b.at + 1) .. (b.at + Size[Want(b.size)] - 1)
  IN  /\ op = Idle
      /\ next' = [n \in Nodes |-> IF n \in inside \cup {b.at} THEN v ELSE next[n]]
      /\ prev' = [n \in Nodes |-> IF n \in inside \cup {b.at} THEN v ELSE prev[n]]
      /\ hdr' = [u \in Units |-> IF u \in inside THEN Filled(v) ELSE hdr[u]]
      /\ UNCHANGED <<brk, held, op, status, calls, harm>>

-----------------------------------------------------------------------------
(* bud_free.                                                                *)

(* The tests of the header that bud_free and bud_realloc abort on.          *)
HeaderBad(h) ==
  \/ h.order \notin Orders \/ h.alloc = 0
  \/ h.padded = 0 /\ h.rsize + 1 # Words(h.order)
  \/ h.padded = 1 /\ h.rsize + 1 = Words(h.order)
  \/ h.rsize > Words(h.order)

(* The program passes a block it owns (also as bud_realloc(ptr, 0)).        *)
StartFree(b) ==
  /\ op = Idle /\ calls < MaxCalls
  /\ op' = [Idle EXCEPT !.call = "check", !.at = b.at]
  /\ held' = held \ {b}
  /\ calls' = calls + 1
  /\ UNCHANGED <<heap, status, harm>>

CheckFree ==
  /\ op.call = "check"
  /\ IF HeaderBad(hdr[op.at]) THEN Stop("abort")
     ELSE /\ hdr' = [hdr EXCEPT ![op.at].alloc = 0]
          /\ op' = [op EXCEPT !.call = "free", !.order = hdr[op.at].order]
          /\ UNCHANGED <<next, prev, brk, held, status, calls, harm>>

buddy == Buddy(op.at, op.order)
NeverLinked == FALSE             \* mutant: without the search of budmm.c:656-666
LinkedAlready == op.at \in Listed(op.order)
Done == op' = Idle /\ UNCHANGED <<brk, held, status, calls>>

(* Link a in front of list k, from links nx and pv.  back, own: whether the  *)
(* old first block's prev and a's own prev are set when there is a block.    *)
PutFirst(nx, pv, a, k, back, own) ==
  LET h == Head(k) IN
  /\ next' = [nx EXCEPT ![a] = nx[h], ![h] = a]
  /\ prev' = IF nx[h] = h THEN [pv EXCEPT ![h] = a, ![a] = h]
             ELSE [n \in Nodes |-> IF n = a /\ own THEN h
                                  ELSE IF n = nx[h] /\ back THEN a ELSE pv[n]]

NoBuddy == next[buddy] = Null /\ prev[buddy] = Null
LowerBuddyFree ==                \* mutant: merges with a lower buddy only
  hdr[buddy].alloc = 0 /\ hdr[buddy].order = op.order /\ buddy < op.at
BuddyFree == hdr[buddy].alloc = 0 /\ hdr[buddy].order = op.order

(* The buddy's links are NULL: it is taken to be in use.                    *)
FreeAlone ==
  /\ op.call = "free" /\ NoBuddy
  /\ hdr' = [hdr EXCEPT ![op.at] = IF Empty(op.order) THEN Free(@, op.order) ELSE @]
  /\ PutFirst(next, prev, op.at, op.order, FALSE, TRUE)
  /\ Harm(~Empty(op.order), LinkedAlready)
  /\ Done

(* A largest block is not merged.                                           *)
FreeLargest ==
  /\ op.call = "free" /\ ~NoBuddy /\ BuddyFree /\ op.order = Top
  /\ hdr' = [hdr EXCEPT ![op.at] = Free(@, Top)]
  /\ IF next[Head(Top)] \in Nodes
     THEN /\ PutFirst(next, prev, op.at, Top, TRUE, TRUE)
          /\ Harm(FALSE, LinkedAlready)
          /\ Done
     ELSE Stop("wild")

(* How the search for the buddy in the list of op.order ends; the search     *)
(* does not stop at the head.  Its `prev` is at first the list's last block.  *)
Single == next[Head(op.order)] = prev[Head(op.order)]
BuddyInFront == ~Single /\ next[Head(op.order)] = buddy
BeforeBuddy ==
  LET path == Walk(op.order)
      n == Min({j \in DOMAIN path : path[j] = buddy})
  IN  IF n = 0 THEN prev[Head(op.order)] ELSE path[n - 1]
SearchEnds ==
  IF Empty(op.order) \/ Single THEN "ok"
  ELSE IF buddy \notin Listed(op.order)
       THEN IF WalkEnds(op.order) = "wild" THEN "wild" ELSE "hang"
  ELSE IF {BeforeBuddy, next[buddy]} \subseteq Nodes THEN "ok" ELSE "wild"

(* The buddy is free and of the same order: unlink it, and the two are one    *)
(* block of the next order, which is linked now only if it begins with the    *)
(* buddy.                                                                     *)
FreeMerge ==
  /\ op.call = "free" /\ ~NoBuddy /\ BuddyFree /\ op.order < Top
  /\ LET h    == Head(op.order)
         left == Min({op.at, buddy})
         k    == op.order + 1
         nx   == IF Empty(op.order) THEN next
                 ELSE IF Single THEN [next EXCEPT ![h] = h]
                 ELSE [next EXCEPT ![BeforeBuddy] = next[buddy], ![buddy] = Null]
         pv   == IF Empty(op.order) THEN prev
                 ELSE IF Single THEN [prev EXCEPT ![h] = h]
                 ELSE [prev EXCEPT ![next[buddy]] = BeforeBuddy, ![buddy] = Null]
     IN  IF SearchEnds # "ok" THEN Stop(SearchEnds)
         ELSE /\ hdr' = [hdr EXCEPT ![left] = Free(@, k)]
              /\ IF left = buddy THEN PutFirst(nx, pv, left, k, FALSE, TRUE)
                 ELSE next' = nx /\ prev' = pv
              /\ Harm(left = buddy /\ ~Empty(k), BuddyInFront \/ LinkedAlready)
              /\ op' = [op EXCEPT !.at = left, !.order = k]
              /\ UNCHANGED <<brk, held, status, calls>>

(* The buddy is in use or split: link the block unless it is linked.        *)
FreeLast ==
  /\ op.call = "free" /\ ~NoBuddy /\ ~BuddyFree
  /\ IF LinkedAlready THEN UNCHANGED <<hdr, next, prev, harm>> /\ Done
     ELSE IF WalkEnds(op.order) # "ok" THEN Stop(WalkEnds(op.order))
     ELSE /\ hdr' = [hdr EXCEPT ![op.at] = Free(@, op.order)]
          /\ PutFirst(next, prev, op.at, op.order, TRUE, FALSE)
          /\ Harm(~Empty(op.order) /\ prev[op.at] # Head(op.order), FALSE)
          /\ Done

-----------------------------------------------------------------------------
(* bud_realloc.                                                             *)

StartRealloc(b, r) ==
  LET h == hdr[b.at]
      call == [Idle EXCEPT !.want = Want(r), !.size = r]
  IN  /\ op = Idle /\ calls < MaxCalls
      /\ IF HeaderBad(h) \/ Want(h.rsize) # h.order THEN Stop("abort")
         ELSE /\ calls' = calls + 1
              /\ held' = (held \ {b}) \cup
                         IF Want(r) = h.order THEN {[b EXCEPT !.size = r]} ELSE {}
              /\ op' = CASE Want(r) = h.order -> Idle
                         [] Want(r) > h.order -> [call EXCEPT !.call = "malloc", !.old = b.at,
                                                              !.order = h.order]
                         [] Want(r) < h.order -> [call EXCEPT !.call = "shrink", !.at = b.at,
                                                              !.order = h.order]
              /\ UNCHANGED <<heap, status, harm>>

(* Halve the block; the upper half is free.                                 *)
Shrink ==
  /\ op.call = "shrink"
  /\ LET k  == op.order - 1
         b2 == op.at + Size[k]
         h  == [hdr EXCEPT ![op.at].order = k, ![b2] = Free(@, k)]
     IN  IF next[Head(k)] \notin Nodes \/ b2 \notin Units THEN Stop("wild")
         ELSE /\ PutFirst(next, prev, b2, k, TRUE, TRUE)
              /\ IF k > op.want
                 THEN hdr' = h /\ op' = [op EXCEPT !.order = k] /\ UNCHANGED held
                 ELSE /\ hdr' = [h EXCEPT ![op.at].padded = Padded(op.size, k),
                                          ![op.at].rsize = op.size]
                      /\ held' = held \cup {[id |-> calls, at |-> op.at, size |-> op.size]}
                      /\ op' = Idle
              /\ Harm(FALSE, FALSE)
              /\ UNCHANGED <<brk, status, calls>>

Next ==
  /\ status = "ok"
  /\ \/ \E r \in Sizes : StartMalloc(r)
     \/ \E b \in held : StartFree(b) \/ \E r \in Sizes : StartRealloc(b, r)
     \/ \E b \in held, v \in Fills : Write(b, v)
     \/ MoreCore \/ Split \/ Take
     \/ CheckFree \/ FreeAlone \/ FreeLargest \/ FreeMerge \/ FreeLast
     \/ Shrink

Spec == Init /\ [][Next]_vars

-----------------------------------------------------------------------------
(* Properties.                                                              *)

(* The variables hold what they are declared for: every link is a node of    *)
(* the allocator or data of the program (the fields of budmm.h).             *)
TypeOK ==
  /\ hdr \in [Units -> Headers]
  /\ next \in [Nodes -> Links]
  /\ prev \in [Nodes -> Links]
  /\ brk \in {c * Size[Top] : c \in 0 .. Chunks}
  /\ \A b \in held : b.id \in 1 .. MaxCalls /\ b.at \in Units /\ b.size \in Sizes
  /\ op.call \in {"none", "malloc", "check", "free", "shrink"}
  /\ status \in {"ok", "abort", "hang", "wild", "null"}
  /\ harm \in {"none", "prev", "lists"}
  /\ calls \in 0 .. MaxCalls

Span(a, k) == a .. (a + Size[k] - 1)

(* The blocks the program owns, with those a running call has taken in hand. *)
InUse ==
  {[at |-> b.at, order |-> Want(b.size)] : b \in held}
    \cup (IF op.old = None THEN {} ELSE {[at |-> op.old, order |-> op.order]})
    \cup (IF op.call = "check" THEN {[at |-> op.at, order |-> hdr[op.at].order]} ELSE {})
    \cup (IF op.call = "shrink" THEN {[at |-> op.at, order |-> op.order]} ELSE {})
Freeing ==
  IF op.call = "free" /\ op.at \notin Listed(op.order)
  THEN {[at |-> op.at, order |-> op.order]} ELSE {}
FreeBlocks == UNION {{[at |-> a, order |-> k] : a \in Listed(k)} : k \in Orders}

(* Following next from a head leads back to it, through blocks of that order  *)
(* that are marked free, each at a multiple of its size.                      *)
ListsOK ==
  \A k \in Orders :
    /\ WalkEnds(k) = "ok"
    /\ \A a \in Listed(k) : hdr[a].alloc = 0 /\ hdr[a].order = k /\ a % Size[k] = 0

(* prev is the inverse of next on every list.                               *)
LinksOK ==
  \A k \in Orders : \A n \in Listed(k) \cup {Head(k)} : prev[next[n]] = n

(* Every unit obtained from bud_sbrk is in exactly one block, and a block in  *)
(* use has the header bud_free wants to see.                                 *)
Tiled ==
  LET blocks == InUse \cup Freeing \cup FreeBlocks
  IN  /\ \A u \in 0 .. (brk - 1) :
           Cardinality({b \in blocks : u \in Span(b.at, b.order)}) = 1
      /\ UNION {Span(b.at, b.order) : b \in blocks} \subseteq 0 .. (brk - 1)
      /\ Cardinality(held) = Cardinality({b.at : b \in held})
UsedOK ==
  \A b \in InUse :
    /\ hdr[b.at].order = b.order
    /\ ~HeaderBad(hdr[b.at]) \/ (op.call = "shrink" /\ b.at = op.at)

HeapOK == ListsOK /\ LinksOK /\ Tiled /\ UsedOK

(* Until bud_free links a block into a list that has blocks (or unlinks the   *)
(* first of several), the lists are in order after every step of every call,  *)
(* every unit obtained is in exactly one block, and no legal call aborts,      *)
(* loops for ever or follows a link out of the lists, whatever the program     *)
(* wrote where the links were.  In particular bud_malloc splits only into an    *)
(* empty list (the else of budmm.c:191 would leave a prev wrong), and a         *)
(* bud_realloc that shrinks keeps the lists.  "null": bud_realloc copies to     *)
(* NULL when bud_malloc has no memory for it.                                   *)
HeapIntact == harm = "none" => HeapOK /\ status \in {"ok", "null"}

(* The step of bud_free that leaves a prev link wrong (the old first block's   *)
(* at budmm.c:519-521 and 623-625, the freed block's at 670-672) still leaves  *)
(* every list whole along next, and no unit lost or in two blocks: until a     *)
(* block is unlinked again, nothing but prev is wrong.                         *)
ListsIntact == harm = "prev" => ListsOK /\ Tiled /\ UsedOK

(* Between calls no free block below the largest order has a free buddy:       *)
(* bud_free merges as far as it can, in spite of its test for NULL links        *)
(* (budmm.c:505), and shrinking creates no mergeable pair.                      *)
Coalesced ==
  op = Idle /\ harm # "lists" =>
    \A b \in FreeBlocks :
      b.order < Top => [b EXCEPT !.at = Buddy(b.at, b.order)] \notin FreeBlocks

(* Until a list is harmed, bud_malloc, bud_realloc and bud_free keep the       *)
(* promise of Allocator: what bud_malloc returns is disjoint from all that is  *)
(* in use, the old block of a growing bud_realloc included, and ENOMEM means   *)
(* that no aligned region of the size is left anywhere in the heap.            *)
Abstract == INSTANCE Allocator WITH
  regions <- InUse,
  wanted <- IF op.call = "malloc" THEN op.want ELSE None,
  void <- harm = "lists"
KeepsPromise == Abstract!ASpec

(* budmm.h:96-97 of bud_malloc: a pointer to a valid region of memory of the   *)
(* requested size is returned.  No two regions the program owns overlap.       *)
BlocksDisjoint ==
  \A b, c \in held :
    b # c => Span(b.at, Want(b.size)) \cap Span(c.at, Want(c.size)) = {}
=============================================================================
