---------------------------- MODULE ServerProofs ----------------------------
(***************************************************************************)
(* Proofs about Server, for any finite set of connections and any number    *)
(* of handles, descriptors, requests and mailboxes.                         *)
(***************************************************************************)
EXTENDS Server, FiniteSetTheorems, SequenceTheorems,
        WellFoundedInduction, TLAPS

-----------------------------------------------------------------------------
(* The inductive invariant.                                                 *)

DirNodes == [name : Handles, fd : Fds, box : Boxes]
FdNodes == [fd : Fds, box : Boxes]
Mailboxes == [name : Handles, ref : Int, defunct : BOOLEAN, queue : Seq(Entries),
              freed : BOOLEAN, busy : BOOLEAN]
Threads == [pc : ClientPcs, fd : Fds \cup {NULL},
            hdr : {"garbage", "noop", "payload", "USERS", "LOGOUT"},
            req : [type : AllInputs \cup {"none"},
                   handle : Handles \cup {"none", "listed"},
                   conn : Conns \cup {"none"}],
            rcv : Pointers, snd : Pointers]
Services == [pc : SvcPcs, fd : Fds \cup {NULL},
             entry : {<<>>} \cup {<<e>> : e \in Entries}]
Crashes == {"none", "abort", "fault", "stale", "counter", "sigpipe"}
Mains == {"accepting", "terminating", "waiting", "returned", "finalized",
          "dirfini", "exited"}

(* TypeOK of Server with the lists as sequences, and without what only the  *)
(* other parts give: counts are numbers, natural ones by CountsMatch.       *)
Typed ==
  /\ peer \in [Conns -> {"new", "open", "gone"}]
  /\ budget \in 0 .. MaxReqs
  /\ owed \in [Conns -> Int]
  /\ sock \in [Fds -> [st : {"free", "open", "shut"}, conn : Conns \cup {"none"}]]
  /\ thr \in [Conns -> Threads]
  /\ svc \in [Boxes -> Services]
  /\ dir \in Seq(DirNodes) /\ dirDefunct \in {"no", "yes", "freed"}
  /\ fds \in Seq(FdNodes) /\ fdLocked \in BOOLEAN
  /\ box \in Seq(Mailboxes) /\ Len(box) <= MaxBoxes
  /\ counter \in Int /\ tcsem \in Nat
  /\ main \in Mains
  /\ crash \in Crashes

(* Where a client service thread has no mailbox in hand; where the mailbox  *)
(* of a login is its own; where it owns one that the list of descriptors    *)
(* does not hold.                                                           *)
EmptyHanded == {"unborn", "created", "recv", "register", "remove", "shut", "close",
                "users", "lookup", "decr", "unlock", "done"}
LoggingIn == {"addnode", "loginack", "spawn"}
Owning == {"addnode", "unregister"}

(* The locals of a client service thread in each part of handle_packet.     *)
ThreadOK(c) ==
  /\ thr[c].pc # "unborn" => thr[c].fd \in Fds
  /\ {thr[c].rcv, thr[c].snd} \subseteq DOMAIN box \cup {NULL}
  /\ thr[c].pc \in EmptyHanded => thr[c].rcv = NULL /\ thr[c].snd = NULL
  /\ thr[c].pc = "register" => thr[c].req.type = "LOGIN" /\ thr[c].req.handle \in Handles
  /\ thr[c].pc = "lookup" => thr[c].req.type = "SEND"
  /\ thr[c].pc \in LoggingIn =>
       /\ thr[c].req.type = "LOGIN" /\ thr[c].rcv # NULL /\ thr[c].snd = NULL
       /\ svc[thr[c].rcv].pc = "unborn"
  /\ thr[c].pc \in {"unborn", "created", "recv", "remove", "unregister"}
       => thr[c].req.type # "SEND"
  /\ thr[c].pc = "unregister" => thr[c].rcv # NULL /\ thr[c].snd = NULL
  /\ thr[c].pc \notin LoggingIn \cup {"unregister"} /\ thr[c].rcv # NULL
       => thr[c].req.type = "SEND"
  /\ thr[c].pc \in {"readnode", "message", "unrefrcv"} => thr[c].rcv # NULL
  /\ thr[c].pc \in {"readself", "notice", "message", "unrefsnd"} => thr[c].snd # NULL
  /\ thr[c].pc \in {"nack", "readnode", "findself", "unrefrcv", "hung"} => thr[c].snd = NULL
  /\ thr[c].pc = "ack" /\ thr[c].snd = NULL => thr[c].rcv = NULL

Locals ==
  /\ \A c \in Conns : ThreadOK(c)
  /\ \A c \in Conns : peer[c] = "new" => thr[c].pc = "unborn"
  /\ \A c, d \in Conns : /\ thr[c].pc \in LoggingIn /\ thr[d].pc \in LoggingIn
                         /\ thr[c].rcv = thr[d].rcv
                         => c = d
  /\ \A b \in Boxes : b \notin DOMAIN box => svc[b].pc = "unborn"

(* The directory: names are registered once, by live mailboxes that carry   *)
(* them, and no longer than dir_fini lets them; a shutdown has reached      *)
(* every socket.                                                            *)
Gone == main \in {"dirfini", "exited"}

Registered ==
  /\ \A i, j \in DOMAIN dir : dir[i].name = dir[j].name => i = j
  /\ \A i \in DOMAIN dir :
       /\ dir[i].box \in DOMAIN box
       /\ box[dir[i].box].name = dir[i].name
       /\ ~box[dir[i].box].freed /\ ~box[dir[i].box].busy /\ ~box[dir[i].box].defunct
  /\ dirDefunct = "freed" => Gone
  /\ dirDefunct = "no" <=> main = "accepting"
  /\ Gone => dir = <<>>
  /\ ShutdownReachesAll

(* A mailbox with a node is in the hands of the list of descriptors or of   *)
(* one thread between that list and the directory, never of two.            *)
OneOwner ==
  /\ \A i \in DOMAIN fds : fds[i].box \in DOMAIN box
  /\ \A i, j \in DOMAIN fds : fds[i].box = fds[j].box => i = j
  /\ \A c \in Conns : thr[c].pc \in Owning =>
       \A i \in DOMAIN fds : fds[i].box # thr[c].rcv
  /\ \A c, d \in Conns : /\ thr[c].pc \in Owning /\ thr[d].pc \in Owning
                         /\ thr[c].rcv = thr[d].rcv
                         => c = d
  /\ ~Gone => /\ \A i \in DOMAIN fds : fds[i].box \in DirBoxes
              /\ \A c \in Conns : thr[c].pc \in Owning => thr[c].rcv \in DirBoxes

(* A registered mailbox has its service thread, so that the count of the    *)
(* directory is never the only one, and no finalization of another comes to *)
(* it; a mailbox that a finalization has left locked has no count left.     *)
Ending == {"unref", "decr", "unlock", "done", "hung"}

Serving ==
  /\ \A b \in DirBoxes : svc[b].pc \notin Ending
  /\ \A b \in DOMAIN box : box[b].busy => box[b].ref = 0

IInv == Typed /\ Locals /\ Registered /\ OneOwner /\ Serving /\ CountsMatch

-----------------------------------------------------------------------------
(* Sequences. *)

LEMMA SeqOfFunction ==
  ASSUME NEW S, NEW n \in Nat, NEW f \in [1 .. n -> S]
  PROVE  f \in Seq(S) /\ Len(f) = n /\ DOMAIN f = 1 .. n
BY SeqDef

LEMMA PlaceBehind ==
  ASSUME NEW i \in Nat, NEW j \in Nat, NEW n \in Nat, 1 <= i, i <= j, j <= n - 1
  PROVE  /\ j - i + 1 \in 1 .. (n - i) /\ j \in 1 .. (i - 1) + (n - i) /\ ~(j <= i - 1)
         /\ j - (i - 1) = j - i + 1
OBVIOUS

(* RemoveAt takes one element out and moves those behind it up by one.      *)
LEMMA Removed ==
  ASSUME NEW S, NEW s \in Seq(S), NEW i \in DOMAIN s
  PROVE  /\ RemoveAt(s, i) \in Seq(S)
         /\ \A j \in DOMAIN RemoveAt(s, i) :
              \E k \in DOMAIN s \ {i} : RemoveAt(s, i)[j] = s[k]
         /\ \A k \in DOMAIN s \ {i} :
              \E j \in DOMAIN RemoveAt(s, i) : RemoveAt(s, i)[j] = s[k]
         /\ \A a, b \in DOMAIN RemoveAt(s, i) : a # b =>
              \E k, l \in DOMAIN s \ {i} :
                k # l /\ RemoveAt(s, i)[a] = s[k] /\ RemoveAt(s, i)[b] = s[l]
<1> DEFINE n == Len(s)
           p == SubSeq(s, 1, i - 1)
           q == SubSeq(s, i + 1, n)
           r == RemoveAt(s, i)
<1>1. n \in Nat /\ i \in 1 .. n /\ DOMAIN s = 1 .. n /\ \A j \in 1 .. n : s[j] \in S
  BY LenProperties
<1>2. /\ p \in Seq(S) /\ Len(p) = i - 1
      /\ \A j \in 1 .. (i - 1) : p[j] = s[j]
  <2>1. \A j \in 1 .. (i - 1) : s[j] \in S
    BY <1>1
  <2>2. /\ p \in Seq(S)
        /\ Len(p) = IF 1 <= i - 1 THEN (i - 1) - 1 + 1 ELSE 0
        /\ \A j \in 1 .. (i - 1) - 1 + 1 : p[j] = s[1 + j - 1]
    BY <1>1, <2>1, SubSeqProperties
  <2>3. QED
    BY <1>1, <2>2
<1>3. /\ q \in Seq(S) /\ Len(q) = n - i
      /\ \A j \in 1 .. (n - i) : q[j] = s[i + j]
  <2>1. \A j \in (i + 1) .. n : s[j] \in S
    BY <1>1
  <2>2. /\ q \in Seq(S)
        /\ Len(q) = IF i + 1 <= n THEN n - (i + 1) + 1 ELSE 0
        /\ \A j \in 1 .. n - (i + 1) + 1 : q[j] = s[i + 1 + j - 1]
    BY <1>1, <2>1, SubSeqProperties
  <2> HIDE DEF q, n
  <2>3. n - (i + 1) + 1 = n - i /\ \A j \in 1 .. (n - i) : i + 1 + j - 1 = i + j
    BY <1>1
  <2>4. QED
    BY <1>1, <2>2, <2>3
<1>4. /\ r \in Seq(S) /\ Len(r) = n - 1 /\ DOMAIN r = 1 .. (n - 1)
      /\ \A j \in 1 .. (n - 1) : r[j] = IF j < i THEN s[j] ELSE s[j + 1]
  <2> HIDE DEF p, q
  <2>1. r = p \o q
    BY DEF RemoveAt, p, q
  <2>2. /\ p \o q \in Seq(S) /\ Len(p \o q) = Len(p) + Len(q)
        /\ \A j \in 1 .. Len(p) + Len(q) :
             (p \o q)[j] = IF j <= Len(p) THEN p[j] ELSE q[j - Len(p)]
    BY <1>2, <1>3, ConcatProperties
  <2>3. Len(r) = n - 1 /\ r \in Seq(S)
    BY <1>1, <1>2, <1>3, <2>1, <2>2
  <2>4. DOMAIN r = 1 .. (n - 1)
    BY <2>3, LenProperties
  <2>5. ASSUME NEW j \in 1 .. (n - 1) PROVE r[j] = IF j < i THEN s[j] ELSE s[j + 1]
    <3>1. CASE j < i
      <4>1. j \in 1 .. Len(p) + Len(q) /\ j <= Len(p) /\ j \in 1 .. (i - 1)
        BY <1>1, <1>2, <1>3, <3>1
      <4>2. r[j] = p[j]
        BY <2>1, <2>2, <4>1
      <4>3. p[j] = s[j]
        BY <1>2, <4>1
      <4>4. QED
        BY <3>1, <4>2, <4>3
    <3>2. CASE ~(j < i)
      <4> HIDE DEF n, r
      <4>1. /\ j - Len(p) = j - i + 1 /\ j - i + 1 \in 1 .. (n - i)
            /\ j \in 1 .. Len(p) + Len(q) /\ ~(j <= Len(p))
        <5>1. Len(p) = i - 1 /\ Len(q) = n - i /\ i \in 1 .. n /\ n \in Nat
          BY <1>1, <1>2, <1>3
        <5>2. j \in Nat /\ i <= j /\ j <= n - 1 /\ i \in Nat /\ 1 <= i
          BY <3>2, <5>1
        <5>3. /\ j - i + 1 \in 1 .. (n - i) /\ j \in 1 .. (i - 1) + (n - i) /\ ~(j <= i - 1)
              /\ j - (i - 1) = j - i + 1
          BY <5>1, <5>2, PlaceBehind
        <5>4. QED
          BY <5>1, <5>3
      <4>2. r[j] = q[j - i + 1]
        <5>1. (p \o q)[j] = q[j - Len(p)]
          BY <2>2, <4>1
        <5>2. QED
          BY <2>1, <4>1, <5>1
      <4>3. q[j - i + 1] = s[i + (j - i + 1)] /\ i + (j - i + 1) = j + 1
        BY <1>1, <1>3, <4>1
      <4>4. QED
        BY <3>2, <4>2, <4>3
    <3>3. QED
      BY <3>1, <3>2
  <2>6. QED
    BY <2>3, <2>4, <2>5
<1> HIDE DEF n, p, q, r
<1> DEFINE Old(j) == IF j < i THEN j ELSE j + 1
<1>5. ASSUME NEW j \in DOMAIN r
      PROVE  Old(j) \in DOMAIN s \ {i} /\ r[j] = s[Old(j)]
  BY <1>1, <1>4
<1>6. ASSUME NEW k \in DOMAIN s \ {i}
      PROVE  \E j \in DOMAIN r : r[j] = s[k]
  <2>1. CASE k < i
    BY <1>1, <1>4, <2>1
  <2>2. CASE ~(k < i)
    <3>1. k - 1 \in DOMAIN r /\ ~(k - 1 < i) /\ (k - 1) + 1 = k
      BY <1>1, <1>4, <2>2
    <3>2. r[k - 1] = s[k]
      BY <1>4, <3>1
    <3>3. QED
      BY <3>1, <3>2
  <2>3. QED
    BY <2>1, <2>2
<1>7. ASSUME NEW a \in DOMAIN r, NEW b \in DOMAIN r, a # b
      PROVE  \E k, l \in DOMAIN s \ {i} :
               k # l /\ r[a] = s[k] /\ r[b] = s[l]
  <2>1. Old(a) # Old(b)
    BY <1>1, <1>4, <1>7
  <2>2. QED
    BY <1>5, <2>1
<1>8. QED
  BY <1>4, <1>5, <1>6, <1>7 DEF r

(* The first of some positions, which CHOOSE picks. *)
LEMMA NatMinimum ==
  ASSUME NEW S, S \subseteq Nat, S # {}
  PROVE  \E n \in S : \A m \in S : n <= m
<1> DEFINE R == OpToRel(<, Nat)
<1>1. IsWellFoundedOn(R, Nat)
  BY NatLessThanWellFounded
<1>2. \E n \in S : \A m \in S : ~(<<m, n>> \in R)
  <2> HIDE DEF R
  <2>1. QED
    BY <1>1, WFMin
<1>3. \A m, n \in Nat : m < n => <<m, n>> \in R
  BY DEF OpToRel
<1> HIDE DEF R
<1>4. PICK n \in S : \A m \in S : ~(<<m, n>> \in R)
  BY <1>2
<1>5. ASSUME NEW m \in S PROVE n <= m
  <2>1. m \in Nat /\ n \in Nat /\ ~(<<m, n>> \in R)
    BY <1>4
  <2>2. ~(m < n)
    BY <1>3, <2>1
  <2>3. QED
    BY <2>1, <2>2
<1>6. QED
  BY <1>5

LEMMA FirstOf ==
  ASSUME NEW S, S \subseteq Nat, S # {}
  PROVE  (CHOOSE i \in S : \A j \in S : i <= j) \in S
BY NatMinimum

-----------------------------------------------------------------------------
(* Counting.  Held of Server is what the directory, the mailbox's own       *)
(* thread and the requests under way have of a mailbox.                     *)

SndOf(b) == {c \in Conns : thr[c].snd = b}
RcvOf(b) == {c \in Conns : thr[c].rcv = b /\ thr[c].req.type = "SEND"}

InDir(b) == IF b \in DirBoxes THEN 1 ELSE 0
Alive(b) == IF svc[b].pc \in {"decr", "unlock", "done", "hung"} THEN 0 ELSE 1
InHands(b) == Cardinality(SndOf(b)) + Cardinality(RcvOf(b))
InHand(c, b) == (IF thr[c].snd = b THEN 1 ELSE 0)
                + (IF thr[c].rcv = b /\ thr[c].req.type = "SEND" THEN 1 ELSE 0)

LEMMA HeldIs ==
  ASSUME NEW b
  PROVE  /\ Held(b) = InDir(b) + Alive(b) + InHands(b)
         /\ Held(b)' = InDir(b)' + Alive(b)' + InHands(b)'
         /\ InHands(b) \in Nat /\ InHands(b)' \in Nat
<1>1. /\ IsFiniteSet(SndOf(b)) /\ IsFiniteSet(RcvOf(b))
      /\ IsFiniteSet(SndOf(b)') /\ IsFiniteSet(RcvOf(b)')
  BY ConstantsOK, FS_Subset DEF SndOf, RcvOf
<1>2. /\ Cardinality(SndOf(b)) \in Nat /\ Cardinality(RcvOf(b)) \in Nat
      /\ Cardinality(SndOf(b)') \in Nat /\ Cardinality(RcvOf(b)') \in Nat
  BY <1>1, FS_CardinalityType
<1>3. /\ Held(b) = InDir(b) + Alive(b) + Cardinality(SndOf(b)) + Cardinality(RcvOf(b))
      /\ Held(b)' = InDir(b)' + Alive(b)' + Cardinality(SndOf(b)') + Cardinality(RcvOf(b)')
  BY DEF Held, InDir, Alive, SndOf, RcvOf
<1>4. /\ InDir(b) \in Nat /\ Alive(b) \in Nat
      /\ InDir(b)' \in Nat /\ Alive(b)' \in Nat
  BY DEF InDir, Alive
<1>5. /\ InHands(b) = Cardinality(SndOf(b)) + Cardinality(RcvOf(b))
      /\ InHands(b)' = Cardinality(SndOf(b)') + Cardinality(RcvOf(b)')
  BY DEF InHands
<1>6. QED
  BY <1>2, <1>3, <1>4, <1>5

(* Whoever has something in hand is counted. *)
LEMMA CountedInHands ==
  ASSUME NEW b, NEW c \in Conns
  PROVE  InHands(b) >= InHand(c, b)
<1>1. IsFiniteSet(SndOf(b)) /\ IsFiniteSet(RcvOf(b))
  BY ConstantsOK, FS_Subset DEF SndOf, RcvOf
<1>2. Cardinality(SndOf(b)) \in Nat /\ Cardinality(RcvOf(b)) \in Nat
  BY <1>1, FS_CardinalityType
<1>3. Cardinality(SndOf(b)) >= IF thr[c].snd = b THEN 1 ELSE 0
  <2>1. thr[c].snd = b => SndOf(b) # {}
    BY DEF SndOf
  <2>2. QED
    BY <1>1, <1>2, <2>1, FS_EmptySet
<1>4. Cardinality(RcvOf(b)) >= IF thr[c].rcv = b /\ thr[c].req.type = "SEND" THEN 1 ELSE 0
  <2>1. thr[c].rcv = b /\ thr[c].req.type = "SEND" => RcvOf(b) # {}
    BY DEF RcvOf
  <2>2. QED
    BY <1>1, <1>2, <2>1, FS_EmptySet
<1>5. QED
  BY <1>2, <1>3, <1>4 DEF InHands, InHand

(* Sets that differ in one element at most. *)
LEMMA CardinalityDiffers ==
  ASSUME NEW S, NEW T, NEW c, IsFiniteSet(S), IsFiniteSet(T), S \ {c} = T \ {c}
  PROVE  Cardinality(T) = Cardinality(S) - (IF c \in S THEN 1 ELSE 0)
                                         + (IF c \in T THEN 1 ELSE 0)
<1>1. Cardinality(S) \in Nat /\ Cardinality(T) \in Nat
  BY FS_CardinalityType
<1>2. Cardinality(S \ {c}) = IF c \in S THEN Cardinality(S) - 1 ELSE Cardinality(S)
  BY FS_RemoveElement
<1>3. Cardinality(T \ {c}) = IF c \in T THEN Cardinality(T) - 1 ELSE Cardinality(T)
  BY FS_RemoveElement
<1>4. Cardinality(S \ {c}) = Cardinality(T \ {c})
  OBVIOUS
<1>5. CASE c \in S
  BY <1>1, <1>2, <1>3, <1>4, <1>5
<1>6. CASE c \notin S
  BY <1>1, <1>2, <1>3, <1>4, <1>6
<1>7. QED
  BY <1>5, <1>6

(* A step of one thread changes what is in hand by what that thread has.    *)
LEMMA Recount ==
  ASSUME NEW b, NEW c \in Conns, \A d \in Conns \ {c} : thr'[d] = thr[d]
  PROVE  InHands(b)' = InHands(b) - InHand(c, b) + InHand(c, b)'
<1> DEFINE S == SndOf(b)
           R == RcvOf(b)
<1>1. IsFiniteSet(S) /\ IsFiniteSet(R) /\ IsFiniteSet(S') /\ IsFiniteSet(R')
  BY ConstantsOK, FS_Subset DEF SndOf, RcvOf
<1>2. /\ Cardinality(S) \in Nat /\ Cardinality(R) \in Nat
      /\ Cardinality(S') \in Nat /\ Cardinality(R') \in Nat
  BY <1>1, FS_CardinalityType
<1>3. S \ {c} = S' \ {c} /\ R \ {c} = R' \ {c}
  BY DEF SndOf, RcvOf
<1>4. /\ c \in S <=> thr[c].snd = b
      /\ c \in S' <=> thr'[c].snd = b
      /\ c \in R <=> thr[c].rcv = b /\ thr[c].req.type = "SEND"
      /\ c \in R' <=> thr'[c].rcv = b /\ thr'[c].req.type = "SEND"
  BY DEF SndOf, RcvOf
<1>5. /\ InHands(b) = Cardinality(S) + Cardinality(R)
      /\ InHands(b)' = Cardinality(S') + Cardinality(R')
  BY DEF InHands
<1> HIDE DEF S, R
<1>6. /\ Cardinality(S') = Cardinality(S) - (IF c \in S THEN 1 ELSE 0)
                                          + (IF c \in S' THEN 1 ELSE 0)
      /\ Cardinality(R') = Cardinality(R) - (IF c \in R THEN 1 ELSE 0)
                                          + (IF c \in R' THEN 1 ELSE 0)
  BY <1>1, <1>3, CardinalityDiffers
<1>7. /\ InHand(c, b) = (IF c \in S THEN 1 ELSE 0) + (IF c \in R THEN 1 ELSE 0)
      /\ InHand(c, b)' = (IF c \in S' THEN 1 ELSE 0) + (IF c \in R' THEN 1 ELSE 0)
  BY <1>4 DEF InHand
<1>8. QED
  BY <1>2, <1>5, <1>6, <1>7

LEMMA SameInHands ==
  ASSUME NEW b, UNCHANGED thr
  PROVE  InHands(b)' = InHands(b)
BY DEF InHands, SndOf, RcvOf

-----------------------------------------------------------------------------
(* What the steps do to the mailboxes. *)

LEMMA BoxesTyped ==
  ASSUME Typed, NEW f, f \in [DOMAIN box -> Mailboxes]
  PROVE  f \in Seq(Mailboxes) /\ Len(f) = Len(box) /\ DOMAIN f = DOMAIN box
<1>1. Len(box) \in Nat /\ DOMAIN box = 1 .. Len(box)
  BY LenProperties DEF Typed
<1>2. QED
  BY <1>1, SeqOfFunction

LEMMA BoxTyped ==
  ASSUME Typed
  PROVE  /\ Len(box) \in Nat /\ DOMAIN box = 1 .. Len(box) /\ DOMAIN box \subseteq Boxes
         /\ \A b \in DOMAIN box : box[b] \in Mailboxes
         /\ NULL \notin Boxes
         /\ box \in [DOMAIN box -> Mailboxes]
<1>1. Len(box) \in Nat /\ DOMAIN box = 1 .. Len(box) /\ box \in [1 .. Len(box) -> Mailboxes]
  BY LenProperties DEF Typed
<1>2. QED
  BY <1>1, ConstantsOK DEF Typed, Boxes, NULL

LEMMA ListsTyped ==
  ASSUME Typed
  PROVE  /\ Len(dir) \in Nat /\ DOMAIN dir = 1 .. Len(dir)
         /\ \A i \in DOMAIN dir : /\ dir[i] \in DirNodes
                                /\ dir[i].fd \in Fds /\ dir[i].box \in Boxes
         /\ Len(fds) \in Nat /\ DOMAIN fds = 1 .. Len(fds)
         /\ \A i \in DOMAIN fds : fds[i] \in FdNodes /\ fds[i].box \in Boxes
<1>1. /\ Len(dir) \in Nat /\ DOMAIN dir = 1 .. Len(dir)
      /\ \A i \in DOMAIN dir : dir[i] \in DirNodes
      /\ Len(fds) \in Nat /\ DOMAIN fds = 1 .. Len(fds)
      /\ \A i \in DOMAIN fds : fds[i] \in FdNodes
  BY LenProperties DEF Typed
<1>2. QED
  BY <1>1 DEF DirNodes, FdNodes

(* The same mailboxes, but for what is queued. *)
BoxesKept ==
  /\ DOMAIN box' = DOMAIN box
  /\ \A b \in DOMAIN box :
       /\ box'[b].name = box[b].name /\ box'[b].ref = box[b].ref
       /\ box'[b].defunct = box[b].defunct /\ box'[b].freed = box[b].freed
       /\ box'[b].busy = box[b].busy

LEMMA AddedKeeps ==
  ASSUME Typed, NEW f, NEW e \in Entries, box' = Added(f, e)
  PROVE  box' \in Seq(Mailboxes) /\ Len(box') = Len(box) /\ BoxesKept
<1>1. ASSUME NEW b \in DOMAIN box
      PROVE  /\ box'[b] \in Mailboxes
             /\ box'[b].name = box[b].name /\ box'[b].ref = box[b].ref
             /\ box'[b].defunct = box[b].defunct /\ box'[b].freed = box[b].freed
             /\ box'[b].busy = box[b].busy
  <2>1. box[b] \in Mailboxes
    BY BoxTyped
  <2>2. Append(box[b].queue, e) \in Seq(Entries)
    BY <2>1, AppendProperties DEF Mailboxes
  <2>3. CASE b = f
    BY <2>1, <2>2, <2>3 DEF Added, Mailboxes
  <2>4. CASE b # f
    BY <2>1, <2>4 DEF Added, Mailboxes
  <2>5. QED
    BY <2>3, <2>4
<1>2. DOMAIN box' = DOMAIN box /\ box' \in [DOMAIN box -> Mailboxes]
  BY <1>1 DEF Added
<1>3. QED
  BY <1>1, <1>2, BoxesTyped DEF BoxesKept

LEMMA TakenKeeps ==
  ASSUME Typed, NEW f \in DOMAIN box, box[f].queue # <<>>,
         box' = [box EXCEPT ![f].queue = Tail(@)]
  PROVE  /\ box' \in Seq(Mailboxes) /\ Len(box') = Len(box) /\ BoxesKept
         /\ Head(box[f].queue) \in Entries
<1>1. box[f] \in Mailboxes
  BY BoxTyped
<1>2. Tail(box[f].queue) \in Seq(Entries) /\ Head(box[f].queue) \in Entries
  BY <1>1, HeadTailProperties DEF Mailboxes
<1>3. ASSUME NEW b \in DOMAIN box
      PROVE  /\ box'[b] \in Mailboxes
             /\ box'[b].name = box[b].name /\ box'[b].ref = box[b].ref
             /\ box'[b].defunct = box[b].defunct /\ box'[b].freed = box[b].freed
             /\ box'[b].busy = box[b].busy
  <2>1. box[b] \in Mailboxes
    BY BoxTyped
  <2>2. CASE b = f
    BY <1>2, <2>1, <2>2 DEF Mailboxes
  <2>3. CASE b # f
    BY <2>1, <2>3 DEF Mailboxes
  <2>4. QED
    BY <2>2, <2>3
<1>4. DOMAIN box' = DOMAIN box /\ box' \in [DOMAIN box -> Mailboxes]
  BY <1>3
<1>5. QED
  BY <1>2, <1>3, <1>4, BoxesTyped DEF BoxesKept

-----------------------------------------------------------------------------
(* Steps that leave the directory, the list of descriptors, the counts and  *)
(* the mailbox service threads' lives alone.                                *)

Only(c) == \A d \in Conns \ {c} : thr'[d] = thr[d]
RegistryKept == UNCHANGED <<dir, dirDefunct, fds, main>>
NoneOpened ==
  main # "accepting" => \A f \in Fds : sock'[f].st = "open" => sock[f].st = "open"

LEMMA RegisteredKept ==
  ASSUME Typed, Registered, RegistryKept, NoneOpened, BoxesKept
  PROVE  Registered'
<1>1. \A i \in DOMAIN dir : dir[i] \in DirNodes
  BY LenProperties DEF Typed
<1>2. ShutdownReachesAll'
  BY <1>1 DEF Registered, ShutdownReachesAll, RegistryKept, NoneOpened, DirNodes
<1>3. QED
  BY <1>2 DEF Registered, RegistryKept, BoxesKept, Gone

LEMMA OneOwnerKept ==
  ASSUME OneOwner, RegistryKept, DOMAIN box \subseteq DOMAIN box',
         \A c \in Conns : thr'[c].pc \in Owning
           => thr[c].pc \in Owning /\ thr'[c].rcv = thr[c].rcv
  PROVE  OneOwner'
BY DEF OneOwner, RegistryKept, DirBoxes, Gone

(* CountsMatch by what changes: the directory, the mailbox service threads  *)
(* and the requests together account for every change of a count.           *)
LEMMA CountsMove ==
  ASSUME CountsMatch, DOMAIN box' = DOMAIN box,
         \A b \in DOMAIN box : ~box'[b].busy =>
           /\ ~box[b].busy
           /\ box'[b].ref - box[b].ref = (InDir(b)' - InDir(b)) + (Alive(b)' - Alive(b))
                                         + (InHands(b)' - InHands(b)),
         \A b \in DOMAIN box : box[b].ref \in Int /\ box'[b].ref \in Int
  PROVE  CountsMatch'
<1> SUFFICES ASSUME NEW b \in DOMAIN box, ~box'[b].busy
             PROVE  box'[b].ref = Held(b)'
  BY DEF CountsMatch
<1>0. ~box[b].busy
  OBVIOUS
<1>1. box[b].ref = Held(b)
  BY <1>0 DEF CountsMatch
<1>2. /\ Held(b) = InDir(b) + Alive(b) + InHands(b)
      /\ Held(b)' = InDir(b)' + Alive(b)' + InHands(b)'
      /\ InHands(b) \in Nat /\ InHands(b)' \in Nat
  BY HeldIs
<1>3. /\ InDir(b) \in Nat /\ InDir(b)' \in Nat
      /\ Alive(b) \in Nat /\ Alive(b)' \in Nat
  BY DEF InDir, Alive
<1> DEFINE r == box[b].ref
           s == box'[b].ref
           i == InDir(b)
           a == Alive(b)
           h == InHands(b)
           i1 == InDir(b)'
           a1 == Alive(b)'
           h1 == InHands(b)'
<1>4. s - r = (i1 - i) + (a1 - a) + (h1 - h) /\ r \in Int /\ s \in Int
  OBVIOUS
<1>5. /\ i \in Int /\ a \in Int /\ h \in Int /\ i1 \in Int /\ a1 \in Int /\ h1 \in Int
      /\ r = i + a + h /\ Held(b)' = i1 + a1 + h1
  BY <1>1, <1>2, <1>3
<1> HIDE DEF r, s, i, a, h, i1, a1, h1
<1>6. s = i1 + a1 + h1
  BY <1>4, <1>5
<1>7. QED
  BY <1>5, <1>6 DEF s

LEMMA CountsKept ==
  ASSUME CountsMatch, Typed, UNCHANGED dir, BoxesKept,
         \A b \in DOMAIN box : Alive(b)' = Alive(b) /\ InHands(b)' = InHands(b)
  PROVE  CountsMatch'
<1>1. \A b \in DOMAIN box : InDir(b)' = InDir(b)
  BY DEF InDir, DirBoxes
<1>2. \A b \in DOMAIN box : /\ box'[b].ref = box[b].ref /\ box[b].ref \in Int
                            /\ box'[b].busy = box[b].busy
                            /\ InDir(b) \in Int /\ Alive(b) \in Int /\ InHands(b) \in Int
  BY BoxTyped, HeldIs DEF BoxesKept, Mailboxes, InDir, Alive
<1>3. DOMAIN box' = DOMAIN box
  BY DEF BoxesKept
<1>4. \A b \in DOMAIN box :
         box'[b].ref - box[b].ref = (InDir(b)' - InDir(b)) + (Alive(b)' - Alive(b))
                                    + (InHands(b)' - InHands(b))
  BY <1>1, <1>2
<1>5. QED
  BY <1>2, <1>3, <1>4, CountsMove

(* Serving by what changes: no registered mailbox begins to end.            *)
LEMMA ServingMove ==
  ASSUME Serving, DOMAIN box' = DOMAIN box, DirBoxes' \subseteq DirBoxes,
         \A b \in DirBoxes : svc'[b].pc \in Ending => svc[b].pc \in Ending,
         \A b \in DOMAIN box : box'[b].busy => box'[b].ref = 0
  PROVE  Serving'
BY DEF Serving

LEMMA ServingKept ==
  ASSUME Serving, UNCHANGED dir, BoxesKept,
         \A b \in DirBoxes : svc'[b].pc \in Ending => svc[b].pc \in Ending
  PROVE  Serving'
<1>1. DirBoxes' = DirBoxes
  BY DEF DirBoxes
<1>2. \A b \in DOMAIN box : box'[b].busy => box'[b].ref = 0
  BY DEF Serving, BoxesKept
<1>3. QED
  BY <1>1, <1>2, ServingMove DEF BoxesKept

(* What a thread's step does to what is in hand. *)
LEMMA HandsMove ==
  ASSUME NEW c \in Conns, Only(c), NEW b
  PROVE  /\ InHands(b)' - InHands(b) = InHand(c, b)' - InHand(c, b)
         /\ InHands(b) \in Nat /\ InHands(b)' \in Nat
         /\ InHand(c, b) \in Nat /\ InHand(c, b)' \in Nat
<1>1. InHand(c, b) \in Nat /\ InHand(c, b)' \in Nat
  BY DEF InHand
<1>2. InHands(b) \in Nat /\ InHands(b)' \in Nat
  BY HeldIs
<1>3. InHands(b)' = InHands(b) - InHand(c, b) + InHand(c, b)'
  BY Recount DEF Only
<1>4. QED
  BY <1>1, <1>2, <1>3

(* Locals after a step of one thread, which looks after its own.            *)
LEMMA LocalsMove ==
  ASSUME Locals, NEW c \in Conns, Only(c), DOMAIN box' = DOMAIN box, UNCHANGED svc,
         \A d \in Conns : peer'[d] = "new" => d # c /\ peer[d] = "new",
         ThreadOK(c)',
         thr'[c].pc \in LoggingIn => thr[c].pc \in LoggingIn /\ thr'[c].rcv = thr[c].rcv
  PROVE  Locals'
<1>1. \A d \in Conns : ThreadOK(d)'
  <2> SUFFICES ASSUME NEW d \in Conns, d # c PROVE ThreadOK(d)'
    OBVIOUS
  <2>1. ThreadOK(d) /\ thr'[d] = thr[d]
    BY DEF Locals, Only
  <2>2. QED
    BY <2>1 DEF ThreadOK
<1>2. ASSUME NEW d \in Conns, NEW e \in Conns, thr'[d].pc \in LoggingIn,
             thr'[e].pc \in LoggingIn, thr'[d].rcv = thr'[e].rcv
      PROVE  d = e
  BY <1>2 DEF Locals, Only
<1>3. \A d \in Conns : peer'[d] = "new" => thr'[d].pc = "unborn"
  BY DEF Locals, Only
<1>4. QED
  BY <1>1, <1>2, <1>3 DEF Locals

(* A thread that goes on with what it has. *)
LEMMA PlainStep ==
  ASSUME IInv, NEW c \in Conns, Only(c), Typed', BoxesKept, RegistryKept, NoneOpened,
         UNCHANGED svc,
         \A d \in Conns : peer'[d] = "new" => d # c /\ peer[d] = "new",
         ThreadOK(c)',
         thr'[c].pc \notin Owning,
         thr'[c].pc \in LoggingIn => thr[c].pc \in LoggingIn /\ thr'[c].rcv = thr[c].rcv,
         \A b \in Boxes : InHand(c, b)' = InHand(c, b)
  PROVE  IInv'
<1>1. Locals'
  BY LocalsMove DEF IInv, BoxesKept
<1>2. Registered'
  BY RegisteredKept DEF IInv
<1>3. OneOwner'
  <2>1. \A d \in Conns : thr'[d].pc \in Owning
          => thr[d].pc \in Owning /\ thr'[d].rcv = thr[d].rcv
    BY DEF Only
  <2>2. QED
    BY <2>1, OneOwnerKept DEF IInv, BoxesKept
<1>4. CountsMatch'
  <2>1. ASSUME NEW b \in DOMAIN box
        PROVE  Alive(b)' = Alive(b) /\ InHands(b)' = InHands(b)
    <3>1. InHand(c, b)' = InHand(c, b)
      BY BoxTyped DEF IInv
    <3>2. InHands(b)' = InHands(b)
      BY <3>1, HandsMove
    <3>3. QED
      BY <3>2 DEF Alive
  <2>2. QED
    BY <2>1, CountsKept DEF IInv, RegistryKept
<1>5. Serving'
  BY ServingKept DEF IInv, RegistryKept
<1>6. QED
  BY <1>1, <1>2, <1>3, <1>4, <1>5 DEF IInv

LEMMA QuietStep ==
  ASSUME IInv, NEW c \in Conns, Only(c), Typed', BoxesKept, RegistryKept, NoneOpened,
         UNCHANGED <<peer, svc>>, thr[c].pc # "unborn", ThreadOK(c)',
         thr'[c].pc \notin Owning,
         thr'[c].pc \in LoggingIn => thr[c].pc \in LoggingIn /\ thr'[c].rcv = thr[c].rcv,
         \A b \in Boxes : InHand(c, b)' = InHand(c, b)
  PROVE  IInv'
<1>1. \A d \in Conns : peer'[d] = "new" => d # c /\ peer[d] = "new"
  BY DEF IInv, Locals
<1>2. QED
  BY <1>1, PlainStep

(* A step of another than the client service threads.                       *)
LEMMA OtherStep ==
  ASSUME IInv, UNCHANGED thr, \A c \in Conns : peer'[c] = "new" => peer[c] = "new", Typed', BoxesKept, RegistryKept, NoneOpened,
         \A b \in Boxes : /\ svc'[b].pc = "unborn" <=> svc[b].pc = "unborn"
                          /\ Alive(b)' = Alive(b),
         \A b \in DirBoxes : svc'[b].pc \in Ending => svc[b].pc \in Ending
  PROVE  IInv'
<1>1. Locals'
  <2>1. ASSUME NEW d \in Conns PROVE ThreadOK(d)'
    <3>1. ThreadOK(d) /\ DOMAIN box' = DOMAIN box
      BY DEF IInv, Locals, BoxesKept
    <3>2. thr[d].rcv \in Boxes \cup {NULL}
      BY DEF IInv, Typed, Threads, Pointers
    <3>3. QED
      BY <3>1, <3>2 DEF ThreadOK
  <2>2. QED
    BY <2>1 DEF IInv, Locals, BoxesKept
<1>2. Registered'
  BY RegisteredKept DEF IInv
<1>3. OneOwner'
  BY OneOwnerKept DEF IInv, BoxesKept
<1>4. CountsMatch'
  <2>1. \A b \in DOMAIN box : Alive(b)' = Alive(b) /\ InHands(b)' = InHands(b)
    BY SameInHands, BoxTyped DEF IInv
  <2>2. QED
    BY <2>1, CountsKept DEF IInv, RegistryKept
<1>5. Serving'
  BY ServingKept DEF IInv, RegistryKept
<1>6. QED
  BY <1>1, <1>2, <1>3, <1>4, <1>5 DEF IInv

-----------------------------------------------------------------------------
(* The steps of a client service thread that count nothing. *)

(* A thread goes elsewhere and takes what it has along. *)
LEMMA Goes ==
  ASSUME Typed, NEW c \in Conns, NEW pc \in ClientPcs, Goto(c, pc)
  PROVE  /\ thr' \in [Conns -> Threads] /\ Only(c)
         /\ thr'[c].pc = pc /\ thr'[c].fd = thr[c].fd /\ thr'[c].req = thr[c].req
         /\ thr'[c].rcv = thr[c].rcv /\ thr'[c].snd = thr[c].snd
         /\ \A b : InHand(c, b)' = InHand(c, b)
<1>1. thr[c] \in Threads /\ thr' = [thr EXCEPT ![c] = [thr[c] EXCEPT !.pc = pc]]
  BY DEF Typed, Goto
<1>2. [thr[c] EXCEPT !.pc = pc] \in Threads
  BY <1>1 DEF Threads
<1>3. thr'[c] = [thr[c] EXCEPT !.pc = pc]
  BY <1>1 DEF Typed
<1>4. /\ thr'[c].pc = pc /\ thr'[c].fd = thr[c].fd /\ thr'[c].req = thr[c].req
      /\ thr'[c].rcv = thr[c].rcv /\ thr'[c].snd = thr[c].snd
  BY <1>1, <1>3 DEF Threads
<1>5. thr' \in [Conns -> Threads] /\ Only(c)
  BY <1>1, <1>2 DEF Typed, Only
<1>6. QED
  BY <1>4, <1>5 DEF InHand

LEMMA SameRegistry ==
  ASSUME UNCHANGED <<registry, main>>
  PROVE  RegistryKept
BY DEF registry, RegistryKept

LEMMA SameBoxes ==
  ASSUME UNCHANGED box
  PROVE  BoxesKept
BY DEF BoxesKept

(* Goto with everything that QuietStep asks of the mailboxes.               *)
LEMMA QuietGoto ==
  ASSUME IInv, NEW c \in Conns, NEW pc \in ClientPcs, Goto(c, pc),
         thr' \in [Conns -> Threads] => Typed', UNCHANGED <<peer, svc, registry, main>>,
         thr[c].pc # "unborn",
         BoxesKept, NoneOpened,
         ThreadOK(c)', pc \notin Owning,
         pc \in LoggingIn => thr[c].pc \in LoggingIn
  PROVE  IInv'
<1>1. Typed
  BY DEF IInv
<1>2. RegistryKept
  BY SameRegistry
<1>3. QED
  BY <1>1, <1>2, Goes, QuietStep

LEMMA ClientStartStep ==
  ASSUME IInv, NEW c \in Conns, ClientStart(c)
  PROVE  IInv'
<1>1. Goto(c, "recv") /\ thr[c].pc = "created" /\ "recv" \in ClientPcs
  BY DEF ClientStart, ClientPcs
<1>2. ThreadOK(c)'
  <2>1. Typed /\ ThreadOK(c)
    BY DEF IInv, Locals
  <2>2. QED
    BY <1>1, <2>1, Goes DEF ThreadOK, ClientStart, EmptyHanded, LoggingIn
<1>3. thr' \in [Conns -> Threads] => Typed'
  BY DEF IInv, Typed, ClientStart, CountedIn, clients, registry
<1>4. NoneOpened /\ BoxesKept
  BY SameBoxes DEF NoneOpened, ClientStart
<1>5. QED
  BY <1>1, <1>2, <1>3, <1>4, QuietGoto DEF ClientStart, clients, Owning, LoggingIn

(* A thread's record is replaced. *)
LEMMA Becomes ==
  ASSUME Typed, NEW c \in Conns, NEW t \in Threads, thr' = [thr EXCEPT ![c] = t]
  PROVE  thr' \in [Conns -> Threads] /\ Only(c) /\ thr'[c] = t
BY DEF Typed, Only

LEMMA CountUpdated ==
  ASSUME NEW S, NEW f \in [S -> Int], NEW d
  PROVE  /\ [f EXCEPT ![d] = @ + 1] \in [S -> Int]
         /\ [f EXCEPT ![d] = @ - 1] \in [S -> Int]
<1>1. CASE d \in S
  <2>1. f[d] + 1 \in Int /\ f[d] - 1 \in Int
    BY <1>1
  <2>2. QED
    BY <2>1
<1>2. CASE d \notin S
  BY <1>2
<1>3. QED
  BY <1>1, <1>2

LEMMA ReceiveStep ==
  ASSUME IInv, NEW c \in Conns, Receive(c)
  PROVE  IInv'
<1>1. Typed /\ ThreadOK(c) /\ thr[c] \in Threads
  BY DEF IInv, Locals, Typed
<1> DEFINE d == sock[thr[c].fd].conn
<1>2. PICK r \in Requests :
        thr' = [thr EXCEPT ![c].pc = Handler(r.type),
                  ![c].req = [type |-> r.type, handle |-> r.handle, conn |-> d],
                  ![c].hdr = CASE r.type = "USERS" -> "USERS"
                               [] r.type = "LOGOUT" -> "LOGOUT"
                               [] OTHER -> "payload"]
  BY DEF Receive
<1>0. d \in Conns \cup {"none"}
  <2>1. thr[c].fd \in Fds
    BY <1>1 DEF ThreadOK, Receive
  <2>2. QED
    BY <1>1, <2>1 DEF Typed
<1> HIDE DEF d
<1> DEFINE q == [type |-> r.type, handle |-> r.handle, conn |-> d]
<1>3. /\ r.type \in {"LOGIN", "SEND", "BADLOGIN", "LOGOUT", "USERS"}
      /\ q \in [type : AllInputs \cup {"none"}, handle : Handles \cup {"none", "listed"},
                conn : Conns \cup {"none"}]
      /\ r.type \in {"LOGIN", "SEND"} => r.handle \in Handles
      /\ q.type = r.type /\ q.handle = r.handle
  BY <1>0 DEF Requests, AllInputs
<1> DEFINE h == CASE r.type = "USERS" -> "USERS"
                  [] r.type = "LOGOUT" -> "LOGOUT"
                  [] OTHER -> "payload"
           t == [thr[c] EXCEPT !.pc = Handler(r.type), !.req = q, !.hdr = h]
<1>4. Handler(r.type) = CASE r.type = "LOGIN" -> "register"
                          [] r.type = "BADLOGIN" -> "nack"
                          [] r.type = "LOGOUT" -> "remove"
                          [] r.type = "USERS" -> "users"
                          [] r.type = "SEND" -> "lookup"
  BY DEF Handler
<1>5. t \in Threads
  <2>1. Handler(r.type) \in ClientPcs
    BY <1>3, <1>4 DEF ClientPcs
  <2>2. h \in {"garbage", "noop", "payload", "USERS", "LOGOUT"}
    OBVIOUS
  <2> HIDE DEF q, h
  <2>3. QED
    BY <1>1, <1>3, <2>1, <2>2 DEF Threads
<1>6. thr' = [thr EXCEPT ![c] = t]
  BY <1>2
<1> HIDE DEF h, q
<1>7. thr' \in [Conns -> Threads] /\ Only(c) /\ thr'[c] = t
  BY <1>1, <1>5, <1>6, Becomes
<1>8. /\ thr'[c].pc = Handler(r.type) /\ thr'[c].req = q
      /\ thr'[c].fd = thr[c].fd /\ thr'[c].rcv = thr[c].rcv /\ thr'[c].snd = thr[c].snd
  BY <1>1, <1>7 DEF Threads
<1>9. /\ thr[c].rcv = NULL /\ thr[c].snd = NULL /\ thr[c].pc = "recv" /\ thr[c].fd \in Fds
  BY <1>1 DEF ThreadOK, Receive, EmptyHanded
<1>10. ThreadOK(c)'
  BY <1>3, <1>4, <1>8, <1>9 DEF ThreadOK, EmptyHanded, LoggingIn
<1>11. Typed'
  <2>1. budget' \in 0 .. MaxReqs
    BY <1>1, ConstantsOK DEF Typed, Receive
  <2>2. owed' \in [Conns -> Int]
    <3>1. owed' = [owed EXCEPT ![d] = @ + 1]
      BY DEF Receive, d
    <3>2. owed \in [Conns -> Int]
      BY <1>1 DEF Typed
    <3>3. QED
      BY <3>1, <3>2, CountUpdated
  <2>3. QED
    BY <1>1, <1>7, <2>1, <2>2 DEF Typed, Receive, registry, tcount
<1>12. \A b \in Boxes : InHand(c, b)' = InHand(c, b)
  BY <1>1, <1>8, <1>9, BoxTyped DEF InHand
<1>13. NoneOpened /\ BoxesKept /\ RegistryKept
  BY SameBoxes, SameRegistry DEF NoneOpened, Receive
<1>14. thr'[c].pc \notin Owning /\ thr'[c].pc \notin LoggingIn
  BY <1>3, <1>4, <1>8 DEF Owning, LoggingIn
<1>15. QED
  BY <1>7, <1>9, <1>10, <1>11, <1>12, <1>13, <1>14, QuietStep DEF Receive

(* At the end of the file, or after an error, the thread leaves, goes round *)
(* or handles the old packet again.                                         *)
LEMMA EofGoes ==
  ASSUME Typed, NEW c \in Conns, ReceiveEof(c) \/ ReceiveError(c)
  PROVE  \E t \in Threads :
           /\ thr' = [thr EXCEPT ![c] = t]
           /\ t.pc \in {"recv", "decr", "users", "remove"}
           /\ t.fd = thr[c].fd /\ t.req = thr[c].req
           /\ t.rcv = thr[c].rcv /\ t.snd = thr[c].snd
<1>1. thr[c] \in Threads
  BY DEF Typed
<1>2. CASE Leave(c)
  <2> DEFINE t == [thr[c] EXCEPT !.pc = "decr", !.hdr = "garbage"]
  <2>1. /\ t \in Threads /\ t.pc = "decr" /\ t.fd = thr[c].fd /\ t.req = thr[c].req
        /\ t.rcv = thr[c].rcv /\ t.snd = thr[c].snd
    BY <1>1 DEF Threads, ClientPcs
  <2>2. thr' = [thr EXCEPT ![c] = t]
    BY <1>2 DEF Leave
  <2> HIDE DEF t
  <2>3. QED
    BY <2>1, <2>2
<1>3. CASE thr[c].pc = "recv" /\ thr' = [thr EXCEPT ![c].hdr = "noop"]
  <2> DEFINE t == [thr[c] EXCEPT !.hdr = "noop"]
  <2>1. /\ t \in Threads /\ t.pc = thr[c].pc /\ t.fd = thr[c].fd /\ t.req = thr[c].req
        /\ t.rcv = thr[c].rcv /\ t.snd = thr[c].snd
    BY <1>1 DEF Threads
  <2>2. thr' = [thr EXCEPT ![c] = t]
    BY <1>3
  <2> HIDE DEF t
  <2>3. QED
    BY <1>3, <2>1, <2>2
<1>4. ASSUME NEW pc \in {"users", "remove"}, Goto(c, pc)
      PROVE  \E t \in Threads :
               /\ thr' = [thr EXCEPT ![c] = t]
               /\ t.pc \in {"recv", "decr", "users", "remove"}
               /\ t.fd = thr[c].fd /\ t.req = thr[c].req
               /\ t.rcv = thr[c].rcv /\ t.snd = thr[c].snd
  <2> DEFINE t == [thr[c] EXCEPT !.pc = pc]
  <2>1. /\ t \in Threads /\ t.pc = pc /\ t.fd = thr[c].fd /\ t.req = thr[c].req
        /\ t.rcv = thr[c].rcv /\ t.snd = thr[c].snd
    BY <1>1 DEF Threads, ClientPcs
  <2>2. thr' = [thr EXCEPT ![c] = t]
    BY <1>4 DEF Goto
  <2> HIDE DEF t
  <2>3. QED
    BY <2>1, <2>2
<1>5. \/ Leave(c)
      \/ thr[c].pc = "recv" /\ thr' = [thr EXCEPT ![c].hdr = "noop"]
      \/ \E pc \in {"users", "remove"} : Goto(c, pc)
  BY DEF ReceiveEof, ReceiveError, Handler
<1>6. QED
  BY <1>2, <1>3, <1>4, <1>5

LEMMA ReceiveEofStep ==
  ASSUME IInv, NEW c \in Conns, ReceiveEof(c) \/ ReceiveError(c)
  PROVE  IInv'
<1>1. /\ thr[c].pc = "recv" /\ Typed /\ ThreadOK(c)
      /\ UNCHANGED <<clients, sock, svc, registry, box, tcount, main, crash>>
  BY DEF ReceiveEof, ReceiveError, IInv, Locals
<1>2. PICK t \in Threads :
        /\ thr' = [thr EXCEPT ![c] = t]
        /\ t.pc \in {"recv", "decr", "users", "remove"}
        /\ t.fd = thr[c].fd /\ t.req = thr[c].req
        /\ t.rcv = thr[c].rcv /\ t.snd = thr[c].snd
  BY <1>1, EofGoes
<1>3. thr' \in [Conns -> Threads] /\ Only(c) /\ thr'[c] = t
  BY <1>1, <1>2, Becomes
<1>4. ThreadOK(c)'
  BY <1>1, <1>2, <1>3 DEF ThreadOK, EmptyHanded, LoggingIn
<1>5. Typed'
  BY <1>1, <1>3 DEF Typed, clients, registry, tcount
<1>6. NoneOpened /\ BoxesKept /\ RegistryKept
  BY <1>1, SameBoxes, SameRegistry DEF NoneOpened
<1>7. thr'[c].pc \notin Owning /\ thr'[c].pc \notin LoggingIn
  BY <1>2, <1>3 DEF Owning, LoggingIn
<1>8. \A b \in Boxes : InHand(c, b)' = InHand(c, b)
  BY <1>2, <1>3 DEF InHand
<1>9. QED
  BY <1>1, <1>3, <1>4, <1>5, <1>6, <1>7, <1>8, QuietStep DEF clients

LEMMA ShutSocketStep ==
  ASSUME IInv, NEW c \in Conns, ShutSocket(c)
  PROVE  IInv'
<1>1. Goto(c, "close") /\ thr[c].pc = "shut" /\ "close" \in ClientPcs
  BY DEF ShutSocket, ClientPcs
<1>2. Typed /\ ThreadOK(c) /\ thr[c].fd \in Fds
  BY <1>1 DEF IInv, Locals, ThreadOK
<1>3. ThreadOK(c)'
  BY <1>1, <1>2, Goes DEF ThreadOK, ShutSocket, EmptyHanded, LoggingIn
<1>4. /\ sock' \in [Fds -> [st : {"free", "open", "shut"}, conn : Conns \cup {"none"}]]
      /\ NoneOpened
  <2> DEFINE f == thr[c].fd
             s == [sock[f] EXCEPT !.st = IF @ = "open" THEN "shut" ELSE @]
  <2>1. sock' = [sock EXCEPT ![f] = s]
    BY DEF ShutSocket
  <2>2. sock[f] \in [st : {"free", "open", "shut"}, conn : Conns \cup {"none"}]
    BY <1>2 DEF Typed
  <2>3. /\ s \in [st : {"free", "open", "shut"}, conn : Conns \cup {"none"}]
        /\ s.st # "open"
    BY <2>2
  <2> HIDE DEF s, f
  <2>4. QED
    BY <1>2, <2>1, <2>3 DEF Typed, NoneOpened
<1>5. thr' \in [Conns -> Threads] => Typed'
  BY <1>2, <1>4 DEF Typed, ShutSocket, clients, registry, tcount
<1>6. BoxesKept
  BY SameBoxes DEF ShutSocket
<1>7. QED
  BY <1>1, <1>3, <1>4, <1>5, <1>6, QuietGoto DEF ShutSocket, clients, Owning, LoggingIn

(* The end of a handler: nothing may be left in hand that is counted.       *)
LEMMA Finishes ==
  ASSUME IInv, NEW c \in Conns, NEW h \in {"garbage", "noop", "payload", "USERS", "LOGOUT"},
         \/ thr' = Done(c)
         \/ thr' = [Done(c) EXCEPT ![c].hdr = h]
  PROVE  /\ thr' \in [Conns -> Threads] /\ Only(c)
         /\ thr'[c].pc = "recv" /\ thr'[c].fd = thr[c].fd /\ thr'[c].req = NoReq
         /\ thr'[c].rcv = NULL /\ thr'[c].snd = NULL
         /\ thr[c].pc # "unborn" => ThreadOK(c)'
         /\ \A b \in Boxes : InHand(c, b)' = 0
<1>1. Typed /\ ThreadOK(c) /\ thr[c] \in Threads /\ NULL \notin Boxes
  BY BoxTyped DEF IInv, Locals, Typed
<1>2. PICK t \in Threads :
        /\ thr' = [thr EXCEPT ![c] = t]
        /\ t.pc = "recv" /\ t.fd = thr[c].fd /\ t.req = NoReq
        /\ t.rcv = NULL /\ t.snd = NULL
  <2> DEFINE d == [thr[c] EXCEPT !.pc = "recv", !.req = NoReq, !.rcv = NULL, !.snd = NULL]
             e == [d EXCEPT !.hdr = h]
  <2>1. d \in Threads
    BY <1>1 DEF Threads, ClientPcs, NoReq, Pointers
  <2> HIDE DEF d
  <2>2. e \in Threads
    BY <2>1 DEF Threads
  <2>3. /\ d.pc = "recv" /\ d.fd = thr[c].fd /\ d.req = NoReq /\ d.rcv = NULL /\ d.snd = NULL
        /\ e.pc = "recv" /\ e.fd = thr[c].fd /\ e.req = NoReq /\ e.rcv = NULL /\ e.snd = NULL
    BY <1>1, <2>1 DEF Threads, d
  <2>4. CASE thr' = Done(c)
    <3>1. thr' = [thr EXCEPT ![c] = d]
      BY <2>4 DEF Done, d
    <3>2. QED
      BY <2>1, <2>3, <3>1
  <2>5. CASE thr' = [Done(c) EXCEPT ![c].hdr = h]
    <3>1. thr' = [thr EXCEPT ![c] = e]
      BY <1>1, <2>5 DEF Done, Typed, d
    <3>2. QED
      BY <2>3, <2>2, <3>1
  <2>6. QED
    BY <2>4, <2>5
<1>3. thr' \in [Conns -> Threads] /\ Only(c) /\ thr'[c] = t
  BY <1>1, <1>2, Becomes
<1>4. /\ thr'[c].pc = "recv" /\ thr'[c].fd = thr[c].fd /\ thr'[c].req = NoReq
      /\ thr'[c].rcv = NULL /\ thr'[c].snd = NULL
  BY <1>2, <1>3
<1>5. thr[c].pc # "unborn" => ThreadOK(c)'
  BY <1>1, <1>4 DEF ThreadOK, EmptyHanded, LoggingIn, NoReq
<1>6. \A b \in Boxes : InHand(c, b)' = 0
  BY <1>1, <1>4 DEF InHand
<1>7. QED
  BY <1>3, <1>4, <1>5, <1>6

LEMMA QuietFinish ==
  ASSUME IInv, NEW c \in Conns, NEW h \in {"garbage", "noop", "payload", "USERS", "LOGOUT"},
         \/ thr' = Done(c)
         \/ thr' = [Done(c) EXCEPT ![c].hdr = h],
         thr[c].pc # "unborn",
         \A b \in Boxes : InHand(c, b) = 0,
         thr' \in [Conns -> Threads] => Typed', UNCHANGED <<peer, svc, registry, main>>,
         BoxesKept, NoneOpened
  PROVE  IInv'
<1>1. RegistryKept
  BY SameRegistry
<1>2. "recv" \notin Owning /\ "recv" \notin LoggingIn
  BY DEF Owning, LoggingIn
<1>3. QED
  BY <1>1, <1>2, Finishes, QuietStep

LEMMA CloseSocketStep ==
  ASSUME IInv, NEW c \in Conns, CloseSocket(c)
  PROVE  IInv'
<1>1. Typed /\ ThreadOK(c) /\ NULL \notin Boxes
  BY BoxTyped DEF IInv, Locals
<1>2. thr[c].pc = "close" /\ thr[c].fd \in Fds /\ \A b \in Boxes : InHand(c, b) = 0
  BY <1>1 DEF CloseSocket, ThreadOK, EmptyHanded, InHand
<1>3. /\ sock' \in [Fds -> [st : {"free", "open", "shut"}, conn : Conns \cup {"none"}]]
      /\ NoneOpened
  BY <1>1, <1>2 DEF Typed, CloseSocket, NoneOpened, Free
<1>4. thr' \in [Conns -> Threads] => Typed'
  BY <1>1, <1>3 DEF Typed, CloseSocket, clients, registry, tcount
<1>5. BoxesKept
  BY SameBoxes DEF CloseSocket
<1>6. QED
  BY <1>2, <1>3, <1>4, <1>5, QuietFinish DEF CloseSocket, clients, Finish

LEMMA UsersStep ==
  ASSUME IInv, NEW c \in Conns, Users(c)
  PROVE  IInv'
<1>1. Typed /\ ThreadOK(c) /\ thr[c] \in Threads /\ NULL \notin Boxes
  BY BoxTyped DEF IInv, Locals, Typed
<1>2. /\ thr[c].pc = "users" /\ thr[c].rcv = NULL /\ thr[c].snd = NULL
      /\ thr[c].fd \in Fds
  BY <1>1 DEF Users, ThreadOK, EmptyHanded
<1> DEFINE r == [thr[c].req EXCEPT !.type = "USERS",
                   !.handle = IF dir = <<>> THEN "none" ELSE "listed"]
           t == [thr[c] EXCEPT !.pc = "findself", !.req = r]
<1>3. t \in Threads
  <2>1. r \in [type : AllInputs \cup {"none"}, handle : Handles \cup {"none", "listed"},
              conn : Conns \cup {"none"}]
    BY <1>1 DEF AllInputs, Threads
  <2>2. "findself" \in ClientPcs
    BY DEF ClientPcs
  <2> HIDE DEF r
  <2>3. QED
    BY <1>1, <2>1, <2>2 DEF Threads
<1>4. thr' = [thr EXCEPT ![c] = t]
  BY DEF Users
<1>5. thr' \in [Conns -> Threads] /\ Only(c) /\ thr'[c] = t
  BY <1>1, <1>3, <1>4, Becomes
<1>6. /\ thr'[c].pc = "findself" /\ thr'[c].fd = thr[c].fd
      /\ thr'[c].rcv = NULL /\ thr'[c].snd = NULL
  BY <1>1, <1>2, <1>5 DEF Threads
<1>7. ThreadOK(c)'
  BY <1>2, <1>6 DEF ThreadOK, EmptyHanded, LoggingIn
<1>8. \A b \in Boxes : InHand(c, b)' = InHand(c, b)
  BY <1>1, <1>2, <1>6 DEF InHand
<1>9. Typed'
  BY <1>1, <1>5 DEF Typed, Users, clients, registry, tcount, Crashes
<1>10. NoneOpened /\ BoxesKept /\ RegistryKept
  BY SameBoxes, SameRegistry DEF NoneOpened, Users
<1>11. QED
  BY <1>2, <1>5, <1>6, <1>7, <1>8, <1>9, <1>10, QuietStep DEF Users, clients, Owning, LoggingIn

LEMMA ReadNodeStep ==
  ASSUME IInv, NEW c \in Conns, ReadNode(c)
  PROVE  IInv'
<1>1. Goto(c, "findself") /\ thr[c].pc = "readnode" /\ "findself" \in ClientPcs
  BY DEF ReadNode, ClientPcs
<1>2. Typed /\ ThreadOK(c)
  BY DEF IInv, Locals
<1>3. ThreadOK(c)'
  BY <1>1, <1>2, Goes DEF ThreadOK, ReadNode, EmptyHanded, LoggingIn
<1>4. thr' \in [Conns -> Threads] => Typed'
  BY <1>2 DEF Typed, ReadNode, clients, registry, tcount, Crashes
<1>5. NoneOpened /\ BoxesKept
  BY SameBoxes DEF NoneOpened, ReadNode
<1>6. QED
  BY <1>1, <1>3, <1>4, <1>5, QuietGoto DEF ReadNode, clients, Owning, LoggingIn

(* What handle_packet goes on to, and what it then has in hand.             *)
LEMMA AnswerOK ==
  ASSUME NEW c, NEW self
  PROVE  /\ Answer(c, self) \in {"ack", "notice", "nack", "message"}
         /\ Answer(c, self) = "ack" => thr[c].req.type = "USERS"
         /\ Answer(c, self) = "nack" => self = NULL
         /\ Answer(c, self) = "notice" => self # NULL
         /\ Answer(c, self) = "message" => self # NULL /\ thr[c].rcv # NULL
  
BY DEF Answer

LEMMA ReadSelfStep ==
  ASSUME IInv, NEW c \in Conns, ReadSelf(c)
  PROVE  IInv'
<1> DEFINE pc == Answer(c, thr[c].snd)
<1>1. Typed /\ ThreadOK(c)
  BY DEF IInv, Locals
<1>2. Goto(c, pc) /\ thr[c].pc = "readself" /\ thr[c].snd # NULL
  BY <1>1 DEF ReadSelf, ThreadOK
<1>3. pc \in {"ack", "notice", "message"} /\ (pc = "message" => thr[c].rcv # NULL)
  BY <1>2, AnswerOK
<1> HIDE DEF pc
<1>4. pc \in ClientPcs
  BY <1>3 DEF ClientPcs
<1>5. ThreadOK(c)'
  <2>1. /\ thr'[c].pc = pc /\ thr'[c].fd = thr[c].fd /\ thr'[c].req = thr[c].req
        /\ thr'[c].rcv = thr[c].rcv /\ thr'[c].snd = thr[c].snd
    BY <1>1, <1>2, <1>4, Goes
  <2>2. QED
    BY <1>1, <1>2, <1>3, <2>1 DEF ThreadOK, ReadSelf, EmptyHanded, LoggingIn
<1>6. thr' \in [Conns -> Threads] => Typed'
  BY <1>1 DEF Typed, ReadSelf, clients, registry, tcount, Crashes
<1>7. NoneOpened /\ BoxesKept
  BY SameBoxes DEF NoneOpened, ReadSelf
<1>8. pc \notin Owning /\ pc \notin LoggingIn
  BY <1>3 DEF Owning, LoggingIn
<1>9. QED
  BY <1>2, <1>4, <1>5, <1>6, <1>7, <1>8, QuietGoto DEF ReadSelf, clients

(* mb_add_notice and mb_add_message. *)
LEMMA AddStep ==
  ASSUME IInv, NEW c \in Conns, LoginAck(c) \/ AddNotice(c) \/ AddMessage(c)
  PROVE  IInv'
<1>1. Typed /\ ThreadOK(c)
  BY DEF IInv, Locals
<1>2. \E e \in Entries : \E f : box' = Added(f, e)
  <2> DEFINE to == thr[c].req.conn
  <2>1. /\ Notice("ack", to) \in Entries /\ Notice("nack", to) \in Entries
        /\ Message(thr[c].snd) \in Entries
    BY <1>1 DEF Notice, Message, Entries, Pointers, Typed, Threads
  <2>2. CASE LoginAck(c)
    BY <2>1, <2>2 DEF LoginAck
  <2>3. CASE AddNotice(c)
    BY <2>1, <2>3 DEF AddNotice
  <2>4. CASE AddMessage(c)
    BY <2>1, <2>4 DEF AddMessage
  <2>5. QED
    BY <2>2, <2>3, <2>4
<1>3. box' \in Seq(Mailboxes) /\ Len(box') = Len(box) /\ BoxesKept
  BY <1>1, <1>2, AddedKeeps
<1>4. PICK pc \in {"spawn", "unrefsnd", "ack"} :
        /\ Goto(c, pc)
        /\ pc = "spawn" => thr[c].pc = "loginack"
        /\ pc = "unrefsnd" => thr[c].pc = "notice"
        /\ pc = "ack" => thr[c].pc = "message"
  BY DEF LoginAck, AddNotice, AddMessage
<1>5. pc \in ClientPcs
  BY DEF ClientPcs
<1>6. ThreadOK(c)'
  <2>1. /\ thr'[c].pc = pc /\ thr'[c].fd = thr[c].fd /\ thr'[c].req = thr[c].req
        /\ thr'[c].rcv = thr[c].rcv /\ thr'[c].snd = thr[c].snd
    BY <1>1, <1>4, <1>5, Goes
  <2>2. UNCHANGED svc /\ DOMAIN box' = DOMAIN box
    BY <1>3 DEF LoginAck, AddNotice, AddMessage, BoxesKept
  <2>3. QED
    BY <1>1, <1>4, <2>1, <2>2 DEF ThreadOK, EmptyHanded, LoggingIn
<1>7. UNCHANGED <<clients, sock, svc, registry, tcount, main, crash>>
  BY DEF LoginAck, AddNotice, AddMessage
<1>8. thr' \in [Conns -> Threads] => Typed'
  BY <1>1, <1>3, <1>7 DEF Typed, clients, registry, tcount
<1>9. NoneOpened
  BY <1>7 DEF NoneOpened
<1>10. pc \notin Owning /\ (pc \in LoggingIn => thr[c].pc \in LoggingIn)
  BY <1>4 DEF Owning, LoggingIn
<1>11. QED
  BY <1>3, <1>4, <1>5, <1>6, <1>7, <1>8, <1>9, <1>10, QuietGoto DEF clients

LEMMA Written ==
  ASSUME Typed, NEW f, NEW a, Write(f, a)
  PROVE  owed' \in [Conns -> Int] /\ crash' \in Crashes
<1>1. owed \in [Conns -> Int] /\ crash \in Crashes
  BY DEF Typed
<1>2. crash' \in Crashes
  BY <1>1 DEF Write, Crashes
<1>3. owed' = owed \/ \E d : owed' = [owed EXCEPT ![d] = @ - 1]
  BY DEF Write
<1>4. QED
  BY <1>1, <1>2, <1>3, CountUpdated

(* The answers a client service thread sends itself.                        *)
LEMMA AckStep ==
  ASSUME IInv, NEW c \in Conns, Ack(c) \/ Nack(c)
  PROVE  IInv'
<1>1. Typed /\ ThreadOK(c) /\ thr[c] \in Threads /\ NULL \notin Boxes
  BY BoxTyped DEF IInv, Locals, Typed
<1>2. owed' \in [Conns -> Int] /\ crash' \in Crashes
  BY <1>1, Written DEF Ack, Nack
<1>3. /\ thr[c].pc \in {"ack", "nack"}
      /\ UNCHANGED <<peer, budget, sock, svc, registry, box, tcount, main>>
  BY DEF Ack, Nack
<1>4. thr' \in [Conns -> Threads] => Typed'
  BY <1>1, <1>2, <1>3 DEF Typed, registry, tcount
<1>5. NoneOpened /\ BoxesKept /\ RegistryKept
  BY <1>3, SameBoxes, SameRegistry DEF NoneOpened
<1>6. PICK h \in {"noop", "payload"} :
        \/ /\ thr[c].snd = NULL /\ thr[c].rcv = NULL
           /\ thr' = [Done(c) EXCEPT ![c].hdr = h]
        \/ /\ thr[c].snd # NULL
           /\ thr' = [thr EXCEPT ![c].pc = "unrefsnd", ![c].hdr = h]
        \/ /\ thr[c].rcv # NULL /\ thr[c].snd = NULL
           /\ thr' = [thr EXCEPT ![c].pc = "unrefrcv", ![c].hdr = h]
  <2>1. CASE Ack(c)
    <3> DEFINE h == IF thr[c].req.handle = "listed" THEN "payload" ELSE "noop"
    <3>1. \/ thr[c].snd = NULL /\ thr' = [Done(c) EXCEPT ![c].hdr = h]
          \/ thr[c].snd # NULL /\ thr' = [thr EXCEPT ![c].pc = "unrefsnd", ![c].hdr = h]
      BY <2>1 DEF Ack
    <3>2. thr[c].snd = NULL => thr[c].rcv = NULL
      BY <1>1, <2>1 DEF Ack, ThreadOK
    <3>3. h \in {"noop", "payload"}
      OBVIOUS
    <3> HIDE DEF h
    <3>4. QED
      BY <3>1, <3>2, <3>3
  <2>2. CASE Nack(c)
    <3>1. thr[c].snd = NULL
      BY <1>1, <2>2 DEF Nack, ThreadOK
    <3>2. QED
      BY <2>2, <3>1 DEF Nack
  <2>3. QED
    BY <2>1, <2>2
<1>7. CASE thr[c].snd = NULL /\ thr[c].rcv = NULL /\ thr' = [Done(c) EXCEPT ![c].hdr = h]
  <2>1. \A b \in Boxes : InHand(c, b) = 0
    BY <1>1, <1>7 DEF InHand
  <2>2. QED
    BY <1>3, <1>4, <1>5, <1>7, <2>1, QuietFinish
<1>8. ASSUME NEW pc \in {"unrefsnd", "unrefrcv"},
             thr' = [thr EXCEPT ![c].pc = pc, ![c].hdr = h],
             pc = "unrefsnd" => thr[c].snd # NULL,
             pc = "unrefrcv" => thr[c].snd = NULL /\ thr[c].rcv # NULL
      PROVE  IInv'
  <2> DEFINE t == [thr[c] EXCEPT !.pc = pc, !.hdr = h]
  <2>1. t \in Threads
    BY <1>1 DEF Threads, ClientPcs
  <2>2. thr' = [thr EXCEPT ![c] = t]
    BY <1>8
  <2>3. thr' \in [Conns -> Threads] /\ Only(c) /\ thr'[c] = t
    BY <1>1, <2>1, <2>2, Becomes
  <2>4. /\ thr'[c].pc = pc /\ thr'[c].fd = thr[c].fd /\ thr'[c].req = thr[c].req
        /\ thr'[c].rcv = thr[c].rcv /\ thr'[c].snd = thr[c].snd
    BY <1>1, <2>3 DEF Threads
  <2>5. ThreadOK(c)'
    BY <1>1, <1>3, <1>8, <2>4 DEF ThreadOK, EmptyHanded, LoggingIn
  <2>6. \A b \in Boxes : InHand(c, b)' = InHand(c, b)
    BY <2>4 DEF InHand
  <2>7. thr'[c].pc \notin Owning /\ thr'[c].pc \notin LoggingIn
    BY <2>4 DEF Owning, LoggingIn
  <2>8. QED
    BY <1>3, <1>4, <1>5, <2>3, <2>5, <2>6, <2>7, QuietStep
<1>9. QED
  BY <1>6, <1>7, <1>8

(* tcnt_decr and the end of a client service thread.                        *)
LEMMA ClientEndStep ==
  ASSUME IInv, NEW c \in Conns, ClientDecr(c) \/ ClientEnd(c)
  PROVE  IInv'
<1>1. Typed /\ ThreadOK(c)
  BY DEF IInv, Locals
<1>2. PICK pc \in {"unlock", "done"} : Goto(c, pc)
  BY DEF ClientDecr, ClientEnd
<1>3. thr[c].pc \in {"decr", "unlock"} /\ pc \in ClientPcs
  BY DEF ClientDecr, ClientEnd, ClientPcs
<1>4. UNCHANGED <<clients, sock, svc, registry, box, main, crash>>
  BY DEF ClientDecr, ClientEnd
<1>5. ThreadOK(c)'
  BY <1>1, <1>2, <1>3, <1>4, Goes DEF ThreadOK, EmptyHanded, LoggingIn
<1>6. counter' \in Int /\ tcsem' \in Nat
  BY <1>1 DEF Typed, ClientDecr, ClientEnd, CountedOut, tcount
<1>7. thr' \in [Conns -> Threads] => Typed'
  BY <1>1, <1>4, <1>6 DEF Typed, clients, registry
<1>8. NoneOpened /\ BoxesKept
  BY <1>4, SameBoxes DEF NoneOpened
<1>9. pc \notin Owning /\ pc \notin LoggingIn
  BY DEF Owning, LoggingIn
<1>10. QED
  BY <1>2, <1>3, <1>4, <1>5, <1>7, <1>8, <1>9, QuietGoto DEF clients

-----------------------------------------------------------------------------
(* The steps of a mailbox service thread that count nothing. *)

LEMMA ServiceBecomes ==
  ASSUME Typed, NEW b \in Boxes, NEW s \in Services, svc' = [svc EXCEPT ![b] = s],
         s.pc # "unborn", svc[b].pc # "unborn",
         s.pc \in {"decr", "unlock", "done", "hung"}
           <=> svc[b].pc \in {"decr", "unlock", "done", "hung"},
         s.pc \in Ending /\ b \in DirBoxes => svc[b].pc \in Ending
  PROVE  /\ svc' \in [Boxes -> Services]
         /\ \A a \in Boxes : /\ svc'[a].pc = "unborn" <=> svc[a].pc = "unborn"
                             /\ Alive(a)' = Alive(a)
         /\ \A a \in DirBoxes : svc'[a].pc \in Ending => svc[a].pc \in Ending
<1>1. svc' \in [Boxes -> Services] /\ svc'[b] = s /\ \A a \in Boxes \ {b} : svc'[a] = svc[a]
  BY DEF Typed
<1>2. \A a \in Boxes : /\ svc'[a].pc = "unborn" <=> svc[a].pc = "unborn"
                       /\ Alive(a)' = Alive(a)
  BY <1>1 DEF Alive
<1>3. DirBoxes \subseteq Boxes
  BY ListsTyped DEF DirBoxes
<1>4. QED
  BY <1>1, <1>2, <1>3

LEMMA ServiceGoes ==
  ASSUME Typed, NEW b \in Boxes, NEW pc \in SvcPcs, SvcGoto(b, pc),
         pc # "unborn", svc[b].pc # "unborn",
         pc \in {"decr", "unlock", "done", "hung"}
           <=> svc[b].pc \in {"decr", "unlock", "done", "hung"},
         pc \in Ending /\ b \in DirBoxes => svc[b].pc \in Ending
  PROVE  /\ svc' \in [Boxes -> Services]
         /\ \A a \in Boxes : /\ svc'[a].pc = "unborn" <=> svc[a].pc = "unborn"
                             /\ Alive(a)' = Alive(a)
         /\ \A a \in DirBoxes : svc'[a].pc \in Ending => svc[a].pc \in Ending
<1>1. svc[b] \in Services
  BY DEF Typed
<1>2. [svc[b] EXCEPT !.pc = pc] \in Services /\ [svc[b] EXCEPT !.pc = pc].pc = pc
  BY <1>1 DEF Services
<1>3. svc' = [svc EXCEPT ![b] = [svc[b] EXCEPT !.pc = pc]]
  BY DEF SvcGoto
<1>4. QED
  BY <1>2, <1>3, ServiceBecomes

LEMMA SvcGotoStep ==
  ASSUME IInv, NEW b \in Boxes, SvcStart(b) \/ SvcStop(b) \/ SvcDecr(b) \/ SvcEnd(b)
  PROVE  IInv'
<1>1. Typed
  BY DEF IInv
<1>2. PICK pc \in {"wait", "unref", "unlock", "done"} :
        /\ SvcGoto(b, pc) /\ svc[b].pc # "unborn"
        /\ pc \in {"decr", "unlock", "done", "hung"}
             <=> svc[b].pc \in {"decr", "unlock", "done", "hung"}
  BY DEF SvcStart, SvcStop, SvcDecr, SvcEnd
<1>3. /\ pc \in SvcPcs /\ pc # "unborn"
      /\ pc \in Ending /\ b \in DirBoxes => svc[b].pc \in Ending
  <2>1. pc \in SvcPcs /\ pc # "unborn"
    BY DEF SvcPcs
  <2>2. ASSUME pc \in Ending, b \in DirBoxes PROVE svc[b].pc \in Ending
    <3>1. ~SvcStop(b)
      BY <2>2 DEF SvcStop, IInv, Registered, DirBoxes
    <3>2. ~SvcStart(b)
      <4>1. SvcStart(b) => SvcGoto(b, "wait")
        BY DEF SvcStart
      <4>2. SvcGoto(b, "wait") => svc'[b].pc = "wait"
        BY <1>1 DEF SvcGoto, Typed, Services
      <4>3. svc'[b].pc = pc
        BY <1>1, <1>2 DEF SvcGoto, Typed, Services
      <4>4. QED
        BY <2>2, <4>1, <4>2, <4>3 DEF Ending
    <3>3. QED
      BY <3>1, <3>2 DEF SvcDecr, SvcEnd, Ending
  <2>3. QED
    BY <2>1, <2>2
<1>4. /\ svc' \in [Boxes -> Services]
      /\ \A a \in Boxes : /\ svc'[a].pc = "unborn" <=> svc[a].pc = "unborn"
                          /\ Alive(a)' = Alive(a)
      /\ \A a \in DirBoxes : svc'[a].pc \in Ending => svc[a].pc \in Ending
  BY <1>1, <1>2, <1>3, ServiceGoes
<1>5. UNCHANGED <<clients, sock, thr, registry, box, main, crash>>
  BY DEF SvcStart, SvcStop, SvcDecr, SvcEnd
<1>6. counter' \in Int /\ tcsem' \in Nat
  BY <1>1 DEF Typed, SvcStart, SvcStop, SvcDecr, SvcEnd, CountedIn, CountedOut, tcount
<1>7. Typed'
  BY <1>1, <1>4, <1>5, <1>6 DEF Typed, clients, registry
<1>8. NoneOpened /\ BoxesKept /\ RegistryKept
  BY <1>5, SameBoxes, SameRegistry DEF NoneOpened
<1>9. QED
  BY <1>4, <1>5, <1>7, <1>8, OtherStep DEF clients

(* A mailbox that has a service thread exists. *)
LEMMA ServedExists ==
  ASSUME IInv, NEW b \in Boxes, svc[b].pc # "unborn"
  PROVE  b \in DOMAIN box
BY DEF IInv, Locals

LEMMA SvcGetStep ==
  ASSUME IInv, NEW b \in Boxes, SvcGet(b)
  PROVE  IInv'
<1>1. Typed /\ svc[b] \in Services /\ svc[b].pc = "wait"
  BY DEF IInv, Typed, SvcGet
<1>2. b \in DOMAIN box
  BY <1>1, ServedExists
<1>3. box' \in Seq(Mailboxes) /\ Len(box') = Len(box) /\ BoxesKept /\ Head(box[b].queue) \in Entries
  BY <1>1, <1>2, TakenKeeps DEF SvcGet
<1> DEFINE e == Head(box[b].queue)
           s == [svc[b] EXCEPT !.entry = <<e>>,
                   !.pc = IF e.kind = "message" THEN "rrcpt" ELSE "send"]
<1>4. s \in Services /\ s.pc \in {"rrcpt", "send"}
  <2> HIDE DEF e
  <2>1. e \in Entries
    BY <1>3 DEF e
  <2>2. QED
    BY <1>1, <2>1 DEF Services, SvcPcs
<1>5. svc' = [svc EXCEPT ![b] = s]
  BY DEF SvcGet
<1> HIDE DEF s
<1>0. s.pc \notin Ending
  BY <1>4 DEF Ending
<1>6. /\ svc' \in [Boxes -> Services]
      /\ \A a \in Boxes : /\ svc'[a].pc = "unborn" <=> svc[a].pc = "unborn"
                          /\ Alive(a)' = Alive(a)
      /\ \A a \in DirBoxes : svc'[a].pc \in Ending => svc[a].pc \in Ending
  BY <1>0, <1>1, <1>4, <1>5, ServiceBecomes
<1>7. UNCHANGED <<clients, sock, thr, registry, tcount, main, crash>>
  BY DEF SvcGet
<1>8. Typed'
  BY <1>1, <1>3, <1>6, <1>7 DEF Typed, clients, registry, tcount
<1>9. NoneOpened /\ RegistryKept
  BY <1>7, SameRegistry DEF NoneOpened
<1>10. QED
  BY <1>3, <1>6, <1>7, <1>8, <1>9, OtherStep DEF clients

LEMMA SvcReceiptStep ==
  ASSUME IInv, NEW b \in Boxes, SvcReceipt(b)
  PROVE  IInv'
<1>1. /\ Typed /\ svc[b].pc = "rrcpt" /\ SvcGoto(b, "send")
      /\ "send" \in SvcPcs /\ "send" \notin Ending
  BY DEF IInv, SvcReceipt, SvcPcs, Ending
<1>2. box' \in Seq(Mailboxes) /\ Len(box') = Len(box) /\ BoxesKept
  <2>1. Notice("rrcpt", "none") \in Entries
    BY DEF Notice, Entries, Pointers
  <2>2. UNCHANGED box \/ \E f : box' = Added(f, Notice("rrcpt", "none"))
    BY DEF SvcReceipt
  <2>3. QED
    BY <1>1, <2>1, <2>2, SameBoxes, AddedKeeps DEF Typed
<1>3. /\ svc' \in [Boxes -> Services]
      /\ \A a \in Boxes : /\ svc'[a].pc = "unborn" <=> svc[a].pc = "unborn"
                          /\ Alive(a)' = Alive(a)
      /\ \A a \in DirBoxes : svc'[a].pc \in Ending => svc[a].pc \in Ending
  BY <1>1, ServiceGoes
<1>4. UNCHANGED <<clients, sock, thr, registry, tcount, main>> /\ crash' \in Crashes
  BY <1>1 DEF SvcReceipt, Typed, Crashes
<1>5. Typed'
  BY <1>1, <1>2, <1>3, <1>4 DEF Typed, clients, registry, tcount
<1>6. NoneOpened /\ RegistryKept
  BY <1>4, SameRegistry DEF NoneOpened
<1>7. QED
  BY <1>2, <1>3, <1>4, <1>5, <1>6, OtherStep DEF clients

LEMMA SvcSendStep ==
  ASSUME IInv, NEW b \in Boxes, SvcSend(b)
  PROVE  IInv'
<1>1. Typed /\ svc[b] \in Services /\ svc[b].pc = "send"
  BY DEF IInv, Typed, SvcSend
<1>2. owed' \in [Conns -> Int] /\ crash' \in Crashes
  BY <1>1, Written DEF SvcSend
<1> DEFINE s == [svc[b] EXCEPT !.pc = "wait", !.entry = <<>>]
<1>3. s \in Services /\ s.pc = "wait" /\ s.pc \notin Ending
  BY <1>1 DEF Services, SvcPcs, Ending
<1>4. svc' = [svc EXCEPT ![b] = s]
  BY DEF SvcSend
<1>5. /\ svc' \in [Boxes -> Services]
      /\ \A a \in Boxes : /\ svc'[a].pc = "unborn" <=> svc[a].pc = "unborn"
                          /\ Alive(a)' = Alive(a)
      /\ \A a \in DirBoxes : svc'[a].pc \in Ending => svc[a].pc \in Ending
  BY <1>1, <1>3, <1>4, ServiceBecomes
<1>6. UNCHANGED <<peer, budget, sock, thr, registry, box, tcount, main>>
  BY DEF SvcSend
<1>7. Typed'
  BY <1>1, <1>2, <1>5, <1>6 DEF Typed, registry, tcount
<1>8. NoneOpened /\ BoxesKept /\ RegistryKept
  BY <1>6, SameBoxes, SameRegistry DEF NoneOpened
<1>9. QED
  BY <1>5, <1>6, <1>7, <1>8, OtherStep

-----------------------------------------------------------------------------
(* Clients that leave, a thread that touches the freed counter, and the     *)
(* main thread.                                                             *)

LEMMA CloseStep ==
  ASSUME IInv, NEW c \in Conns, Close(c)
  PROVE  IInv'
<1>1. Typed
  BY DEF IInv
<1>2. /\ peer' \in [Conns -> {"new", "open", "gone"}]
      /\ \A d \in Conns : peer'[d] = "new" => peer[d] = "new"
  BY <1>1 DEF Typed, Close
<1>3. /\ UNCHANGED <<budget, sock, thr, svc, registry, box, tcount, main, crash>>
      /\ owed' \in [Conns -> Int]
  BY <1>1 DEF Close, Typed
<1>4. Typed'
  BY <1>1, <1>2, <1>3 DEF Typed, registry, tcount
<1>5. NoneOpened /\ BoxesKept /\ RegistryKept
  BY <1>3, SameBoxes, SameRegistry DEF NoneOpened
<1>6. \A a \in Boxes : Alive(a)' = Alive(a)
  BY <1>3 DEF Alive
<1>7. QED
  BY <1>2, <1>3, <1>4, <1>5, <1>6, OtherStep

LEMMA TouchFreedStep ==
  ASSUME IInv, TouchFreed
  PROVE  IInv'
<1>1. UNCHANGED <<clients, sock, thr, svc, registry, box, tcount, main>> /\ crash' \in Crashes
  BY DEF TouchFreed, Crashes
<1>2. Typed'
  BY <1>1 DEF IInv, Typed, clients, registry, tcount
<1>3. NoneOpened /\ BoxesKept /\ RegistryKept
  BY <1>1, SameBoxes, SameRegistry DEF NoneOpened
<1>4. \A a \in Boxes : Alive(a)' = Alive(a)
  BY <1>1 DEF Alive
<1>5. QED
  BY <1>1, <1>2, <1>3, <1>4, OtherStep DEF clients

(* The main thread goes on without having freed the directory.              *)
LEMMA MainGoesOn ==
  ASSUME IInv, Typed', UNCHANGED <<clients, thr, svc, dir, fds, box>>,
         Gone' <=> Gone, Registered'
  PROVE  IInv'
<1>1. UNCHANGED <<peer, thr, svc, dir, fds, box>>
  BY DEF clients
<1>2. Locals'
  BY <1>1 DEF IInv, Locals, ThreadOK
<1>3. OneOwner'
  BY <1>1 DEF IInv, OneOwner, DirBoxes, Gone
<1>4. CountsMatch' /\ Serving'
  BY <1>1 DEF IInv, CountsMatch, Held, DirBoxes, Serving
<1>5. QED
  BY <1>2, <1>3, <1>4 DEF IInv

LEMMA SighupStep ==
  ASSUME IInv, Sighup
  PROVE  IInv'
<1>1. Typed
  BY DEF IInv
<1>2. sock' \in [Fds -> [st : {"free", "open", "shut"}, conn : Conns \cup {"none"}]]
  <2>1. ASSUME NEW f \in Fds
        PROVE  /\ sock[f] \in [st : {"free", "open", "shut"}, conn : Conns \cup {"none"}]
               /\ [sock[f] EXCEPT !.st = "shut"]
                    \in [st : {"free", "open", "shut"}, conn : Conns \cup {"none"}]
    BY <1>1 DEF Typed
  <2>2. QED
    BY <2>1 DEF Sighup
<1>3. UNCHANGED <<clients, thr, svc, dir, fds, fdLocked, box, tcount, crash>>
  BY DEF Sighup
<1>4. Typed'
  BY <1>1, <1>2, <1>3 DEF Typed, Sighup, clients, tcount, Mains
<1>5. Registered'
  <2>1. ASSUME NEW i \in DOMAIN dir PROVE sock'[dir[i].fd].st # "open"
    <3>1. dir[i].fd \in Fds
      BY <1>1, ListsTyped
    <3>2. sock[dir[i].fd] \in [st : {"free", "open", "shut"}, conn : Conns \cup {"none"}]
      BY <1>1, <3>1 DEF Typed
    <3>3. QED
      BY <3>1, <3>2 DEF Sighup
  <2>2. ShutdownReachesAll'
    BY <1>3, <2>1 DEF ShutdownReachesAll
  <2>3. QED
    BY <1>3, <2>2 DEF IInv, Registered, Sighup, Gone
<1>6. Gone' <=> Gone
  BY DEF Sighup, Gone
<1>7. QED
  BY <1>3, <1>4, <1>5, <1>6, MainGoesOn

LEMMA MainThreadStep ==
  ASSUME IInv, WaitCheck \/ WaitP \/ Fini \/ Exit
  PROVE  IInv'
<1>1. /\ UNCHANGED <<clients, sock, thr, svc, registry, box, counter, crash>>
      /\ main' \in Mains /\ main # "accepting" /\ main' # "accepting" /\ (Gone' <=> Gone)
  BY DEF WaitCheck, WaitP, Fini, Exit, tcount, Gone, Mains
<1>2. tcsem' \in Nat
  BY DEF IInv, Typed, WaitCheck, WaitP, Fini, Exit, tcount
<1>3. Typed'
  BY <1>1, <1>2 DEF IInv, Typed, clients, registry
<1>4. Registered'
  BY <1>1 DEF IInv, Registered, ShutdownReachesAll, registry, Gone
<1>5. QED
  BY <1>1, <1>3, <1>4, MainGoesOn DEF registry

-----------------------------------------------------------------------------
(* Connections and logins. *)

LEMMA AcceptStep ==
  ASSUME IInv, NEW c \in Conns, Accept(c)
  PROVE  IInv'
<1>1. Typed /\ ThreadOK(c) /\ thr[c] \in Threads /\ thr[c].pc = "unborn" /\ peer[c] = "new"
  BY DEF IInv, Locals, Accept, Typed
<1>2. PICK f \in Fds :
        /\ sock' = [sock EXCEPT ![f] = [st |-> "open", conn |-> c]]
        /\ thr' = [thr EXCEPT ![c].pc = "created", ![c].fd = f]
  BY DEF Accept
<1> DEFINE t == [thr[c] EXCEPT !.pc = "created", !.fd = f]
<1>3. t \in Threads
  BY <1>1 DEF Threads, ClientPcs
<1>4. thr' = [thr EXCEPT ![c] = t]
  BY <1>2
<1>5. thr' \in [Conns -> Threads] /\ Only(c) /\ thr'[c] = t
  BY <1>1, <1>3, <1>4, Becomes
<1>6. /\ thr'[c].pc = "created" /\ thr'[c].fd = f /\ thr'[c].req = thr[c].req
      /\ thr'[c].rcv = thr[c].rcv /\ thr'[c].snd = thr[c].snd
  BY <1>1, <1>5 DEF Threads
<1>7. ThreadOK(c)'
  BY <1>1, <1>6 DEF ThreadOK, EmptyHanded, LoggingIn, Accept
<1>8. \A b \in Boxes : InHand(c, b)' = InHand(c, b)
  BY <1>6 DEF InHand
<1>9. /\ peer' = [peer EXCEPT ![c] = "open"] /\ main = "accepting"
      /\ UNCHANGED <<budget, owed, svc, registry, box, tcount, main, crash>>
  BY DEF Accept
<1>10. /\ peer' \in [Conns -> {"new", "open", "gone"}]
       /\ \A d \in Conns : peer'[d] = "new" => d # c /\ peer[d] = "new"
  BY <1>1, <1>9 DEF Typed
<1>11. sock' \in [Fds -> [st : {"free", "open", "shut"}, conn : Conns \cup {"none"}]]
  BY <1>1, <1>2 DEF Typed
<1>12. Typed'
  BY <1>1, <1>5, <1>9, <1>10, <1>11 DEF Typed, registry, tcount
<1>13. NoneOpened /\ BoxesKept /\ RegistryKept
  BY <1>9, SameBoxes, SameRegistry DEF NoneOpened
<1>14. thr'[c].pc \notin Owning /\ thr'[c].pc \notin LoggingIn
  BY <1>6 DEF Owning, LoggingIn
<1>15. QED
  BY <1>5, <1>7, <1>8, <1>9, <1>10, <1>12, <1>13, <1>14, PlainStep

(* dir_register refuses. *)
LEMMA RefusedStep ==
  ASSUME IInv, NEW c \in Conns, Register(c), Refused(thr[c].req.handle)
  PROVE  IInv'
<1>1. Goto(c, "nack") /\ thr[c].pc = "register" /\ "nack" \in ClientPcs /\ UNCHANGED box
  BY DEF Register, ClientPcs
<1>2. UNCHANGED <<clients, sock, svc, registry, tcount, main>> /\ crash' \in Crashes
  BY DEF Register, registry, IInv, Typed, Crashes
<1>3. Typed /\ ThreadOK(c)
  BY DEF IInv, Locals
<1>4. ThreadOK(c)'
  BY <1>1, <1>2, <1>3, Goes DEF ThreadOK, EmptyHanded, LoggingIn
<1>5. thr' \in [Conns -> Threads] => Typed'
  BY <1>1, <1>2, <1>3 DEF Typed, clients, registry, tcount
<1>6. NoneOpened /\ BoxesKept
  BY <1>1, <1>2, SameBoxes DEF NoneOpened
<1>7. QED
  BY <1>1, <1>2, <1>4, <1>5, <1>6, QuietGoto DEF clients, Owning, LoggingIn

(* dir_register makes a mailbox and enters it.                              *)
LEMMA RegisteredStep ==
  ASSUME IInv, NEW c \in Conns, Register(c), ~Refused(thr[c].req.handle)
  PROVE  IInv'
<1>0. PICK b \in Boxes : b = Len(box) + 1
  BY DEF Register
<1> DEFINE name == thr[c].req.handle
           node == [name |-> name, fd |-> thr[c].fd, box |-> b]
           t == [thr[c] EXCEPT !.pc = "addnode", !.rcv = b]
<1>1. /\ Typed /\ ThreadOK(c) /\ thr[c] \in Threads /\ NULL \notin Boxes
      /\ Len(box) \in Nat /\ DOMAIN box = 1 .. Len(box)
      /\ Len(dir) \in Nat /\ DOMAIN dir = 1 .. Len(dir)
      /\ DOMAIN box \subseteq Boxes
  BY BoxTyped, ListsTyped DEF IInv, Locals, Typed
<1>2. /\ b \in Boxes /\ b \notin DOMAIN box /\ b # NULL
  BY <1>0, <1>1
<1>3. /\ thr[c].pc = "register" /\ thr[c].req.type = "LOGIN" /\ name \in Handles
      /\ thr[c].rcv = NULL /\ thr[c].snd = NULL /\ thr[c].fd \in Fds
  BY <1>1 DEF ThreadOK, Register, EmptyHanded
<1>4. dirDefunct = "no" /\ main = "accepting"
  BY DEF Refused, IInv, Registered
<1>5. /\ box' = Append(box, NewBox(c))
      /\ dir' = Append(dir, node)
      /\ thr' = [thr EXCEPT ![c] = t]
  BY <1>0 DEF Register
<1>6. NewBox(c) \in Mailboxes /\ NewBox(c).ref = 2 /\ NewBox(c).name = name
      /\ ~NewBox(c).freed /\ ~NewBox(c).busy /\ ~NewBox(c).defunct
  <2>1. <<>> \in Seq(Entries)
    BY EmptySeq
  <2>2. QED
    BY <1>3, <2>1 DEF NewBox, Mailboxes
<1> HIDE DEF name
<1>7. /\ box' \in Seq(Mailboxes) /\ Len(box') = b /\ DOMAIN box' = 1 .. b
      /\ \A a \in DOMAIN box : box'[a] = box[a]
      /\ box'[b] = NewBox(c)
  <2>1. /\ box' \in Seq(Mailboxes) /\ Len(box') = b
        /\ \A a \in 1 .. Len(box) : box'[a] = box[a]
        /\ box'[b] = NewBox(c)
    BY <1>0, <1>1, <1>5, <1>6, AppendProperties DEF Typed
  <2>2. DOMAIN box' = 1 .. b
    BY <2>1, LenProperties
  <2>3. QED
    BY <1>1, <2>1, <2>2
<1>8. /\ dir' \in Seq(DirNodes) /\ DOMAIN dir' = 1 .. (Len(dir) + 1)
      /\ \A i \in DOMAIN dir : dir'[i] = dir[i]
      /\ dir'[Len(dir) + 1] = node
  <2>1. node \in DirNodes
    BY <1>2, <1>3 DEF DirNodes
  <2> HIDE DEF node
  <2>2. /\ dir' \in Seq(DirNodes) /\ Len(dir') = Len(dir) + 1
        /\ \A i \in 1 .. Len(dir) : dir'[i] = dir[i]
        /\ dir'[Len(dir) + 1] = node
    BY <1>1, <1>5, <2>1, AppendProperties DEF Typed
  <2>3. DOMAIN dir' = 1 .. (Len(dir) + 1)
    BY <2>2, LenProperties
  <2>4. QED
    BY <1>1, <2>2, <2>3
<1>9. t \in Threads
  BY <1>1, <1>2 DEF Threads, ClientPcs, Pointers
<1>10. thr' \in [Conns -> Threads] /\ Only(c) /\ thr'[c] = t
  BY <1>1, <1>5, <1>9, Becomes
<1>11. /\ thr'[c].pc = "addnode" /\ thr'[c].fd = thr[c].fd /\ thr'[c].req = thr[c].req
       /\ thr'[c].rcv = b /\ thr'[c].snd = NULL
  BY <1>1, <1>3, <1>10 DEF Threads
<1>12. /\ UNCHANGED <<clients, sock, svc, dirDefunct, fds, fdLocked, tcount, main>>
       /\ crash' \in Crashes
  BY <1>1 DEF Register, Typed, Crashes
<1> HIDE DEF t
<1>13. /\ DOMAIN box' = DOMAIN box \cup {b} /\ DirBoxes' = DirBoxes \cup {b}
  <2>1. DOMAIN box' = DOMAIN box \cup {b}
    BY <1>0, <1>1, <1>7
  <2>2. DOMAIN dir' = DOMAIN dir \cup {Len(dir) + 1}
    BY <1>1, <1>8
  <2>3. node.box = b
    OBVIOUS
  <2> HIDE DEF node
  <2>4. DirBoxes' = DirBoxes \cup {b}
    <3>1. DirBoxes' = {dir'[i].box : i \in DOMAIN dir}
                        \cup {dir'[Len(dir) + 1].box}
      BY <2>2 DEF DirBoxes
    <3>2. {dir'[i].box : i \in DOMAIN dir} = DirBoxes
      BY <1>8 DEF DirBoxes
    <3>3. QED
      BY <1>8, <2>3, <3>1, <3>2
  <2>5. QED
    BY <2>1, <2>4
<1>14. Typed'
  <2>1. Len(box') <= MaxBoxes
    BY <1>1, <1>2, <1>7, ConstantsOK DEF Boxes
  <2>2. QED
    BY <1>1, <1>7, <1>8, <1>10, <1>12, <2>1 DEF Typed, clients, tcount
<1>15. \A d \in Conns : /\ thr[d].rcv # b /\ thr[d].snd # b
  BY <1>2 DEF IInv, Locals, ThreadOK
<1>16. Locals'
  <2>1. svc'[b].pc = "unborn"
    BY <1>2, <1>12 DEF IInv, Locals
  <2>2. ThreadOK(c)'
    BY <1>2, <1>3, <1>11, <1>13, <2>1 DEF ThreadOK, EmptyHanded, LoggingIn
  <2>3. ASSUME NEW d \in Conns, d # c PROVE ThreadOK(d)'
    <3>1. ThreadOK(d) /\ thr'[d] = thr[d] /\ svc' = svc
      BY <1>10, <1>12, <2>3 DEF IInv, Locals, Only
    <3>2. QED
      BY <1>13, <3>1 DEF ThreadOK
  <2>4. ASSUME NEW d \in Conns, NEW e \in Conns, thr'[d].pc \in LoggingIn,
               thr'[e].pc \in LoggingIn, thr'[d].rcv = thr'[e].rcv
        PROVE  d = e
    BY <1>10, <1>11, <1>15, <2>4 DEF IInv, Locals, Only
  <2>5. \A d \in Conns : peer'[d] = "new" => thr'[d].pc = "unborn"
    <3>1. peer' = peer /\ peer[c] # "new"
      BY <1>3, <1>12 DEF clients, IInv, Locals
    <3>2. QED
      BY <1>10, <3>1 DEF IInv, Locals, Only
  <2>6. \A a \in Boxes : a \notin DOMAIN box' => svc'[a].pc = "unborn"
    BY <1>12, <1>13 DEF IInv, Locals
  <2>7. QED
    BY <2>2, <2>3, <2>4, <2>5, <2>6 DEF Locals
<1>17. Registered'
  <2> DEFINE n == Len(dir) + 1
  <2>1. DOMAIN dir' = DOMAIN dir \cup {n} /\ n \notin DOMAIN dir
    BY <1>1, <1>8
  <2>2. \A i \in DOMAIN dir : dir[i].name # name
    BY DEF Refused, name
  <2>3. dir'[n].name = name /\ dir'[n].box = b
    BY <1>8
  <2> HIDE DEF n
  <2>4. \A i, j \in DOMAIN dir' : dir'[i].name = dir'[j].name => i = j
    BY <1>8, <2>1, <2>2, <2>3 DEF IInv, Registered
  <2>5. ASSUME NEW i \in DOMAIN dir'
        PROVE  /\ dir'[i].box \in DOMAIN box'
               /\ box'[dir'[i].box].name = dir'[i].name
               /\ ~box'[dir'[i].box].freed /\ ~box'[dir'[i].box].busy
               /\ ~box'[dir'[i].box].defunct
    <3>1. CASE i = n
      BY <1>6, <1>7, <1>13, <2>3, <3>1
    <3>2. CASE i \in DOMAIN dir
      <4>1. /\ dir[i].box \in DOMAIN box /\ box[dir[i].box].name = dir[i].name
            /\ ~box[dir[i].box].freed /\ ~box[dir[i].box].busy /\ ~box[dir[i].box].defunct
        BY <3>2 DEF IInv, Registered
      <4>2. dir'[i] = dir[i] /\ box'[dir[i].box] = box[dir[i].box]
        BY <1>7, <1>8, <3>2, <4>1
      <4>3. QED
        BY <1>13, <4>1, <4>2
    <3>3. QED
      BY <2>1, <3>1, <3>2
  <2>6. QED
    BY <1>4, <1>12, <2>4, <2>5 DEF IInv, Registered, ShutdownReachesAll, Gone
<1>18. OneOwner'
  <2>1. fds' = fds /\ \A i \in DOMAIN fds : fds[i].box # b
    BY <1>2, <1>12 DEF IInv, OneOwner
  <2>2. ASSUME NEW d \in Conns, thr'[d].pc \in Owning
        PROVE  /\ \A i \in DOMAIN fds : fds[i].box # thr'[d].rcv
               /\ ~Gone => thr'[d].rcv \in DirBoxes'
    BY <1>10, <1>11, <1>13, <2>1, <2>2 DEF IInv, OneOwner, Only
  <2>3. ASSUME NEW d \in Conns, NEW e \in Conns, thr'[d].pc \in Owning,
               thr'[e].pc \in Owning, thr'[d].rcv = thr'[e].rcv
        PROVE  d = e
    BY <1>10, <1>11, <1>15, <2>3 DEF IInv, OneOwner, Only
  <2>4. Gone' <=> Gone
    BY <1>12 DEF Gone
  <2>5. QED
    BY <1>13, <2>1, <2>2, <2>3, <2>4 DEF IInv, OneOwner
<1>19. CountsMatch'
  <2>1. ASSUME NEW a \in DOMAIN box, ~box'[a].busy PROVE box'[a].ref = Held(a)'
    <3>1. box'[a].ref = box[a].ref /\ box[a].ref = Held(a)
      BY <1>7, <2>1 DEF IInv, CountsMatch
    <3>2. a # b /\ a # NULL
      BY <1>1, <1>2
    <3>3. InDir(a)' = InDir(a) /\ Alive(a)' = Alive(a)
      BY <1>12, <1>13, <3>2 DEF InDir, Alive
    <3>4. InHands(a)' = InHands(a)
      <4>1. InHand(c, a) = 0 /\ InHand(c, a)' = 0
        BY <1>3, <1>11, <3>2 DEF InHand
      <4>2. /\ InHands(a)' - InHands(a) = InHand(c, a)' - InHand(c, a)
            /\ InHands(a) \in Nat /\ InHands(a)' \in Nat
        BY <1>10, HandsMove
      <4>3. QED
        BY <4>1, <4>2
    <3>5. Held(a)' = Held(a)
      BY <3>3, <3>4, HeldIs
    <3>6. QED
      BY <3>1, <3>5
  <2>2. box'[b].ref = Held(b)'
    <3>1. SndOf(b)' = {} /\ RcvOf(b)' = {}
      BY <1>2, <1>3, <1>10, <1>11, <1>15 DEF SndOf, RcvOf, Only
    <3>2. InHands(b)' = 0
      BY <3>1, FS_EmptySet DEF InHands
    <3>3. InDir(b)' = 1
      BY <1>13 DEF InDir
    <3>4. Alive(b)' = 1
      BY <1>2, <1>12 DEF IInv, Locals, Alive
    <3>5. QED
      BY <1>6, <1>7, <3>2, <3>3, <3>4, HeldIs
  <2>3. QED
    BY <1>13, <2>1, <2>2 DEF CountsMatch
<1>20. Serving'
  <2>1. svc'[b].pc \notin Ending
    <3>1. svc'[b].pc = "unborn"
      BY <1>2, <1>12 DEF IInv, Locals
    <3>2. QED
      BY <3>1 DEF Ending
  <2>2. \A a \in DirBoxes : svc'[a].pc \notin Ending
    BY <1>12 DEF IInv, Serving
  <2>3. \A a \in DOMAIN box : box'[a].busy => box'[a].ref = 0
    BY <1>7 DEF IInv, Serving
  <2>4. QED
    BY <1>6, <1>7, <1>13, <2>1, <2>2, <2>3 DEF Serving
<1>21. QED
  BY <1>14, <1>16, <1>17, <1>18, <1>19, <1>20 DEF IInv

LEMMA AddNodeStep ==
  ASSUME IInv, NEW c \in Conns, AddNode(c)
  PROVE  IInv'
<1> DEFINE b == thr[c].rcv
           node == [fd |-> thr[c].fd, box |-> b]
           n == Len(fds) + 1
<1>1. /\ Typed /\ ThreadOK(c) /\ DOMAIN box \subseteq Boxes
      /\ Len(fds) \in Nat /\ DOMAIN fds = 1 .. Len(fds)
  BY BoxTyped, ListsTyped DEF IInv, Locals
<1>2. /\ thr[c].pc = "addnode" /\ b \in DOMAIN box /\ thr[c].req.type = "LOGIN"
      /\ thr[c].snd = NULL /\ thr[c].fd \in Fds
  BY <1>1 DEF AddNode, ThreadOK, LoggingIn
<1>3. Goto(c, "loginack") /\ "loginack" \in ClientPcs /\ fds' = Append(fds, node)
  BY DEF AddNode, ClientPcs
<1>4. UNCHANGED <<clients, sock, svc, dir, dirDefunct, fdLocked, box, tcount, main, crash>>
  BY DEF AddNode
<1>5. /\ thr' \in [Conns -> Threads] /\ Only(c)
      /\ thr'[c].pc = "loginack" /\ thr'[c].fd = thr[c].fd /\ thr'[c].req = thr[c].req
      /\ thr'[c].rcv = b /\ thr'[c].snd = NULL
      /\ \A a : InHand(c, a)' = InHand(c, a)
  BY <1>1, <1>2, <1>3, Goes
<1>6. /\ fds' \in Seq(FdNodes) /\ DOMAIN fds' = DOMAIN fds \cup {n} /\ n \notin DOMAIN fds
      /\ \A i \in DOMAIN fds : fds'[i] = fds[i]
      /\ fds'[n].box = b
  <2>1. node \in FdNodes /\ node.box = b
    BY <1>1, <1>2 DEF FdNodes
  <2> HIDE DEF node
  <2>2. /\ fds' \in Seq(FdNodes) /\ Len(fds') = n
        /\ \A i \in 1 .. Len(fds) : fds'[i] = fds[i]
        /\ fds'[n] = node
    BY <1>1, <1>3, <2>1, AppendProperties DEF Typed
  <2>3. DOMAIN fds' = 1 .. n
    BY <2>2, LenProperties
  <2>4. QED
    BY <1>1, <2>1, <2>2, <2>3
<1> HIDE DEF b, n
<1>7. Typed'
  BY <1>1, <1>4, <1>5, <1>6 DEF Typed, clients, tcount
<1>8. Locals'
  <2>1. ThreadOK(c)'
    BY <1>1, <1>2, <1>4, <1>5 DEF ThreadOK, EmptyHanded, LoggingIn, b
  <2>2. \A d \in Conns : peer'[d] = "new" => d # c /\ peer[d] = "new"
    BY <1>2, <1>4 DEF IInv, Locals, clients
  <2>3. thr[c].pc \in LoggingIn /\ thr'[c].rcv = thr[c].rcv
    BY <1>2, <1>5 DEF LoggingIn, b
  <2>4. QED
    BY <1>4, <1>5, <2>1, <2>2, <2>3, LocalsMove DEF IInv
<1>9. Registered'
  BY <1>4 DEF IInv, Registered, ShutdownReachesAll, Gone
<1>10. OneOwner'
  <2>1. \A i \in DOMAIN fds : fds[i].box # b
    BY <1>2 DEF IInv, OneOwner, Owning, b
  <2>2. \A i, j \in DOMAIN fds' : fds'[i].box = fds'[j].box => i = j
    BY <1>6, <2>1 DEF IInv, OneOwner
  <2>3. ASSUME NEW d \in Conns, thr'[d].pc \in Owning
        PROVE  /\ d # c /\ thr[d].pc \in Owning /\ thr'[d].rcv = thr[d].rcv
               /\ thr[d].rcv # b
    <3>1. d # c /\ thr'[d] = thr[d]
      BY <1>5, <2>3 DEF Owning, Only
    <3>2. thr[c].pc \in Owning /\ thr[d].pc \in Owning
      BY <1>2, <2>3, <3>1 DEF Owning
    <3>3. thr[d].rcv # b
      BY <3>1, <3>2 DEF IInv, OneOwner, b
    <3>4. QED
      BY <3>1, <3>2, <3>3
  <2>4. \A i \in DOMAIN fds' : \/ i \in DOMAIN fds /\ fds'[i].box = fds[i].box
                               \/ fds'[i].box = b
    BY <1>6
  <2>5. ~Gone => b \in DirBoxes
    BY <1>2 DEF IInv, OneOwner, Owning, b
  <2>6. /\ \A i \in DOMAIN fds' : fds'[i].box \in DOMAIN box
        /\ ~Gone => \A i \in DOMAIN fds' : fds'[i].box \in DirBoxes
    BY <1>2, <2>4, <2>5 DEF IInv, OneOwner, b
  <2>7. \A d \in Conns : thr'[d].pc \in Owning
          => \A i \in DOMAIN fds' : fds'[i].box # thr'[d].rcv
    BY <2>3, <2>4 DEF IInv, OneOwner
  <2>8. \A d, e \in Conns : /\ thr'[d].pc \in Owning /\ thr'[e].pc \in Owning
                            /\ thr'[d].rcv = thr'[e].rcv
                            => d = e
    BY <2>3 DEF IInv, OneOwner
  <2>9. ~Gone => \A d \in Conns : thr'[d].pc \in Owning => thr'[d].rcv \in DirBoxes
    BY <2>3 DEF IInv, OneOwner
  <2>10. UNCHANGED <<Gone, DirBoxes>> /\ DOMAIN box' = DOMAIN box
    BY <1>4 DEF Gone, DirBoxes
  <2>11. QED
    BY <2>2, <2>6, <2>7, <2>8, <2>9, <2>10 DEF OneOwner
<1>11. CountsMatch'
  <2>1. BoxesKept /\ UNCHANGED dir
    BY <1>4, SameBoxes
  <2>2. \A a \in DOMAIN box : Alive(a)' = Alive(a) /\ InHands(a)' = InHands(a)
    <3>1. ASSUME NEW a PROVE InHands(a)' = InHands(a)
      <4>1. InHand(c, a)' = InHand(c, a)
        BY <1>5
      <4>2. QED
        BY <1>5, <4>1, HandsMove
    <3>2. QED
      BY <1>4, <3>1 DEF Alive
  <2>3. QED
    BY <1>1, <2>1, <2>2, CountsKept DEF IInv
<1>12. Serving'
  BY <1>4, SameBoxes, ServingKept DEF IInv
<1>13. QED
  BY <1>7, <1>8, <1>9, <1>10, <1>11, <1>12 DEF IInv

(* The mailbox service thread of a login is created. *)
LEMMA SpawnStep ==
  ASSUME IInv, NEW c \in Conns, Spawn(c)
  PROVE  IInv' /\ thr[c].rcv \in Boxes /\ svc[thr[c].rcv].pc = "unborn"
<1>1. /\ Typed /\ ThreadOK(c) /\ DOMAIN box \subseteq Boxes /\ NULL \notin Boxes
  BY BoxTyped DEF IInv, Locals
<1>2. PICK b \in Boxes : b = thr[c].rcv /\ b \in DOMAIN box
  BY <1>1 DEF Spawn, ThreadOK, LoggingIn
<1>3. /\ thr[c].pc = "spawn" /\ thr[c].req.type = "LOGIN"
      /\ thr[c].snd = NULL /\ thr[c].fd \in Fds /\ svc[b].pc = "unborn"
  BY <1>1, <1>2 DEF Spawn, ThreadOK, LoggingIn
<1> DEFINE s == [svc[b] EXCEPT !.pc = "created", !.fd = thr[c].fd]
<1>4. svc' = [svc EXCEPT ![b] = s] /\ thr' = Done(c)
  BY <1>2 DEF Spawn, Finish
<1>5. s \in Services /\ s.pc = "created"
  <2>1. svc[b] \in Services
    BY <1>1 DEF Typed
  <2>2. QED
    BY <1>3, <2>1 DEF Services, SvcPcs
<1> HIDE DEF s
<1>6. /\ svc' \in [Boxes -> Services] /\ svc'[b].pc = "created"
      /\ \A a \in Boxes \ {b} : svc'[a] = svc[a]
  BY <1>1, <1>4, <1>5 DEF Typed
<1>7. /\ thr' \in [Conns -> Threads] /\ Only(c) /\ thr'[c].pc = "recv"
      /\ thr'[c].rcv = NULL /\ thr'[c].snd = NULL
      /\ ThreadOK(c)' /\ \A a \in Boxes : InHand(c, a)' = 0
  BY <1>3, <1>4, Finishes
<1>8. UNCHANGED <<clients, sock, registry, box, tcount, main, crash>>
  BY DEF Spawn
<1>9. Typed'
  BY <1>1, <1>6, <1>7, <1>8 DEF Typed, clients, registry, tcount
<1>10. Locals'
  <2>1. ASSUME NEW d \in Conns, d # c PROVE ThreadOK(d)'
    <3>1. ThreadOK(d) /\ thr'[d] = thr[d] /\ box' = box
      BY <1>7, <1>8, <2>1 DEF IInv, Locals, Only
    <3>2. thr[d].pc \in LoggingIn => /\ thr[d].rcv # b /\ thr[d].rcv \in Boxes
      <4>1. ASSUME thr[d].pc \in LoggingIn PROVE thr[d].rcv # b
        <5>1. thr[c].pc \in LoggingIn
          BY <1>3 DEF LoggingIn
        <5>2. QED
          BY <1>2, <2>1, <4>1, <5>1 DEF IInv, Locals
      <4>2. ASSUME thr[d].pc \in LoggingIn PROVE thr[d].rcv \in Boxes
        BY <1>1, <3>1, <4>2 DEF ThreadOK
      <4>3. QED
        BY <4>1, <4>2
    <3>3. thr[d].pc \in LoggingIn => svc'[thr[d].rcv].pc = "unborn"
      BY <1>6, <3>1, <3>2 DEF ThreadOK
    <3>4. QED
      BY <3>1, <3>3 DEF ThreadOK
  <2>2. \A d, e \in Conns : /\ thr'[d].pc \in LoggingIn /\ thr'[e].pc \in LoggingIn
                            /\ thr'[d].rcv = thr'[e].rcv
                            => d = e
    BY <1>7 DEF IInv, Locals, Only, LoggingIn
  <2>3. \A d \in Conns : peer'[d] = "new" => thr'[d].pc = "unborn"
    BY <1>3, <1>7, <1>8 DEF IInv, Locals, Only, clients
  <2>4. \A a \in Boxes : a \notin DOMAIN box' => svc'[a].pc = "unborn"
    BY <1>2, <1>6, <1>8 DEF IInv, Locals
  <2>5. QED
    BY <1>7, <2>1, <2>2, <2>3, <2>4 DEF Locals
<1>11. RegistryKept /\ BoxesKept /\ NoneOpened
  BY <1>8, SameRegistry, SameBoxes DEF NoneOpened
<1>12. Registered'
  BY <1>1, <1>11, RegisteredKept DEF IInv
<1>13. OneOwner'
  <2>1. \A d \in Conns : thr'[d].pc \in Owning => thr[d].pc \in Owning /\ thr'[d].rcv = thr[d].rcv
    BY <1>7 DEF Only, Owning
  <2>2. QED
    BY <1>8, <1>11, <2>1, OneOwnerKept DEF IInv
<1>14. CountsMatch'
  <2>1. ASSUME NEW a \in DOMAIN box
        PROVE  Alive(a)' = Alive(a) /\ InHands(a)' = InHands(a)
    <3>1. Alive(a)' = Alive(a)
      BY <1>1, <1>3, <1>6 DEF Alive
    <3>2. InHand(c, a) = 0 /\ InHand(c, a)' = 0
      BY <1>1, <1>3, <1>7 DEF InHand
    <3>3. /\ InHands(a)' - InHands(a) = InHand(c, a)' - InHand(c, a)
          /\ InHands(a) \in Nat /\ InHands(a)' \in Nat
      BY <1>7, HandsMove
    <3>4. InHands(a)' = InHands(a)
      BY <3>2, <3>3
    <3>5. QED
      BY <3>1, <3>4
  <2>2. UNCHANGED dir
    BY <1>8 DEF registry
  <2>3. QED
    BY <1>1, <1>11, <2>1, <2>2, CountsKept DEF IInv
<1>15. Serving'
  <2>1. svc'[b].pc \notin Ending
    BY <1>6 DEF Ending
  <2>2. \A a \in DirBoxes : svc'[a].pc \in Ending => svc[a].pc \in Ending
    BY <1>1, <1>6, <2>1, ListsTyped DEF DirBoxes
  <2>3. QED
    BY <1>8, <1>11, <2>2, ServingKept DEF IInv, registry
<1>16. QED
  BY <1>2, <1>3, <1>9, <1>10, <1>12, <1>13, <1>14, <1>15 DEF IInv

-----------------------------------------------------------------------------
(* Logouts. *)

(* removeNode finds none and leaves the list locked. *)
LEMMA NotFoundStep ==
  ASSUME IInv, NEW c \in Conns, RemoveNode(c), {i \in DOMAIN fds : fds[i].fd = thr[c].fd} = {}
  PROVE  IInv'
<1>1. Typed /\ ThreadOK(c) /\ thr[c].pc = "remove" /\ "shut" \in ClientPcs
  BY DEF IInv, Locals, RemoveNode, ClientPcs
<1>2. Goto(c, "shut") /\ fds' = fds /\ fdLocked' \in BOOLEAN
      /\ UNCHANGED <<clients, sock, svc, dir, dirDefunct, box, tcount, main, crash>>
  BY DEF RemoveNode
<1>3. /\ thr' \in [Conns -> Threads] /\ Only(c)
      /\ thr'[c].pc = "shut" /\ thr'[c].fd = thr[c].fd /\ thr'[c].req = thr[c].req
      /\ thr'[c].rcv = thr[c].rcv /\ thr'[c].snd = thr[c].snd
      /\ \A b : InHand(c, b)' = InHand(c, b)
  BY <1>1, <1>2, Goes
<1>4. ThreadOK(c)'
  BY <1>1, <1>2, <1>3 DEF ThreadOK, EmptyHanded, LoggingIn
<1>5. Typed'
  BY <1>1, <1>2, <1>3 DEF Typed, clients, tcount
<1>6. NoneOpened /\ BoxesKept /\ RegistryKept
  BY <1>2, SameBoxes DEF NoneOpened, RegistryKept
<1>7. QED
  BY <1>1, <1>2, <1>3, <1>4, <1>5, <1>6, QuietStep DEF clients, Owning, LoggingIn

(* removeNode takes a node out and keeps its mailbox.                       *)
LEMMA FoundStep ==
  ASSUME IInv, NEW c \in Conns, RemoveNode(c), {i \in DOMAIN fds : fds[i].fd = thr[c].fd} # {}
  PROVE  IInv'
<1>1. /\ Typed /\ ThreadOK(c) /\ thr[c] \in Threads
      /\ DOMAIN box \subseteq Boxes /\ NULL \notin Boxes
      /\ Len(fds) \in Nat /\ DOMAIN fds = 1 .. Len(fds)
  BY BoxTyped, ListsTyped DEF IInv, Locals, Typed
<1>2. /\ thr[c].pc = "remove" /\ thr[c].rcv = NULL /\ thr[c].snd = NULL
      /\ thr[c].req.type # "SEND" /\ thr[c].fd \in Fds
  BY <1>1 DEF RemoveNode, ThreadOK, EmptyHanded
<1>3. PICK i \in DOMAIN fds :
        /\ thr' = [thr EXCEPT ![c].pc = "unregister", ![c].rcv = fds[i].box]
        /\ fds' = RemoveAt(fds, i)
  <2> DEFINE mine == {i \in DOMAIN fds : fds[i].fd = thr[c].fd}
             i == CHOOSE i \in mine : \A j \in mine : i <= j
  <2>1. mine # {} /\ mine \subseteq Nat
    BY <1>1
  <2> HIDE DEF mine
  <2>2. \E k \in mine : \A j \in mine : k <= j
    BY <2>1, NatMinimum
  <2>3. i \in mine
    BY <2>2
  <2>4. /\ thr' = [thr EXCEPT ![c].pc = "unregister", ![c].rcv = fds[i].box]
        /\ fds' = RemoveAt(fds, i)
    BY DEF RemoveNode, mine
  <2>5. i \in DOMAIN fds
    BY <2>3 DEF mine
  <2>6. QED
    BY <2>4, <2>5
<1>4. PICK b \in Boxes : b = fds[i].box /\ b \in DOMAIN box
  BY <1>1 DEF IInv, OneOwner
<1> DEFINE t == [thr[c] EXCEPT !.pc = "unregister", !.rcv = b]
<1>5. t \in Threads
  BY <1>1 DEF Threads, ClientPcs, Pointers
<1>6. thr' = [thr EXCEPT ![c] = t]
  BY <1>3, <1>4
<1>7. /\ thr' \in [Conns -> Threads] /\ Only(c) /\ thr'[c] = t
  BY <1>1, <1>5, <1>6, Becomes
<1>8. /\ thr'[c].pc = "unregister" /\ thr'[c].fd = thr[c].fd /\ thr'[c].req = thr[c].req
      /\ thr'[c].rcv = b /\ thr'[c].snd = NULL
  BY <1>1, <1>2, <1>7 DEF Threads
<1> HIDE DEF t
<1>9. /\ UNCHANGED <<clients, sock, svc, dir, dirDefunct, box, tcount, main, crash>>
      /\ fdLocked' \in BOOLEAN
  BY <1>1 DEF RemoveNode, Typed
<1>10. /\ fds' \in Seq(FdNodes)
       /\ \A j \in DOMAIN fds' : \E k \in DOMAIN fds \ {i} : fds'[j] = fds[k]
       /\ \A j, k \in DOMAIN fds' : j # k =>
            \E m, n \in DOMAIN fds \ {i} : m # n /\ fds'[j] = fds[m] /\ fds'[k] = fds[n]
  <2>1. fds \in Seq(FdNodes) /\ fds' = RemoveAt(fds, i)
    BY <1>1, <1>3 DEF Typed
  <2> DEFINE r == RemoveAt(fds, i)
  <2>2. /\ r \in Seq(FdNodes)
        /\ \A j \in DOMAIN r : \E k \in DOMAIN fds \ {i} : r[j] = fds[k]
        /\ \A j, k \in DOMAIN r : j # k =>
             \E m, n \in DOMAIN fds \ {i} : m # n /\ r[j] = fds[m] /\ r[k] = fds[n]
    BY <2>1, Removed
  <2> HIDE DEF r
  <2>3. fds' = r
    BY <2>1 DEF r
  <2>4. QED
    BY <2>2, <2>3
<1>11. Typed'
  BY <1>1, <1>7, <1>9, <1>10 DEF Typed, clients, tcount
<1>12. Locals'
  <2>1. ThreadOK(c)'
    BY <1>1, <1>2, <1>4, <1>8, <1>9 DEF ThreadOK, EmptyHanded, LoggingIn
  <2>2. \A d \in Conns : peer'[d] = "new" => d # c /\ peer[d] = "new"
    BY <1>2, <1>9 DEF IInv, Locals, clients
  <2>3. thr'[c].pc \notin LoggingIn
    BY <1>8 DEF LoggingIn
  <2>4. QED
    BY <1>7, <1>9, <2>1, <2>2, <2>3, LocalsMove DEF IInv
<1>13. Registered'
  BY <1>9 DEF IInv, Registered, ShutdownReachesAll, Gone
<1>14. OneOwner'
  <2>1. ASSUME NEW j \in DOMAIN fds'
        PROVE  \E k \in DOMAIN fds : fds'[j].box = fds[k].box /\ fds[k].box # b
    <3>1. PICK k \in DOMAIN fds \ {i} : fds'[j] = fds[k]
      BY <1>10
    <3>2. fds[k].box # b
      BY <1>4 DEF IInv, OneOwner
    <3>3. QED
      BY <3>1, <3>2
  <2>2. ASSUME NEW d \in Conns, thr'[d].pc \in Owning, d # c
        PROVE  /\ thr[d].pc \in Owning /\ thr'[d].rcv = thr[d].rcv /\ thr[d].rcv # b
    <3>1. thr'[d] = thr[d]
      BY <1>7, <2>2 DEF Only
    <3>2. QED
      BY <1>4, <2>2, <3>1 DEF IInv, OneOwner
  <2>3. \A j, k \in DOMAIN fds' : fds'[j].box = fds'[k].box => j = k
    BY <1>10 DEF IInv, OneOwner
  <2>4. \A d \in Conns : thr'[d].pc \in Owning
          => \A j \in DOMAIN fds' : fds'[j].box # thr'[d].rcv
    BY <1>8, <2>1, <2>2 DEF IInv, OneOwner
  <2>5. \A d, e \in Conns : /\ thr'[d].pc \in Owning /\ thr'[e].pc \in Owning
                            /\ thr'[d].rcv = thr'[e].rcv
                            => d = e
    BY <1>8, <2>2 DEF IInv, OneOwner
  <2>6. ~Gone => /\ \A j \in DOMAIN fds' : fds'[j].box \in DirBoxes
                 /\ \A d \in Conns : thr'[d].pc \in Owning => thr'[d].rcv \in DirBoxes
    BY <1>4, <1>8, <2>1, <2>2 DEF IInv, OneOwner
  <2>7. \A j \in DOMAIN fds' : fds'[j].box \in DOMAIN box
    BY <2>1 DEF IInv, OneOwner
  <2>8. UNCHANGED <<Gone, DirBoxes>> /\ DOMAIN box' = DOMAIN box
    BY <1>9 DEF Gone, DirBoxes
  <2>9. QED
    BY <2>3, <2>4, <2>5, <2>6, <2>7, <2>8 DEF OneOwner
<1>15. CountsMatch'
  <2>1. BoxesKept /\ UNCHANGED dir
    BY <1>9, SameBoxes
  <2>2. ASSUME NEW a \in DOMAIN box
        PROVE  Alive(a)' = Alive(a) /\ InHands(a)' = InHands(a)
    <3>1. InHand(c, a) = 0 /\ InHand(c, a)' = 0
      BY <1>1, <1>2, <1>8 DEF InHand
    <3>2. /\ InHands(a)' - InHands(a) = InHand(c, a)' - InHand(c, a)
          /\ InHands(a) \in Nat /\ InHands(a)' \in Nat
      BY <1>7, HandsMove
    <3>3. InHands(a)' = InHands(a)
      BY <3>1, <3>2
    <3>4. QED
      BY <1>9, <3>3 DEF Alive
  <2>3. QED
    BY <1>1, <2>1, <2>2, CountsKept DEF IInv
<1>16. Serving'
  BY <1>9, SameBoxes, ServingKept DEF IInv
<1>17. QED
  BY <1>11, <1>12, <1>13, <1>14, <1>15, <1>16 DEF IInv

(* A mailbox with another count, and shut down, or freed or locked.         *)
LEMMA CountChanged ==
  ASSUME NEW m \in Mailboxes
  PROVE  /\ m.ref \in Int /\ m.ref - 1 \in Int
         /\ LET n == [m EXCEPT !.ref = @ - 1]
            IN  n \in Mailboxes /\ n.ref = m.ref - 1 /\ n.name = m.name
                /\ n.defunct = m.defunct /\ n.freed = m.freed /\ n.busy = m.busy
         /\ LET n == [m EXCEPT !.ref = @ + 1]
            IN  n \in Mailboxes /\ n.ref = m.ref + 1 /\ n.name = m.name
                /\ n.defunct = m.defunct /\ n.freed = m.freed /\ n.busy = m.busy
         /\ LET n == [m EXCEPT !.ref = @ - 1, !.defunct = TRUE]
            IN  n \in Mailboxes /\ n.ref = m.ref - 1 /\ n.name = m.name
                /\ n.freed = m.freed /\ n.busy = m.busy
<1>1. m.ref \in Int /\ m.ref - 1 \in Int /\ m.ref + 1 \in Int
  BY DEF Mailboxes
<1>2. LET n == [m EXCEPT !.ref = m.ref - 1]
      IN  n \in Mailboxes /\ n.ref = m.ref - 1 /\ n.name = m.name
          /\ n.defunct = m.defunct /\ n.freed = m.freed /\ n.busy = m.busy
  BY <1>1 DEF Mailboxes
<1>3. LET n == [m EXCEPT !.ref = m.ref + 1]
      IN  n \in Mailboxes /\ n.ref = m.ref + 1 /\ n.name = m.name
          /\ n.defunct = m.defunct /\ n.freed = m.freed /\ n.busy = m.busy
  BY <1>1 DEF Mailboxes
<1>4. LET n == [m EXCEPT !.ref = m.ref - 1, !.defunct = TRUE]
      IN  n \in Mailboxes /\ n.ref = m.ref - 1 /\ n.name = m.name
          /\ n.freed = m.freed /\ n.busy = m.busy
  BY <1>1 DEF Mailboxes
<1>5. QED
  BY <1>1, <1>2, <1>3, <1>4

(* What Unref makes of a mailbox it finalizes. *)
Final(m, f, l) == [m EXCEPT !.ref = 0, !.freed = f, !.busy = l]

LEMMA Finalized ==
  ASSUME NEW m \in Mailboxes, NEW f \in BOOLEAN, NEW l \in BOOLEAN
  PROVE  LET n == Final(m, f, l)
         IN  n \in Mailboxes /\ n.ref = 0 /\ n.name = m.name /\ n.defunct = m.defunct
             /\ n.queue = m.queue /\ n.freed = f /\ n.busy = l
<1> DEFINE p == [m EXCEPT !.ref = 0]
           q == [p EXCEPT !.freed = f]
           r == [q EXCEPT !.busy = l]
<1>1. p \in Mailboxes /\ p.ref = 0 /\ p.name = m.name /\ p.defunct = m.defunct
      /\ p.queue = m.queue
  BY DEF Mailboxes
<1>2. r = Final(m, f, l)
  BY DEF Mailboxes, Final
<1> HIDE DEF p
<1>3. /\ q \in Mailboxes /\ q.ref = 0 /\ q.name = m.name /\ q.defunct = m.defunct
      /\ q.queue = m.queue /\ q.freed = f
  BY <1>1 DEF Mailboxes
<1> HIDE DEF q
<1>4. /\ r \in Mailboxes /\ r.ref = 0 /\ r.name = m.name /\ r.defunct = m.defunct
      /\ r.queue = m.queue /\ r.freed = f /\ r.busy = l
  BY <1>3 DEF Mailboxes
<1> HIDE DEF r
<1>5. QED
  BY <1>2, <1>4

(* A mailbox's record is replaced. *)
LEMMA MailboxBecomes ==
  ASSUME Typed, NEW b \in DOMAIN box, NEW m \in Mailboxes, box' = [box EXCEPT ![b] = m]
  PROVE  /\ box' \in Seq(Mailboxes) /\ Len(box') = Len(box) /\ DOMAIN box' = DOMAIN box
         /\ box'[b] = m /\ \A a \in DOMAIN box \ {b} : box'[a] = box[a]
<1>1. box \in [DOMAIN box -> Mailboxes]
  BY BoxTyped
<1>2. box' \in [DOMAIN box -> Mailboxes] /\ box'[b] = m
      /\ \A a \in DOMAIN box \ {b} : box'[a] = box[a]
  BY <1>1
<1>3. QED
  BY <1>2, BoxesTyped

(* dir_unregister does not find the mailbox: only after dir_fini.           *)
LEMMA UnknownStep ==
  ASSUME IInv, NEW c \in Conns, Unregister(c), UNCHANGED <<dir, box>>
  PROVE  IInv'
<1>1. Typed /\ ThreadOK(c) /\ thr[c] \in Threads /\ NULL \notin Boxes
  BY BoxTyped DEF IInv, Locals, Typed
<1>2. /\ thr[c].pc = "unregister" /\ thr[c].snd = NULL
      /\ thr[c].req.type # "SEND" /\ thr[c].fd \in Fds
  BY <1>1 DEF Unregister, ThreadOK
<1> DEFINE t == [thr[c] EXCEPT !.pc = "shut", !.rcv = NULL]
<1>3. t \in Threads
  BY <1>1 DEF Threads, ClientPcs, Pointers
<1>4. thr' = [thr EXCEPT ![c] = t]
  BY DEF Unregister
<1>5. thr' \in [Conns -> Threads] /\ Only(c) /\ thr'[c] = t
  BY <1>1, <1>3, <1>4, Becomes
<1>6. /\ thr'[c].pc = "shut" /\ thr'[c].fd = thr[c].fd /\ thr'[c].req = thr[c].req
      /\ thr'[c].rcv = NULL /\ thr'[c].snd = NULL
  BY <1>1, <1>2, <1>5 DEF Threads
<1>7. ThreadOK(c)'
  BY <1>2, <1>6 DEF ThreadOK, EmptyHanded, LoggingIn
<1>8. \A b \in Boxes : InHand(c, b)' = InHand(c, b)
  BY <1>1, <1>2, <1>6 DEF InHand
<1>9. Typed'
  BY <1>1, <1>5 DEF Typed, Unregister, clients, tcount, Crashes
<1>10. NoneOpened /\ BoxesKept /\ RegistryKept
  BY SameBoxes DEF NoneOpened, Unregister, RegistryKept
<1>11. QED
  BY <1>2, <1>5, <1>6, <1>7, <1>8, <1>9, <1>10, QuietStep
     DEF Unregister, clients, Owning, LoggingIn

(* dir_unregister takes the mailbox's own node out, and nobody else's: the  *)
(* name it looks for is registered once.                                    *)
LEMMA KnownStep ==
  ASSUME IInv, NEW c \in Conns, Unregister(c),
         {i \in DOMAIN dir : dir[i].name = box[thr[c].rcv].name} # {}
  PROVE  IInv'
<1>1. /\ Typed /\ ThreadOK(c) /\ thr[c] \in Threads
      /\ DOMAIN box \subseteq Boxes /\ NULL \notin Boxes
      /\ Len(dir) \in Nat /\ DOMAIN dir = 1 .. Len(dir)
      /\ \A a \in DOMAIN box : box[a] \in Mailboxes
  BY BoxTyped, ListsTyped DEF IInv, Locals, Typed
<1>2. PICK b \in Boxes : b = thr[c].rcv /\ b \in DOMAIN box
  BY <1>1 DEF Unregister, ThreadOK
<1>3. /\ thr[c].pc = "unregister" /\ thr[c].snd = NULL
      /\ thr[c].req.type # "SEND" /\ thr[c].fd \in Fds
  BY <1>1 DEF Unregister, ThreadOK
<1>4. PICK i \in DOMAIN dir :
        /\ dir[i].name = box[b].name
        /\ dir' = RemoveAt(dir, i)
        /\ box' = UnrefAndShutdown(dir[i].box)
  <2> DEFINE nodes == {i \in DOMAIN dir : dir[i].name = box[thr[c].rcv].name}
             i == CHOOSE i \in nodes : \A j \in nodes : i <= j
  <2>1. nodes # {} /\ nodes \subseteq Nat
    BY <1>1
  <2> HIDE DEF nodes
  <2>2. i \in nodes
    BY <2>1, FirstOf
  <2>3. dir' = RemoveAt(dir, i) /\ box' = UnrefAndShutdown(dir[i].box)
    BY <2>1 DEF Unregister, nodes
  <2>4. QED
    BY <1>2, <2>2, <2>3 DEF nodes
<1>5. ~Gone
  BY <1>1, <1>4 DEF IInv, Registered
<1>6. dir[i].box = b /\ \A k \in DOMAIN dir \ {i} : dir[k].box # b
  <2>1. b \in DirBoxes
    BY <1>2, <1>3, <1>5 DEF IInv, OneOwner, Owning
  <2>2. \A k \in DOMAIN dir : dir[k].box = b => k = i
    BY <1>4 DEF IInv, Registered
  <2>3. QED
    BY <2>1, <2>2 DEF DirBoxes
<1> DEFINE m == [box[b] EXCEPT !.ref = @ - 1, !.defunct = TRUE]
           t == [thr[c] EXCEPT !.pc = "shut", !.rcv = NULL]
<1>7. /\ m \in Mailboxes /\ m.ref = box[b].ref - 1 /\ m.name = box[b].name
      /\ m.busy = box[b].busy /\ ~box[b].busy
  <2>1. box[b] \in Mailboxes
    BY <1>1, <1>2
  <2>2. ~box[b].busy
    BY <1>6 DEF IInv, Registered
  <2>3. QED
    BY <2>1, <2>2, CountChanged
<1>8. box' = [box EXCEPT ![b] = m]
  BY <1>2, <1>4, <1>6 DEF UnrefAndShutdown
<1> HIDE DEF m
<1>9. /\ box' \in Seq(Mailboxes) /\ Len(box') = Len(box) /\ DOMAIN box' = DOMAIN box
      /\ box'[b] = m /\ \A a \in DOMAIN box \ {b} : box'[a] = box[a]
  BY <1>1, <1>2, <1>7, <1>8, MailboxBecomes
<1>10. /\ dir' \in Seq(DirNodes)
       /\ \A j \in DOMAIN dir' : \E k \in DOMAIN dir \ {i} : dir'[j] = dir[k]
       /\ \A k \in DOMAIN dir \ {i} : \E j \in DOMAIN dir' : dir'[j] = dir[k]
       /\ \A j, k \in DOMAIN dir' : j # k =>
            \E p, q \in DOMAIN dir \ {i} : p # q /\ dir'[j] = dir[p] /\ dir'[k] = dir[q]
  <2>1. dir \in Seq(DirNodes) /\ dir' = RemoveAt(dir, i)
    BY <1>1, <1>4 DEF Typed
  <2> DEFINE r == RemoveAt(dir, i)
  <2>2. /\ r \in Seq(DirNodes)
        /\ \A j \in DOMAIN r : \E k \in DOMAIN dir \ {i} : r[j] = dir[k]
        /\ \A k \in DOMAIN dir \ {i} : \E j \in DOMAIN r : r[j] = dir[k]
        /\ \A j, k \in DOMAIN r : j # k =>
             \E p, q \in DOMAIN dir \ {i} : p # q /\ r[j] = dir[p] /\ r[k] = dir[q]
    BY <2>1, Removed
  <2> HIDE DEF r
  <2>3. dir' = r
    BY <2>1 DEF r
  <2>4. QED
    BY <2>2, <2>3
<1>11. DirBoxes' = DirBoxes \ {b}
  BY <1>6, <1>10 DEF DirBoxes
<1>12. t \in Threads
  BY <1>1 DEF Threads, ClientPcs, Pointers
<1>13. thr' = [thr EXCEPT ![c] = t]
  BY DEF Unregister
<1>14. thr' \in [Conns -> Threads] /\ Only(c) /\ thr'[c] = t
  BY <1>1, <1>12, <1>13, Becomes
<1>15. /\ thr'[c].pc = "shut" /\ thr'[c].fd = thr[c].fd /\ thr'[c].req = thr[c].req
       /\ thr'[c].rcv = NULL /\ thr'[c].snd = NULL
  BY <1>1, <1>3, <1>14 DEF Threads
<1> HIDE DEF t
<1>16. /\ UNCHANGED <<clients, sock, svc, dirDefunct, fds, fdLocked, tcount, main>>
       /\ crash' \in Crashes
  BY <1>1 DEF Unregister, Typed, Crashes
<1>17. Typed'
  BY <1>1, <1>9, <1>10, <1>14, <1>16 DEF Typed, clients, tcount
<1>18. Locals'
  <2>1. ThreadOK(c)'
    BY <1>3, <1>15 DEF ThreadOK, EmptyHanded, LoggingIn
  <2>2. \A d \in Conns : peer'[d] = "new" => d # c /\ peer[d] = "new"
    BY <1>3, <1>16 DEF IInv, Locals, clients
  <2>3. thr'[c].pc \notin LoggingIn
    BY <1>15 DEF LoggingIn
  <2>4. QED
    BY <1>9, <1>14, <1>16, <2>1, <2>2, <2>3, LocalsMove DEF IInv
<1>19. Registered'
  <2>1. ASSUME NEW j \in DOMAIN dir', NEW k \in DOMAIN dir', j # k
        PROVE  dir'[j].name # dir'[k].name
    <3>1. PICK p, q \in DOMAIN dir \ {i} : p # q /\ dir'[j] = dir[p] /\ dir'[k] = dir[q]
      BY <1>10, <2>1
    <3>2. QED
      BY <3>1 DEF IInv, Registered
  <2>2. ASSUME NEW j \in DOMAIN dir'
        PROVE  /\ dir'[j].box \in DOMAIN box'
               /\ box'[dir'[j].box].name = dir'[j].name
               /\ ~box'[dir'[j].box].freed /\ ~box'[dir'[j].box].busy
               /\ ~box'[dir'[j].box].defunct
               /\ main # "accepting" => sock[dir'[j].fd].st # "open"
    <3>1. PICK k \in DOMAIN dir \ {i} : dir'[j] = dir[k]
      BY <1>10
    <3>2. /\ dir[k].box \in DOMAIN box \ {b} /\ box[dir[k].box].name = dir[k].name
          /\ ~box[dir[k].box].freed /\ ~box[dir[k].box].busy /\ ~box[dir[k].box].defunct
          /\ main # "accepting" => sock[dir[k].fd].st # "open"
      BY <1>6 DEF IInv, Registered, ShutdownReachesAll
    <3>3. QED
      BY <1>9, <3>1, <3>2
  <2>3. ShutdownReachesAll'
    BY <1>16, <2>2 DEF ShutdownReachesAll
  <2>4. QED
    BY <1>5, <1>16, <2>1, <2>2, <2>3 DEF IInv, Registered, Gone
<1>20. OneOwner'
  <2>1. \A d \in Conns : thr'[d].pc \in Owning
          => thr[d].pc \in Owning /\ thr'[d].rcv = thr[d].rcv /\ thr[d].rcv # b
    BY <1>2, <1>3, <1>14, <1>15 DEF IInv, OneOwner, Owning, Only
  <2>2. \A k \in DOMAIN fds : fds[k].box # b
    BY <1>2, <1>3 DEF IInv, OneOwner, Owning
  <2>3. fds' = fds /\ (Gone' <=> Gone)
    BY <1>16 DEF Gone
  <2>4. /\ \A k \in DOMAIN fds : fds[k].box \in DirBoxes'
        /\ \A d \in Conns : thr'[d].pc \in Owning => thr'[d].rcv \in DirBoxes'
    BY <1>5, <1>11, <2>1, <2>2 DEF IInv, OneOwner
  <2>5. QED
    BY <1>9, <2>1, <2>3, <2>4 DEF IInv, OneOwner
<1>21. CountsMatch'
  <2>1. ASSUME NEW a \in DOMAIN box
        PROVE  /\ box[a].ref \in Int /\ box'[a].ref \in Int
               /\ box'[a].busy = box[a].busy
               /\ box'[a].ref - box[a].ref
                    = (InDir(a)' - InDir(a)) + (Alive(a)' - Alive(a))
                      + (InHands(a)' - InHands(a))
    <3>0. box'[a].busy = box[a].busy
      BY <1>7, <1>9
    <3>1. InHand(c, a) = 0 /\ InHand(c, a)' = 0
      BY <1>1, <1>3, <1>15 DEF InHand
    <3>2. InHands(a)' - InHands(a) = InHand(c, a)' - InHand(c, a)
      BY <1>14, HandsMove
    <3>3. Alive(a)' = Alive(a) /\ Alive(a) \in Nat
      BY <1>16 DEF Alive
    <3>4. InHands(a)' - InHands(a) = 0 /\ Alive(a)' - Alive(a) = 0
      BY <3>1, <3>2, <3>3
    <3>5. /\ box[a].ref \in Int
          /\ box'[a].ref = IF a = b THEN box[a].ref - 1 ELSE box[a].ref
      BY <1>1, <1>7, <1>9 DEF Mailboxes
    <3>6. InDir(a)' - InDir(a) = IF a = b THEN -1 ELSE 0
      <4>1. b \in DirBoxes
        BY <1>6 DEF DirBoxes
      <4>2. QED
        BY <1>11, <4>1 DEF InDir
    <3>7. QED
      BY <3>0, <3>4, <3>5, <3>6
  <2>2. QED
    BY <1>9, <2>1, CountsMove DEF IInv
<1>22. Serving'
  <2>1. \A a \in DOMAIN box : box'[a].busy => box'[a].ref = 0
    BY <1>7, <1>9 DEF IInv, Serving
  <2>2. QED
    BY <1>9, <1>11, <1>16, <2>1, ServingMove DEF IInv
<1>23. QED
  BY <1>17, <1>18, <1>19, <1>20, <1>21, <1>22 DEF IInv

LEMMA UnregisterStep ==
  ASSUME IInv, NEW c \in Conns, Unregister(c)
  PROVE  IInv'
<1>1. CASE {i \in DOMAIN dir : dir[i].name = box[thr[c].rcv].name} = {}
  BY <1>1, UnknownStep DEF Unregister
<1>2. QED
  BY <1>1, KnownStep

-----------------------------------------------------------------------------
(* Counts taken and dropped. *)

LEMMA RegisteredMove ==
  ASSUME Typed, Registered, RegistryKept, NoneOpened, DOMAIN box' = DOMAIN box,
         \A b \in DirBoxes : /\ box'[b].name = box[b].name
                             /\ box'[b].defunct = box[b].defunct
                             /\ box'[b].freed = box[b].freed
                             /\ box'[b].busy = box[b].busy
  PROVE  Registered'
<1>1. \A i \in DOMAIN dir : dir[i].fd \in Fds /\ dir[i].box \in DirBoxes
  BY ListsTyped DEF DirBoxes
<1>2. ShutdownReachesAll'
  BY <1>1 DEF Registered, ShutdownReachesAll, RegistryKept, NoneOpened
<1>3. QED
  BY <1>1, <1>2 DEF Registered, RegistryKept, Gone

(* What a step that takes or drops a count leaves of the mailboxes, and the *)
(* counts it changes: that of b by n, and none that anyone still uses.      *)
BoxesMoved ==
  /\ box' \in Seq(Mailboxes) /\ Len(box') = Len(box) /\ DOMAIN box' = DOMAIN box
  /\ \A a \in DOMAIN box :
       /\ box'[a].name = box[a].name /\ box'[a].defunct = box[a].defunct
       /\ box'[a].busy => box'[a].ref = 0
       /\ ~box'[a].busy => ~box[a].busy
  /\ \A a \in DirBoxes : box'[a].freed = box[a].freed /\ box'[a].busy = box[a].busy

CountMoved(b, n) ==
  \A a \in DOMAIN box : ~box'[a].busy => box'[a].ref - box[a].ref = IF a = b THEN n ELSE 0

LEMMA RegisteredBoxesMoved ==
  ASSUME IInv, RegistryKept, NoneOpened, BoxesMoved
  PROVE  Registered'
<1>1. \A a \in DirBoxes : a \in DOMAIN box
  BY DEF IInv, Registered, DirBoxes
<1>2. \A a \in DirBoxes : /\ box'[a].name = box[a].name
                          /\ box'[a].defunct = box[a].defunct
                          /\ box'[a].freed = box[a].freed
                          /\ box'[a].busy = box[a].busy
  BY <1>1 DEF BoxesMoved
<1>3. QED
  BY <1>2, RegisteredMove DEF IInv, BoxesMoved

(* A client service thread takes or drops a count: it then has one more or  *)
(* one less in hand.                                                        *)
LEMMA CountStep ==
  ASSUME IInv, NEW c \in Conns, NEW b \in DOMAIN box, NEW n \in Int,
         BoxesMoved, CountMoved(b, n),
         thr' \in [Conns -> Threads], Only(c), ThreadOK(c)', thr[c].pc # "unborn",
         thr'[c].pc \notin Owning, thr'[c].pc \notin LoggingIn,
         \A a \in Boxes : InHand(c, a)' - InHand(c, a) = IF a = b THEN n ELSE 0,
         UNCHANGED <<peer, budget, owed, sock, svc, registry, tcount, main>>,
         crash' \in Crashes
  PROVE  IInv'
<1>1. /\ Typed /\ DOMAIN box \subseteq Boxes
      /\ \A a \in DOMAIN box : box[a] \in Mailboxes
  BY BoxTyped DEF IInv
<1>2. /\ box' \in Seq(Mailboxes) /\ Len(box') = Len(box) /\ DOMAIN box' = DOMAIN box
      /\ \A a \in DOMAIN box : box'[a] \in Mailboxes
  <2>1. box' \in Seq(Mailboxes) /\ Len(box') = Len(box) /\ DOMAIN box' = DOMAIN box
    BY DEF BoxesMoved
  <2>2. QED
    BY <2>1, LenProperties
<1>3. Typed'
  BY <1>1, <1>2 DEF Typed, registry, tcount
<1>4. RegistryKept /\ NoneOpened
  BY SameRegistry DEF NoneOpened
<1>5. Locals'
  <2>1. \A d \in Conns : peer'[d] = "new" => d # c /\ peer[d] = "new"
    BY DEF IInv, Locals
  <2>2. QED
    BY <1>2, <2>1, LocalsMove DEF IInv
<1>6. Registered'
  BY <1>4, RegisteredBoxesMoved
<1>7. OneOwner'
  <2>1. \A d \in Conns : thr'[d].pc \in Owning => thr[d].pc \in Owning /\ thr'[d].rcv = thr[d].rcv
    BY DEF Only
  <2>2. QED
    BY <1>2, <1>4, <2>1, OneOwnerKept DEF IInv
<1>8. CountsMatch'
  <2>1. ASSUME NEW a \in DOMAIN box
        PROVE  /\ box[a].ref \in Int /\ box'[a].ref \in Int
               /\ ~box'[a].busy =>
                    /\ ~box[a].busy
                    /\ box'[a].ref - box[a].ref
                         = (InDir(a)' - InDir(a)) + (Alive(a)' - Alive(a))
                           + (InHands(a)' - InHands(a))
    <3>1. box[a].ref \in Int /\ box'[a].ref \in Int
      BY <1>1, <1>2 DEF Mailboxes
    <3>2. InDir(a)' = InDir(a) /\ Alive(a)' = Alive(a) /\ InDir(a) \in Int /\ Alive(a) \in Int
      BY <1>4 DEF RegistryKept, InDir, Alive, DirBoxes
    <3>3. InHands(a)' - InHands(a) = InHand(c, a)' - InHand(c, a)
      BY HandsMove
    <3>4. ~box'[a].busy => InHand(c, a)' - InHand(c, a) = box'[a].ref - box[a].ref
      BY <1>1 DEF CountMoved
    <3>5. InDir(a)' - InDir(a) = 0 /\ Alive(a)' - Alive(a) = 0
      BY <3>2
    <3>6. ~box'[a].busy => ~box[a].busy
      BY DEF BoxesMoved
    <3>7. QED
      BY <3>1, <3>3, <3>4, <3>5, <3>6
  <2>2. QED
    BY <1>2, <2>1, CountsMove DEF IInv
<1>9. Serving'
  <2>1. DirBoxes' = DirBoxes
    BY <1>4 DEF DirBoxes, RegistryKept
  <2>2. \A a \in DOMAIN box : box'[a].busy => box'[a].ref = 0
    BY DEF BoxesMoved
  <2>3. QED
    BY <1>2, <2>1, <2>2, ServingMove DEF IInv
<1>10. QED
  BY <1>3, <1>5, <1>6, <1>7, <1>8, <1>9 DEF IInv

(* mb_ref. *)
LEMMA Reffed ==
  ASSUME IInv, NEW b \in DOMAIN box, ~box[b].busy, box' = Ref(b)
  PROVE  BoxesMoved /\ CountMoved(b, 1)
<1> DEFINE m == [box[b] EXCEPT !.ref = @ + 1]
<1>1. Typed /\ \A a \in DOMAIN box : box[a] \in Mailboxes
  BY BoxTyped DEF IInv
<1>2. /\ m \in Mailboxes /\ m.ref = box[b].ref + 1 /\ box[b].ref \in Int
      /\ m.name = box[b].name /\ m.defunct = box[b].defunct
      /\ m.freed = box[b].freed /\ m.busy = box[b].busy
  BY <1>1, CountChanged
<1>3. box' = [box EXCEPT ![b] = m]
  BY DEF Ref
<1> HIDE DEF m
<1>4. /\ box' \in Seq(Mailboxes) /\ Len(box') = Len(box) /\ DOMAIN box' = DOMAIN box
      /\ box'[b] = m /\ \A a \in DOMAIN box \ {b} : box'[a] = box[a]
  BY <1>1, <1>2, <1>3, MailboxBecomes
<1>5. \A a \in DOMAIN box : box[a].ref \in Int /\ (box[a].busy => box[a].ref = 0)
  BY <1>1 DEF Mailboxes, IInv, Serving
<1>6. ASSUME NEW a \in DOMAIN box
      PROVE  /\ box'[a].name = box[a].name /\ box'[a].defunct = box[a].defunct
             /\ box'[a].freed = box[a].freed /\ box'[a].busy = box[a].busy
             /\ box'[a].busy => box'[a].ref = 0
             /\ box'[a].ref - box[a].ref = IF a = b THEN 1 ELSE 0
  <2>1. CASE a = b
    BY <1>2, <1>4, <2>1
  <2>2. CASE a # b
    BY <1>4, <1>5, <2>2
  <2>3. QED
    BY <2>1, <2>2
<1>7. DirBoxes \subseteq DOMAIN box
  BY DEF IInv, Registered, DirBoxes
<1>8. QED
  BY <1>4, <1>6, <1>7 DEF BoxesMoved, CountMoved

(* dir_lookup. *)
LEMMA LookupStep ==
  ASSUME IInv, NEW c \in Conns, Lookup(c)
  PROVE  IInv'
<1> DEFINE nodes == {i \in DOMAIN dir : dir[i].name = thr[c].req.handle}
<1>1. /\ Typed /\ ThreadOK(c) /\ thr[c] \in Threads
      /\ DOMAIN box \subseteq Boxes /\ NULL \notin Boxes /\ DOMAIN dir \subseteq Nat
      /\ \A a \in DOMAIN box : box[a] \in Mailboxes
  BY BoxTyped, ListsTyped DEF IInv, Locals, Typed
<1>2. /\ thr[c].pc = "lookup" /\ thr[c].req.type = "SEND"
      /\ thr[c].rcv = NULL /\ thr[c].snd = NULL /\ thr[c].fd \in Fds
  BY <1>1 DEF Lookup, ThreadOK, EmptyHanded
<1>3. /\ UNCHANGED <<clients, sock, svc, registry, tcount, main>> /\ crash' \in Crashes
  BY <1>1 DEF Lookup, Typed, Crashes
<1>4. CASE nodes = {}
  <2>1. Goto(c, "findself") /\ UNCHANGED box /\ "findself" \in ClientPcs
    BY <1>4 DEF Lookup, ClientPcs
  <2>2. ThreadOK(c)'
    BY <1>1, <1>2, <1>3, <2>1, Goes DEF ThreadOK, EmptyHanded, LoggingIn
  <2>3. thr' \in [Conns -> Threads] => Typed'
    BY <1>1, <1>3, <2>1 DEF Typed, clients, registry, tcount
  <2>4. NoneOpened /\ BoxesKept
    BY <1>3, <2>1, SameBoxes DEF NoneOpened
  <2>5. QED
    BY <1>2, <1>3, <2>1, <2>2, <2>3, <2>4, QuietGoto DEF clients, Owning, LoggingIn
<1>5. CASE nodes # {}
  <2>1. PICK i \in DOMAIN dir :
          /\ box' = Ref(dir[i].box)
          /\ thr' = [thr EXCEPT ![c].pc = "readnode", ![c].rcv = dir[i].box]
    <3> DEFINE i == CHOOSE i \in nodes : \A j \in nodes : i <= j
    <3>1. /\ box' = Ref(dir[i].box)
          /\ thr' = [thr EXCEPT ![c].pc = "readnode", ![c].rcv = dir[i].box]
      BY <1>5 DEF Lookup
    <3>2. nodes \subseteq Nat /\ nodes \subseteq DOMAIN dir
      BY <1>1
    <3> HIDE DEF nodes
    <3>3. i \in nodes
      BY <1>5, <3>2, FirstOf
    <3>4. QED
      BY <3>1, <3>2, <3>3
  <2>2. PICK b \in DOMAIN box : b = dir[i].box /\ ~box[b].busy
    BY DEF IInv, Registered
  <2> DEFINE t == [thr[c] EXCEPT !.pc = "readnode", !.rcv = b]
  <2>3. b \in Boxes
    BY <1>1
  <2>4. BoxesMoved /\ CountMoved(b, 1)
    BY <2>1, <2>2, Reffed
  <2>6. t \in Threads
    BY <1>1, <2>3 DEF Threads, ClientPcs, Pointers
  <2>7. thr' = [thr EXCEPT ![c] = t]
    BY <2>1, <2>2
  <2>8. thr' \in [Conns -> Threads] /\ Only(c) /\ thr'[c] = t
    BY <1>1, <2>6, <2>7, Becomes
  <2>9. /\ thr'[c].pc = "readnode" /\ thr'[c].fd = thr[c].fd /\ thr'[c].req = thr[c].req
        /\ thr'[c].rcv = b /\ thr'[c].snd = NULL
    BY <1>1, <1>2, <2>8 DEF Threads
  <2>10. DOMAIN box' = DOMAIN box
    BY <2>4 DEF BoxesMoved
  <2>11. ThreadOK(c)'
    BY <1>1, <1>2, <2>2, <2>3, <2>9, <2>10 DEF ThreadOK, EmptyHanded, LoggingIn
  <2>12. \A a \in Boxes : InHand(c, a)' - InHand(c, a) = IF a = b THEN 1 ELSE 0
    <3>1. \A a \in Boxes : InHand(c, a) = 0 /\ InHand(c, a)' = IF a = b THEN 1 ELSE 0
      BY <1>1, <1>2, <2>9 DEF InHand
    <3>2. QED
      BY <3>1
  <2>13. thr'[c].pc \notin Owning /\ thr'[c].pc \notin LoggingIn
    BY <2>9 DEF Owning, LoggingIn
  <2>14. /\ UNCHANGED <<peer, budget, owed, sock, svc, registry, tcount, main>>
         /\ crash' \in Crashes
    BY <1>3 DEF clients
  <2> HIDE DEF t
  <2>15. QED
    BY <1>2, <2>4, <2>8, <2>11, <2>12, <2>13, <2>14, CountStep
<1>6. QED
  BY <1>4, <1>5

(* FDLookup: what it may find. *)
LEMMA FindSelfFinds ==
  ASSUME IInv, NEW c \in Conns, FindSelf(c)
  PROVE  \/ Goto(c, Answer(c, NULL)) /\ UNCHANGED <<box, fdLocked, crash>>
         \/ \E b \in DOMAIN box :
              /\ ~box[b].busy /\ box' = Ref(b)
              /\ thr' = [thr EXCEPT ![c].pc = "readself", ![c].snd = b]
              /\ UNCHANGED <<fdLocked, crash>>
         \/ crash' = "fault" /\ UNCHANGED <<thr, box, fdLocked>>
         \/ fdLocked' = TRUE /\ Goto(c, "hung") /\ UNCHANGED <<box, crash>>
<1> DEFINE mine == {i \in DOMAIN fds : fds[i].fd = thr[c].fd}
           i == CHOOSE i \in mine : \A j \in mine : i <= j
           b == fds[i].box
<1>1. mine # {} => b \in DOMAIN box
  <2>1. DOMAIN fds \subseteq Nat /\ mine \subseteq DOMAIN fds
    BY ListsTyped DEF IInv
  <2> HIDE DEF mine
  <2>2. mine # {} => i \in mine
    BY <2>1, FirstOf
  <2>3. QED
    BY <2>1, <2>2 DEF IInv, OneOwner
<1>2. \/ Goto(c, Answer(c, NULL)) /\ UNCHANGED <<box, fdLocked, crash>>
      \/ /\ mine # {} /\ ~box[b].busy /\ box' = Ref(b)
         /\ thr' = [thr EXCEPT ![c].pc = "readself", ![c].snd = b]
         /\ UNCHANGED <<fdLocked, crash>>
      \/ crash' = "fault" /\ UNCHANGED <<thr, box, fdLocked>>
      \/ fdLocked' = TRUE /\ Goto(c, "hung") /\ UNCHANGED <<box, crash>>
  BY DEF FindSelf
<1> HIDE DEF b, mine
<1>3. QED
  BY <1>1, <1>2

LEMMA FindSelfStep ==
  ASSUME IInv, NEW c \in Conns, FindSelf(c)
  PROVE  IInv'
<1>1. /\ Typed /\ ThreadOK(c) /\ thr[c] \in Threads
      /\ DOMAIN box \subseteq Boxes /\ NULL \notin Boxes
  BY BoxTyped DEF IInv, Locals, Typed
<1>2. thr[c].pc = "findself" /\ thr[c].snd = NULL /\ thr[c].fd \in Fds
  BY <1>1 DEF FindSelf, ThreadOK
<1>3. UNCHANGED <<peer, budget, owed, sock, svc, dir, dirDefunct, fds, counter, tcsem, main>>
  BY DEF FindSelf, clients, tcount
<1>4. thr[c].rcv # NULL => thr[c].req.type = "SEND"
  BY <1>1, <1>2 DEF ThreadOK, LoggingIn
<1>5. ASSUME NEW pc \in {"ack", "nack", "hung"}, pc = "ack" => thr[c].req.type = "USERS",
             Goto(c, pc), UNCHANGED <<box, crash>>, fdLocked' \in BOOLEAN
      PROVE  IInv'
  <2>1. pc \in ClientPcs /\ pc \notin Owning /\ pc \notin LoggingIn
    BY DEF ClientPcs, Owning, LoggingIn
  <2>2. /\ thr' \in [Conns -> Threads] /\ Only(c)
        /\ thr'[c].pc = pc /\ thr'[c].fd = thr[c].fd /\ thr'[c].req = thr[c].req
        /\ thr'[c].rcv = thr[c].rcv /\ thr'[c].snd = thr[c].snd
        /\ \A b : InHand(c, b)' = InHand(c, b)
    BY <1>1, <1>5, <2>1, Goes
  <2>3. ThreadOK(c)'
    BY <1>1, <1>2, <1>3, <1>4, <1>5, <2>2 DEF ThreadOK, EmptyHanded, LoggingIn
  <2>4. Typed'
    BY <1>1, <1>3, <1>5, <2>2 DEF Typed
  <2>5. NoneOpened /\ BoxesKept /\ RegistryKept
    BY <1>3, <1>5, SameBoxes DEF NoneOpened, RegistryKept
  <2>6. QED
    BY <1>2, <1>3, <2>1, <2>2, <2>3, <2>4, <2>5, QuietStep
<1>6. CASE Goto(c, Answer(c, NULL)) /\ UNCHANGED <<box, fdLocked, crash>>
  <2>1. Answer(c, NULL) \in {"ack", "nack"} /\ fdLocked' \in BOOLEAN
    BY <1>1, <1>6, AnswerOK DEF Typed
  <2>2. QED
    BY <1>5, <1>6, <2>1, AnswerOK
<1>7. CASE fdLocked' = TRUE /\ Goto(c, "hung") /\ UNCHANGED <<box, crash>>
  BY <1>5, <1>7
<1>8. CASE crash' = "fault" /\ UNCHANGED <<thr, box, fdLocked>>
  <2>1. Typed'
    BY <1>1, <1>3, <1>8 DEF Typed, Crashes
  <2>2. NoneOpened /\ BoxesKept /\ RegistryKept
    BY <1>3, <1>8, SameBoxes DEF NoneOpened, RegistryKept
  <2>3. \A a \in Boxes : Alive(a)' = Alive(a)
    BY <1>3 DEF Alive
  <2>4. QED
    BY <1>3, <1>8, <2>1, <2>2, <2>3, OtherStep
<1>9. ASSUME NEW b \in DOMAIN box, ~box[b].busy, box' = Ref(b),
             thr' = [thr EXCEPT ![c].pc = "readself", ![c].snd = b],
             UNCHANGED <<fdLocked, crash>>
      PROVE  IInv'
  <2> DEFINE t == [thr[c] EXCEPT !.pc = "readself", !.snd = b]
  <2>1. BoxesMoved /\ CountMoved(b, 1) /\ b \in Boxes
    BY <1>1, <1>9, Reffed
  <2>2. t \in Threads
    BY <1>1, <2>1 DEF Threads, ClientPcs, Pointers
  <2>3. thr' = [thr EXCEPT ![c] = t]
    BY <1>9
  <2>4. thr' \in [Conns -> Threads] /\ Only(c) /\ thr'[c] = t
    BY <1>1, <2>2, <2>3, Becomes
  <2>5. /\ thr'[c].pc = "readself" /\ thr'[c].fd = thr[c].fd /\ thr'[c].req = thr[c].req
        /\ thr'[c].rcv = thr[c].rcv /\ thr'[c].snd = b
    BY <1>1, <1>2, <2>4 DEF Threads
  <2>6. DOMAIN box' = DOMAIN box
    BY <2>1 DEF BoxesMoved
  <2>7. ThreadOK(c)'
    BY <1>1, <1>2, <1>4, <2>1, <2>5, <2>6 DEF ThreadOK, EmptyHanded, LoggingIn
  <2>8. ASSUME NEW a \in Boxes
        PROVE  InHand(c, a)' - InHand(c, a) = IF a = b THEN 1 ELSE 0
    <3>1. InHand(c, a)' = InHand(c, a) + (IF a = b THEN 1 ELSE 0) /\ InHand(c, a) \in Int
      BY <1>1, <1>2, <2>5 DEF InHand
    <3>2. QED
      BY <3>1
  <2>9. thr'[c].pc \notin Owning /\ thr'[c].pc \notin LoggingIn
    BY <2>5 DEF Owning, LoggingIn
  <2>10. /\ UNCHANGED <<peer, budget, owed, sock, svc, registry, tcount, main>>
         /\ crash' \in Crashes
    BY <1>1, <1>3, <1>9 DEF registry, tcount, Typed
  <2> HIDE DEF t
  <2>11. QED
    BY <1>2, <2>1, <2>4, <2>7, <2>8, <2>9, <2>10, CountStep
<1>10. QED
  BY <1>6, <1>7, <1>8, <1>9, FindSelfFinds

(* The directory's count and the thread's own are two.                      *)
LEMMA NotTheLast ==
  ASSUME IInv, NEW b \in DOMAIN box, b \in DirBoxes,
         \/ Alive(b) = 1
         \/ \E c \in Conns : InHand(c, b) >= 1
  PROVE  box[b].ref # 1
<1>1. box[b].ref = Held(b)
  BY DEF IInv, CountsMatch, Registered, DirBoxes
<1>2. Held(b) = InDir(b) + Alive(b) + InHands(b) /\ InHands(b) \in Nat
  BY HeldIs
<1>3. InDir(b) = 1 /\ Alive(b) \in {0, 1}
  BY DEF InDir, Alive
<1>4. Alive(b) = 1 \/ InHands(b) >= 1
  <2>1. ASSUME NEW c \in Conns, InHand(c, b) >= 1 PROVE InHands(b) >= 1
    <3>1. InHands(b) >= InHand(c, b) /\ InHand(c, b) \in Nat
      BY CountedInHands DEF InHand
    <3>2. QED
      BY <1>2, <2>1, <3>1
  <2>2. QED
    BY <2>1
<1>5. QED
  BY <1>1, <1>2, <1>3, <1>4

(* A finalization comes to its own mailbox and to others on their last      *)
(* count, never to a registered one.                                        *)
LEMMA ChainIs ==
  ASSUME NEW b \in DOMAIN box, NEW x \in Chain(b)
  PROVE  x \in DOMAIN box /\ (x = b \/ Nested(x))
<1> DEFINE S == {b} \cup {f \in DOMAIN box : Nested(f)}
<1>1. S \in SUBSET (DOMAIN box) /\ b \in S
  OBVIOUS
<1>2. \A y \in S : Discards(y) /\ Nested(Sender(y)) => Sender(y) \in S
  BY DEF Nested
<1> HIDE DEF S
<1>3. x \in S /\ x \in DOMAIN box
  BY <1>1, <1>2 DEF Chain
<1>4. QED
  BY <1>3 DEF S

LEMMA NestedUnregistered ==
  ASSUME IInv, NEW b \in DirBoxes
  PROVE  ~Nested(b)
<1>1. Alive(b) = 1
  BY DEF IInv, Serving, Ending, Alive
<1>2. b \in DOMAIN box
  BY DEF IInv, Registered, DirBoxes
<1>3. QED
  BY <1>1, <1>2, NotTheLast DEF Nested

(* mb_unref.  Only the last count finalizes the mailbox, and as long as the *)
(* directory has one, none that a thread drops is the last.                 *)
LEMMA DroppedOne ==
  ASSUME IInv, NEW b \in DOMAIN box, ~box[b].busy, box' = [box EXCEPT ![b].ref = @ - 1]
  PROVE  BoxesMoved /\ CountMoved(b, -1)
<1> DEFINE m == [box[b] EXCEPT !.ref = @ - 1]
<1>1. Typed /\ \A a \in DOMAIN box : box[a] \in Mailboxes
  BY BoxTyped DEF IInv
<1>2. /\ m \in Mailboxes /\ m.ref = box[b].ref - 1 /\ box[b].ref \in Int
      /\ m.name = box[b].name /\ m.defunct = box[b].defunct
      /\ m.freed = box[b].freed /\ m.busy = box[b].busy
  BY <1>1, CountChanged
<1>3. box' = [box EXCEPT ![b] = m]
  OBVIOUS
<1> HIDE DEF m
<1>4. /\ box' \in Seq(Mailboxes) /\ Len(box') = Len(box) /\ DOMAIN box' = DOMAIN box
      /\ box'[b] = m /\ \A a \in DOMAIN box \ {b} : box'[a] = box[a]
  BY <1>1, <1>2, <1>3, MailboxBecomes
<1>5. \A a \in DOMAIN box : box[a].ref \in Int /\ (box[a].busy => box[a].ref = 0)
  BY <1>1 DEF Mailboxes, IInv, Serving
<1>6. ASSUME NEW a \in DOMAIN box
      PROVE  /\ box'[a].name = box[a].name /\ box'[a].defunct = box[a].defunct
             /\ box'[a].freed = box[a].freed /\ box'[a].busy = box[a].busy
             /\ box'[a].busy => box'[a].ref = 0
             /\ box'[a].ref - box[a].ref = IF a = b THEN -1 ELSE 0
  <2>1. CASE a = b
    BY <1>2, <1>4, <2>1
  <2>2. CASE a # b
    BY <1>4, <1>5, <2>2
  <2>3. QED
    BY <2>1, <2>2
<1>7. DirBoxes \subseteq DOMAIN box
  BY DEF IInv, Registered, DirBoxes
<1>8. QED
  BY <1>4, <1>6, <1>7 DEF BoxesMoved, CountMoved

LastDropped(b, f, h) ==
  box' = [x \in DOMAIN box |->
            IF x = b \/ (h /\ x \in Chain(b)) THEN Final(box[x], f, h) ELSE box[x]]

LEMMA DroppedLast ==
  ASSUME IInv, NEW b \in DOMAIN box, ~box[b].busy, box[b].ref = 1, b \notin DirBoxes,
         NEW f \in BOOLEAN, NEW h \in BOOLEAN, LastDropped(b, f, h)
  PROVE  BoxesMoved /\ CountMoved(b, -1) /\ \A a \in DOMAIN box : box'[a].queue = box[a].queue
<1>1. Typed /\ \A a \in DOMAIN box : box[a] \in Mailboxes
  BY BoxTyped DEF IInv
<1>2. ASSUME NEW a \in DOMAIN box
      PROVE  /\ box'[a] \in Mailboxes
             /\ box'[a].name = box[a].name /\ box'[a].defunct = box[a].defunct
             /\ box'[a].queue = box[a].queue
             /\ box'[a].busy => box'[a].ref = 0
             /\ ~box'[a].busy => ~box[a].busy
             /\ ~box'[a].busy => box'[a].ref - box[a].ref = IF a = b THEN -1 ELSE 0
  <2> DEFINE n == Final(box[a], f, h)
  <2>1. /\ n \in Mailboxes /\ n.ref = 0 /\ n.name = box[a].name /\ n.queue = box[a].queue
        /\ n.defunct = box[a].defunct /\ n.freed = f /\ n.busy = h
    <3>1. box[a] \in Mailboxes
      BY <1>1
    <3>2. QED
      BY <3>1, Finalized
  <2>2. CASE a = b
    <3>1. box'[a] = n
      BY <2>2 DEF LastDropped
    <3> HIDE DEF n
    <3>2. box'[a].ref = 0 /\ box[a].ref = 1
      BY <2>1, <2>2, <3>1
    <3>3. QED
      BY <2>1, <2>2, <3>1, <3>2
  <2>3. CASE a # b /\ h /\ a \in Chain(b)
    <3>1. box'[a] = n
      BY <2>3 DEF LastDropped
    <3> HIDE DEF n
    <3>2. QED
      BY <2>1, <2>3, <3>1
  <2>4. CASE a # b /\ ~(h /\ a \in Chain(b))
    <3>1. box'[a] = box[a]
      BY <2>4 DEF LastDropped
    <3>2. box[a].ref \in Int /\ (box[a].busy => box[a].ref = 0) /\ box[a] \in Mailboxes
      BY <1>1 DEF Mailboxes, IInv, Serving
    <3>3. box[a].ref - box[a].ref = 0
      BY <3>2
    <3> HIDE DEF n
    <3>4. QED
      BY <2>4, <3>1, <3>2, <3>3
  <2>5. QED
    BY <2>2, <2>3, <2>4
<1>3. ASSUME NEW a \in DirBoxes PROVE box'[a] = box[a]
  <2>1. a # b /\ ~Nested(a) /\ a \in DOMAIN box
    BY NestedUnregistered DEF IInv, Registered, DirBoxes
  <2>2. a \notin Chain(b)
    BY <2>1, ChainIs
  <2>3. QED
    BY <2>1, <2>2 DEF LastDropped
<1>4. /\ box' \in [DOMAIN box -> Mailboxes] /\ box' \in Seq(Mailboxes)
      /\ Len(box') = Len(box) /\ DOMAIN box' = DOMAIN box
  BY <1>1, <1>2, BoxesTyped DEF LastDropped
<1>5. QED
  BY <1>2, <1>3, <1>4 DEF BoxesMoved, CountMoved

LEMMA Unreffed ==
  ASSUME IInv, NEW b \in DOMAIN box, NEW ACTION done, NEW ACTION hung,
         Unref(b, done, hung),
         \/ Alive(b) = 1
         \/ \E c \in Conns : InHand(c, b) >= 1
  PROVE  /\ done \/ hung
         /\ crash' \in Crashes
         /\ BoxesMoved /\ CountMoved(b, -1)
         /\ \A a \in DOMAIN box : box'[a].queue = box[a].queue
<1>1. ~box[b].busy /\ box[b] \in Mailboxes
  BY BoxTyped DEF Unref, IInv
<1>2. CASE box[b].ref # 1
  <2>1. box' = [box EXCEPT ![b].ref = @ - 1] /\ done /\ crash' = crash
    BY <1>2 DEF Unref
  <2>2. \A a \in DOMAIN box : box'[a].queue = box[a].queue
    <3>1. ASSUME NEW a \in DOMAIN box PROVE box'[a].queue = box[a].queue
      <4>1. box[a] \in Mailboxes
        BY BoxTyped DEF IInv
      <4>2. CASE a = b
        BY <2>1, <4>1, <4>2 DEF Mailboxes
      <4>3. CASE a # b
        BY <2>1, <4>3
      <4>4. QED
        BY <4>2, <4>3
    <3>2. QED
      BY <3>1
  <2>3. QED
    BY <1>1, <2>1, <2>2, DroppedOne DEF IInv, Typed
<1>3. CASE box[b].ref = 1
  <2> DEFINE out == Finalization(b)
             f == (out = "freed")
             h == (out = "hang")
  <2>1. /\ LastDropped(b, f, h)
        /\ crash' = IF out \in {"abort", "fault"} THEN out ELSE "none"
        /\ IF out = "hang" THEN hung ELSE done
    BY <1>3 DEF Unref, LastDropped, Final
  <2>2. f \in BOOLEAN /\ h \in BOOLEAN
    OBVIOUS
  <2>3. b \notin DirBoxes
    BY <1>3, NotTheLast
  <2>4. crash' \in Crashes /\ (done \/ hung)
    <3> HIDE DEF out
    <3>1. QED
      BY <2>1 DEF Crashes
  <2> HIDE DEF f, h, out
  <2>5. QED
    BY <1>1, <1>3, <2>1, <2>2, <2>3, <2>4, DroppedLast
<1>4. QED
  BY <1>2, <1>3

(* sendNotice and handle_packet drop the count on the sender's mailbox.     *)
LEMMA UnrefSenderStep ==
  ASSUME IInv, NEW c \in Conns, UnrefSender(c)
  PROVE  IInv'
<1>1. /\ Typed /\ ThreadOK(c) /\ thr[c] \in Threads
      /\ DOMAIN box \subseteq Boxes /\ NULL \notin Boxes
  BY BoxTyped DEF IInv, Locals, Typed
<1>2. /\ thr[c].pc = "unrefsnd" /\ thr[c].fd \in Fds
      /\ thr[c].rcv # NULL => thr[c].req.type = "SEND"
  BY <1>1 DEF UnrefSender, ThreadOK, LoggingIn
<1>3. PICK b \in DOMAIN box : b = thr[c].snd
  BY <1>1 DEF UnrefSender, ThreadOK
<1>4. UNCHANGED <<clients, sock, svc, registry, tcount, main>>
  BY DEF UnrefSender
<1> DEFINE done == IF thr[c].rcv = NULL THEN Finish(c)
                   ELSE thr' = [thr EXCEPT ![c].pc = "unrefrcv", ![c].snd = NULL]
           hung == thr' = [thr EXCEPT ![c].pc = "hung", ![c].snd = NULL]
<1>5. Unref(b, done, hung)
  BY <1>3 DEF UnrefSender
<1>6. /\ done \/ hung
      /\ crash' \in Crashes
      /\ BoxesMoved /\ CountMoved(b, -1)
  <2>1. InHand(c, b) >= 1
    BY <1>3 DEF InHand
  <2> HIDE DEF done, hung
  <2>2. QED
    BY <1>5, <2>1, Unreffed
<1>9. DOMAIN box' = DOMAIN box
  BY <1>6 DEF BoxesMoved
<1>10. /\ thr' \in [Conns -> Threads] /\ Only(c) /\ ThreadOK(c)'
       /\ thr'[c].pc \in {"recv", "unrefrcv", "hung"}
       /\ \A a \in Boxes : InHand(c, a)' - InHand(c, a) = IF a = b THEN -1 ELSE 0
  <2>1. CASE thr[c].rcv = NULL /\ thr' = Done(c)
    <3>1. /\ thr' \in [Conns -> Threads] /\ Only(c) /\ thr'[c].pc = "recv" /\ ThreadOK(c)'
          /\ \A a \in Boxes : InHand(c, a)' = 0
      BY <1>2, <2>1, Finishes
    <3>2. \A a \in Boxes : InHand(c, a) = IF a = b THEN 1 ELSE 0
      BY <1>1, <1>3, <2>1 DEF InHand
    <3>3. QED
      BY <3>1, <3>2
  <2>2. ASSUME NEW pc \in {"unrefrcv", "hung"}, pc = "unrefrcv" => thr[c].rcv # NULL,
               thr' = [thr EXCEPT ![c].pc = pc, ![c].snd = NULL]
        PROVE  /\ thr' \in [Conns -> Threads] /\ Only(c) /\ ThreadOK(c)'
               /\ thr'[c].pc = pc
               /\ \A a \in Boxes : InHand(c, a)' - InHand(c, a) = IF a = b THEN -1 ELSE 0
    <3> DEFINE t == [thr[c] EXCEPT !.pc = pc, !.snd = NULL]
    <3>1. t \in Threads
      BY <1>1 DEF Threads, ClientPcs, Pointers
    <3>2. thr' = [thr EXCEPT ![c] = t]
      BY <2>2
    <3>3. thr' \in [Conns -> Threads] /\ Only(c) /\ thr'[c] = t
      BY <1>1, <3>1, <3>2, Becomes
    <3>4. /\ thr'[c].pc = pc /\ thr'[c].fd = thr[c].fd /\ thr'[c].req = thr[c].req
          /\ thr'[c].rcv = thr[c].rcv /\ thr'[c].snd = NULL
      BY <1>1, <3>3 DEF Threads
    <3>5. ThreadOK(c)'
      BY <1>1, <1>2, <1>9, <2>2, <3>4 DEF ThreadOK, EmptyHanded, LoggingIn
    <3>6. ASSUME NEW a \in Boxes
          PROVE  InHand(c, a)' - InHand(c, a) = IF a = b THEN -1 ELSE 0
      BY <1>1, <1>3, <3>4 DEF InHand
    <3>7. QED
      BY <3>3, <3>4, <3>5, <3>6
  <2>3. QED
    BY <1>6, <2>1, <2>2 DEF Finish
<1> HIDE DEF done, hung
<1>11. thr'[c].pc \notin Owning /\ thr'[c].pc \notin LoggingIn
  BY <1>10 DEF Owning, LoggingIn
<1>12. QED
  BY <1>2, <1>4, <1>6, <1>10, <1>11, CountStep DEF clients

(* ... and the count dir_lookup took on the receiver's.                     *)
LEMMA UnrefReceiverStep ==
  ASSUME IInv, NEW c \in Conns, UnrefReceiver(c)
  PROVE  IInv'
<1>1. /\ Typed /\ ThreadOK(c) /\ thr[c] \in Threads
      /\ DOMAIN box \subseteq Boxes /\ NULL \notin Boxes
  BY BoxTyped DEF IInv, Locals, Typed
<1>2. /\ thr[c].pc = "unrefrcv" /\ thr[c].fd \in Fds /\ thr[c].snd = NULL
      /\ thr[c].req.type = "SEND"
  BY <1>1 DEF UnrefReceiver, ThreadOK, LoggingIn
<1>3. PICK b \in DOMAIN box : b = thr[c].rcv
  BY <1>1 DEF UnrefReceiver, ThreadOK
<1>4. UNCHANGED <<clients, sock, svc, registry, tcount, main>>
  BY DEF UnrefReceiver
<1> DEFINE hung == thr' = [thr EXCEPT ![c].pc = "hung", ![c].rcv = NULL]
<1>5. Unref(b, Finish(c), hung)
  BY <1>3 DEF UnrefReceiver
<1>8. \A a \in Boxes : InHand(c, a) = IF a = b THEN 1 ELSE 0
  BY <1>1, <1>2, <1>3 DEF InHand
<1>6. /\ Finish(c) \/ hung
      /\ crash' \in Crashes
      /\ BoxesMoved /\ CountMoved(b, -1)
  <2>1. InHand(c, b) >= 1
    BY <1>1, <1>8
  <2> HIDE DEF hung
  <2>2. QED
    BY <1>5, <2>1, Unreffed
<1>10. /\ thr' \in [Conns -> Threads] /\ Only(c) /\ ThreadOK(c)'
       /\ thr'[c].pc \in {"recv", "hung"}
       /\ \A a \in Boxes : InHand(c, a)' = 0
  <2>1. CASE Finish(c)
    BY <1>2, <2>1, Finishes DEF Finish
  <2>2. CASE hung
    <3> DEFINE t == [thr[c] EXCEPT !.pc = "hung", !.rcv = NULL]
    <3>1. t \in Threads
      BY <1>1 DEF Threads, ClientPcs, Pointers
    <3>2. thr' = [thr EXCEPT ![c] = t]
      BY <2>2
    <3>3. thr' \in [Conns -> Threads] /\ Only(c) /\ thr'[c] = t
      BY <1>1, <3>1, <3>2, Becomes
    <3>4. /\ thr'[c].pc = "hung" /\ thr'[c].fd = thr[c].fd /\ thr'[c].req = thr[c].req
          /\ thr'[c].rcv = NULL /\ thr'[c].snd = NULL
      BY <1>1, <1>2, <3>3 DEF Threads
    <3>5. ThreadOK(c)'
      BY <1>1, <1>2, <3>4 DEF ThreadOK, EmptyHanded, LoggingIn
    <3>6. \A a \in Boxes : InHand(c, a)' = 0
      BY <1>1, <3>4 DEF InHand
    <3>7. QED
      BY <3>3, <3>4, <3>5, <3>6
  <2>3. QED
    BY <1>6, <2>1, <2>2
<1> HIDE DEF hung
<1>11. \A a \in Boxes : InHand(c, a)' - InHand(c, a) = IF a = b THEN -1 ELSE 0
  BY <1>8, <1>10
<1>12. thr'[c].pc \notin Owning /\ thr'[c].pc \notin LoggingIn
  BY <1>10 DEF Owning, LoggingIn
<1>13. QED
  BY <1>2, <1>4, <1>6, <1>10, <1>11, <1>12, CountStep DEF clients

(* The mailbox service thread drops its own count and is done with it.      *)
LEMMA SvcUnrefStep ==
  ASSUME IInv, NEW b \in Boxes, SvcUnref(b)
  PROVE  IInv'
<1>1. /\ Typed /\ svc[b] \in Services /\ svc[b].pc = "unref"
      /\ DOMAIN box \subseteq Boxes /\ \A a \in DOMAIN box : box[a] \in Mailboxes
  BY BoxTyped DEF IInv, Typed, SvcUnref
<1>2. b \in DOMAIN box
  BY <1>1, ServedExists
<1>3. UNCHANGED <<clients, sock, thr, registry, tcount, main>>
  BY DEF SvcUnref
<1> DEFINE done == SvcGoto(b, "decr")
           hung == SvcGoto(b, "hung")
<1>4. /\ done \/ hung
      /\ crash' \in Crashes
      /\ BoxesMoved /\ CountMoved(b, -1)
  <2>1. Unref(b, done, hung)
    BY DEF SvcUnref
  <2>2. Alive(b) = 1
    BY <1>1 DEF Alive
  <2> HIDE DEF done, hung
  <2>3. QED
    BY <1>2, <2>1, <2>2, Unreffed
<1>7. /\ box' \in Seq(Mailboxes) /\ Len(box') = Len(box) /\ DOMAIN box' = DOMAIN box
      /\ \A a \in DOMAIN box : box'[a] \in Mailboxes
  <2>1. box' \in Seq(Mailboxes) /\ Len(box') = Len(box) /\ DOMAIN box' = DOMAIN box
    BY <1>4 DEF BoxesMoved
  <2>2. QED
    BY <2>1, LenProperties
<1>8. PICK pc \in {"decr", "hung"} : SvcGoto(b, pc)
  BY <1>4
<1>9. /\ svc' \in [Boxes -> Services] /\ svc'[b].pc = pc
      /\ \A a \in Boxes \ {b} : svc'[a] = svc[a]
  <2>1. [svc[b] EXCEPT !.pc = pc] \in Services /\ [svc[b] EXCEPT !.pc = pc].pc = pc
    BY <1>1 DEF Services, SvcPcs
  <2>2. svc' = [svc EXCEPT ![b] = [svc[b] EXCEPT !.pc = pc]]
    BY <1>8 DEF SvcGoto
  <2>3. QED
    BY <1>1, <2>1, <2>2 DEF Typed
<1>10. Typed'
  BY <1>1, <1>3, <1>4, <1>7, <1>9 DEF Typed, clients, registry, tcount
<1>11. Locals'
  <2>1. \A a \in Boxes : svc'[a].pc = "unborn" <=> svc[a].pc = "unborn"
    BY <1>1, <1>9
  <2>2. ASSUME NEW d \in Conns PROVE ThreadOK(d)'
    <3>1. ThreadOK(d) /\ thr[d].rcv \in Boxes \cup {NULL}
      BY <1>1 DEF IInv, Locals, Typed, Threads, Pointers
    <3>2. QED
      BY <1>3, <1>7, <2>1, <3>1 DEF ThreadOK
  <2>3. QED
    BY <1>3, <1>7, <2>1, <2>2 DEF IInv, Locals, clients
<1>12. RegistryKept /\ NoneOpened
  BY <1>3, SameRegistry DEF NoneOpened
<1>13. Registered'
  BY <1>4, <1>12, RegisteredBoxesMoved
<1>14. OneOwner'
  BY <1>3, <1>7, <1>12, OneOwnerKept DEF IInv
<1>15. CountsMatch'
  <2>1. ASSUME NEW a \in DOMAIN box
        PROVE  /\ box[a].ref \in Int /\ box'[a].ref \in Int
               /\ ~box'[a].busy =>
                    /\ ~box[a].busy
                    /\ box'[a].ref - box[a].ref
                         = (InDir(a)' - InDir(a)) + (Alive(a)' - Alive(a))
                           + (InHands(a)' - InHands(a))
    <3>1. /\ box[a].ref \in Int /\ box'[a].ref \in Int
          /\ ~box'[a].busy => /\ ~box[a].busy
                              /\ box'[a].ref - box[a].ref = IF a = b THEN -1 ELSE 0
      BY <1>1, <1>4, <1>7 DEF Mailboxes, BoxesMoved, CountMoved
    <3>2. InDir(a)' = InDir(a) /\ InDir(a) \in Int
      BY <1>12 DEF RegistryKept, InDir, DirBoxes
    <3>3. InHands(a)' = InHands(a) /\ InHands(a) \in Int
      BY <1>3, SameInHands, HeldIs
    <3>4. Alive(a)' - Alive(a) = IF a = b THEN -1 ELSE 0
      BY <1>1, <1>9 DEF Alive
    <3>5. InDir(a)' - InDir(a) = 0 /\ InHands(a)' - InHands(a) = 0
      BY <3>2, <3>3
    <3>6. QED
      BY <3>1, <3>4, <3>5
  <2>2. QED
    BY <1>7, <2>1, CountsMove DEF IInv
<1>16. Serving'
  <2>1. DirBoxes' = DirBoxes
    BY <1>12 DEF DirBoxes, RegistryKept
  <2>2. \A a \in DOMAIN box : box'[a].busy => box'[a].ref = 0
    BY <1>4 DEF BoxesMoved
  <2>3. \A a \in DirBoxes : svc'[a].pc \in Ending => svc[a].pc \in Ending
    BY <1>1, <1>9, ListsTyped DEF DirBoxes, Ending
  <2>4. QED
    BY <1>7, <2>1, <2>2, <2>3, ServingMove DEF IInv
<1>17. QED
  BY <1>10, <1>11, <1>13, <1>14, <1>15, <1>16 DEF IInv

(* dir_fini drops the directory's counts, all at once. *)
LEMMA DirFiniStep ==
  ASSUME IInv, DirFini
  PROVE  IInv'
<1>1. /\ Typed /\ \A a \in DOMAIN box : box[a] \in Mailboxes
  BY BoxTyped DEF IInv
<1>2. ASSUME NEW a \in DOMAIN box
      PROVE  LET n == [box[a] EXCEPT !.ref = @ - 1, !.defunct = TRUE]
             IN  n \in Mailboxes /\ n.ref = box[a].ref - 1 /\ n.busy = box[a].busy
  BY <1>1, CountChanged
<1>0. \A a \in DirBoxes : ~box[a].busy
  BY DEF IInv, Registered, DirBoxes
<1>3. /\ box' \in [DOMAIN box -> Mailboxes]
      /\ \A a \in DOMAIN box :
           /\ box[a].ref \in Int
           /\ box'[a].busy = box[a].busy
           /\ box'[a].ref = IF a \in DirBoxes THEN box[a].ref - 1 ELSE box[a].ref
  <2>1. \A a \in DOMAIN box : box[a].ref \in Int
    BY <1>1 DEF Mailboxes
  <2>2. ASSUME NEW a \in DOMAIN box
        PROVE  /\ box'[a] \in Mailboxes
               /\ box'[a].busy = box[a].busy
               /\ box'[a].ref = IF a \in DirBoxes THEN box[a].ref - 1 ELSE box[a].ref
    <3>1. CASE a \in DirBoxes
      <4>1. box'[a] = [box[a] EXCEPT !.ref = @ - 1, !.defunct = TRUE]
        BY <3>1 DEF DirFini
      <4>2. QED
        BY <1>2, <3>1, <4>1
    <3>2. CASE a \notin DirBoxes
      <4>1. box'[a] = box[a]
        BY <3>2 DEF DirFini
      <4>2. QED
        BY <1>1, <3>2, <4>1
    <3>3. QED
      BY <3>1, <3>2
  <2>3. box' = [a \in DOMAIN box |-> box'[a]]
    BY DEF DirFini
  <2>4. QED
    BY <2>1, <2>2, <2>3
<1>4. box' \in Seq(Mailboxes) /\ Len(box') = Len(box) /\ DOMAIN box' = DOMAIN box
  BY <1>1, <1>3, BoxesTyped
<1>5. /\ UNCHANGED <<clients, sock, thr, svc, fds, fdLocked, tcount, crash>>
      /\ dir' = <<>> /\ main' = "dirfini"
      /\ dirDefunct' \in {"yes", "freed"}
  <2>1. dirDefunct \in {"yes", "freed"}
    BY <1>1 DEF IInv, Registered, Typed, DirFini
  <2>2. QED
    BY <2>1 DEF DirFini
<1>6. dir' \in Seq(DirNodes) /\ DOMAIN dir' = {} /\ DirBoxes' = {}
  <2>1. <<>> \in Seq(DirNodes) /\ DOMAIN <<>> = {}
    BY EmptySeq
  <2>2. QED
    BY <1>5, <2>1 DEF DirBoxes
<1>7. Typed'
  BY <1>1, <1>4, <1>5, <1>6 DEF Typed, clients, tcount, Mains
<1>8. Locals'
  BY <1>4, <1>5 DEF IInv, Locals, ThreadOK, clients
<1>9. Registered'
  BY <1>5, <1>6 DEF Registered, ShutdownReachesAll, Gone
<1>10. OneOwner'
  BY <1>4, <1>5 DEF IInv, OneOwner, Gone
<1>11. CountsMatch'
  <2>1. ASSUME NEW a \in DOMAIN box
        PROVE  /\ box[a].ref \in Int /\ box'[a].ref \in Int
               /\ box'[a].busy = box[a].busy
               /\ box'[a].ref - box[a].ref
                    = (InDir(a)' - InDir(a)) + (Alive(a)' - Alive(a))
                      + (InHands(a)' - InHands(a))
    <3>1. InDir(a)' = 0 /\ InDir(a) = IF a \in DirBoxes THEN 1 ELSE 0
      BY <1>6 DEF InDir
    <3>2. InHands(a)' = InHands(a) /\ InHands(a) \in Int
      BY <1>5, SameInHands, HeldIs
    <3>3. Alive(a)' = Alive(a) /\ Alive(a) \in Int
      BY <1>5 DEF Alive
    <3>4. InHands(a)' - InHands(a) = 0 /\ Alive(a)' - Alive(a) = 0
      BY <3>2, <3>3
    <3>5. QED
      BY <1>3, <3>1, <3>4
  <2>2. QED
    BY <1>4, <2>1, CountsMove DEF IInv
<1>12. Serving'
  <2>1. \A a \in DOMAIN box : box'[a].busy => box'[a].ref = 0
    BY <1>0, <1>3 DEF IInv, Serving
  <2>2. QED
    BY <1>4, <1>6, <2>1 DEF Serving
<1>13. QED
  BY <1>7, <1>8, <1>9, <1>10, <1>11, <1>12 DEF IInv

-----------------------------------------------------------------------------
(* The invariant holds. *)

LEMMA InitIInv == Init => IInv
<1> SUFFICES ASSUME Init PROVE IInv
  OBVIOUS
<1>1. /\ dir \in Seq(DirNodes) /\ fds \in Seq(FdNodes) /\ box \in Seq(Mailboxes)
      /\ Len(box) = 0 /\ DOMAIN dir = {} /\ DOMAIN fds = {} /\ DOMAIN box = {}
  BY EmptySeq DEF Init
<1>2. NoThread \in Threads /\ NoService \in Services
  BY DEF NoThread, NoService, NoReq, Threads, Services, Pointers, ClientPcs, SvcPcs
<1>3. sock \in [Fds -> [st : {"free", "open", "shut"}, conn : Conns \cup {"none"}]]
  BY DEF Init, Free
<1>4. Typed
  <2>1. budget \in 0 .. MaxReqs /\ Len(box) <= MaxBoxes
    BY <1>1, ConstantsOK DEF Init
  <2>2. /\ peer \in [Conns -> {"new", "open", "gone"}]
        /\ owed \in [Conns -> Int]
        /\ thr \in [Conns -> Threads] /\ svc \in [Boxes -> Services]
    BY <1>2 DEF Init
  <2>3. fdLocked \in BOOLEAN
    BY DEF Init
  <2>4. /\ dirDefunct \in {"no", "yes", "freed"}
        /\ counter \in Int /\ tcsem \in Nat /\ main \in Mains /\ crash \in Crashes
    BY DEF Init, Mains, Crashes
  <2>5. QED
    BY <1>1, <1>3, <2>1, <2>2, <2>3, <2>4 DEF Typed
<1>5. Locals
  BY <1>1 DEF Locals, ThreadOK, Init, NoThread, NoService, NoReq, EmptyHanded, LoggingIn
<1>6. Registered
  BY <1>1 DEF Registered, ShutdownReachesAll, Init, Gone
<1>7. OneOwner
  BY <1>1 DEF OneOwner, Init, NoThread, Owning
<1>8. CountsMatch /\ Serving
  BY <1>1 DEF CountsMatch, Serving, DirBoxes
<1>9. QED
  BY <1>4, <1>5, <1>6, <1>7, <1>8 DEF IInv

LEMMA RegisterStep ==
  ASSUME IInv, NEW c \in Conns, Register(c)
  PROVE  IInv'
BY RefusedStep, RegisteredStep

LEMMA RemoveNodeStep ==
  ASSUME IInv, NEW c \in Conns, RemoveNode(c)
  PROVE  IInv'
BY NotFoundStep, FoundStep

LEMMA HandleStep ==
  ASSUME IInv, NEW c \in Conns, Handle(c)
  PROVE  IInv'
<1>1. CASE Register(c) \/ AddNode(c) \/ Spawn(c)
  BY <1>1, RegisterStep, AddNodeStep, SpawnStep
<1>2. CASE RemoveNode(c) \/ Unregister(c) \/ ShutSocket(c) \/ CloseSocket(c)
  BY <1>2, RemoveNodeStep, UnregisterStep, ShutSocketStep, CloseSocketStep
<1>3. CASE Users(c) \/ Lookup(c) \/ ReadNode(c) \/ FindSelf(c) \/ ReadSelf(c)
  BY <1>3, UsersStep, LookupStep, ReadNodeStep, FindSelfStep, ReadSelfStep
<1>4. CASE LoginAck(c) \/ AddNotice(c) \/ AddMessage(c) \/ Ack(c) \/ Nack(c)
  BY <1>4, AddStep, AckStep
<1>5. CASE UnrefSender(c) \/ UnrefReceiver(c)
  BY <1>5, UnrefSenderStep, UnrefReceiverStep
<1>6. QED
  BY <1>1, <1>2, <1>3, <1>4, <1>5 DEF Handle

LEMMA NextIInv == IInv /\ [Next]_vars => IInv'
<1> SUFFICES ASSUME IInv, [Next]_vars PROVE IInv'
  OBVIOUS
<1>1. CASE ClientInput
  BY <1>1, AcceptStep, CloseStep, ReceiveStep DEF ClientInput
<1>2. CASE Sighup \/ MainStep \/ TouchFreed
  BY <1>2, SighupStep, MainThreadStep, DirFiniStep, TouchFreedStep DEF MainStep
<1>3. ASSUME NEW c \in Conns, ClientStep(c) PROVE IInv'
  BY <1>3, ClientStartStep, ReceiveEofStep, HandleStep, ClientEndStep DEF ClientStep
<1>4. ASSUME NEW b \in Boxes, SvcStep(b) PROVE IInv'
  BY <1>4, SvcGotoStep, SvcGetStep, SvcReceiptStep, SvcSendStep, SvcUnrefStep DEF SvcStep
<1>5. CASE UNCHANGED vars
  <2>1. UNCHANGED <<peer, budget, owed, sock, thr, svc, dir, dirDefunct, fds, fdLocked,
                    box, counter, tcsem, main, crash>>
    BY <1>5 DEF vars
  <2>2. Typed' /\ Locals'
    BY <2>1 DEF IInv, Typed, Locals, ThreadOK
  <2>3. Registered'
    BY <2>1 DEF IInv, Registered, ShutdownReachesAll, Gone
  <2>4. OneOwner' /\ CountsMatch' /\ Serving'
    BY <2>1 DEF IInv, OneOwner, Gone, DirBoxes, CountsMatch, Held, Serving
  <2>5. QED
    BY <2>2, <2>3, <2>4 DEF IInv
<1>6. QED
  BY <1>1, <1>2, <1>3, <1>4, <1>5 DEF Next

(* The inductive invariant holds in every state of the server.             *)
THEOREM Invariance == Spec => []IInv
BY InitIInv, NextIInv, PTL DEF Spec

(* The directory and the list of descriptors agree. *)
THEOREM RegistryIsConsistent == Spec => []RegistryConsistent
<1>1. IInv => RegistryConsistent
  BY DEF IInv, Registered, OneOwner, RegistryConsistent, DirBoxes, FdBoxes, Gone
<1>2. QED
  BY <1>1, Invariance, PTL

(* The count of a mailbox is what the directory, its service thread and the *)
(* requests under way have of it, whatever logins, logouts, messages and    *)
(* shutdowns do in the meantime; but for mailboxes that a finalization has  *)
(* left locked, whose count it has dropped for a message that had none.     *)
THEOREM CountsAreExact == Spec => []CountsMatch
<1>1. IInv => CountsMatch
  BY DEF IInv
<1>2. QED
  BY <1>1, Invariance, PTL

(* Once a shutdown has begun, no registered socket is open.                 *)
THEOREM ShutdownIsComplete == Spec => []ShutdownReachesAll
<1>1. IInv => ShutdownReachesAll
  BY DEF IInv, Registered
<1>2. QED
  BY <1>1, Invariance, PTL

-----------------------------------------------------------------------------
(* The server's threads use the thread counter as module ThreadCounter has  *)
(* it.  What a client service thread does while it is counted in is nothing *)
(* to the counter.                                                          *)

RunningPcs == ClientPcs \ {"unborn", "created", "unlock", "done"}
CountedPcs == [t \in Conns \cup Boxes |->
                 IF t \in Conns THEN Counted(thr[t].pc) ELSE Counted(svc[t].pc)]
CountedMain == IF main = "dirfini" THEN "finalized" ELSE main

RunsOn(c) ==
  /\ Only(c) /\ thr[c].pc \in RunningPcs /\ thr'[c].pc \in RunningPcs
  /\ UNCHANGED <<tcount, main>> /\ crash' # "counter"

LEMMA GoesOn ==
  ASSUME Typed, NEW c \in Conns, NEW pc \in RunningPcs, Goto(c, pc)
  PROVE  Only(c) /\ thr'[c].pc \in RunningPcs
<1>1. pc \in ClientPcs
  BY DEF RunningPcs
<1>2. QED
  BY <1>1, Goes

LEMMA FinishGoesOn ==
  ASSUME IInv, NEW c \in Conns, NEW h \in {"noop", "payload"},
         Finish(c) \/ thr' = [Done(c) EXCEPT ![c].hdr = h]
  PROVE  Only(c) /\ thr'[c].pc \in RunningPcs
<1>1. Only(c) /\ thr'[c].pc = "recv"
  BY Finishes DEF Finish
<1>2. QED
  BY <1>1 DEF RunningPcs, ClientPcs

LEMMA BecomesOn ==
  ASSUME Typed, NEW c \in Conns, NEW t, t.pc \in RunningPcs, thr' = [thr EXCEPT ![c] = t]
  PROVE  Only(c) /\ thr'[c].pc \in RunningPcs
BY DEF Typed, Only

LEMMA WriteNotCounter ==
  ASSUME crash = "none", NEW f, NEW a, Write(f, a)
  PROVE  crash' # "counter"
BY DEF Write

LEMMA UnrefOn ==
  ASSUME crash = "none", NEW b, NEW ACTION done, NEW ACTION hung, Unref(b, done, hung)
  PROVE  crash' # "counter" /\ (done \/ hung)
<1>1. CASE box[b].ref # 1
  BY <1>1 DEF Unref
<1>2. CASE box[b].ref = 1
  <2> DEFINE out == Finalization(b)
  <2>1. /\ crash' = IF out \in {"abort", "fault"} THEN out ELSE "none"
        /\ IF out = "hang" THEN hung ELSE done
    BY <1>2 DEF Unref
  <2> HIDE DEF out
  <2>2. QED
    BY <2>1
<1>3. QED
  BY <1>1, <1>2

LEMMA HandleRunsOn ==
  ASSUME IInv, crash = "none", NEW c \in Conns, Handle(c)
  PROVE  RunsOn(c) /\ (UNCHANGED svc \/ Spawn(c))
<1>1. Typed /\ thr[c] \in Threads
  BY DEF IInv, Typed
<1>2. /\ {"recv", "nack", "ack", "addnode", "loginack", "spawn", "unregister", "shut",
          "close", "findself", "readnode", "readself", "notice", "message", "unrefsnd",
          "unrefrcv", "hung", "remove", "register", "users", "lookup", "decr"}
           \subseteq RunningPcs
  BY DEF RunningPcs, ClientPcs
<1>3. ASSUME NEW p \in RunningPcs, NEW x,
             \/ thr' = [thr EXCEPT ![c].pc = p, ![c].rcv = x]
             \/ thr' = [thr EXCEPT ![c].pc = p, ![c].snd = x]
             \/ thr' = [thr EXCEPT ![c].pc = p, ![c].hdr = x]
             \/ thr' = [thr EXCEPT ![c].pc = p, ![c].req = x]
      PROVE  Only(c) /\ thr'[c].pc \in RunningPcs
  <2> DEFINE a == [thr[c] EXCEPT !.pc = p, !.rcv = x]
             b == [thr[c] EXCEPT !.pc = p, !.snd = x]
             h == [thr[c] EXCEPT !.pc = p, !.hdr = x]
             r == [thr[c] EXCEPT !.pc = p, !.req = x]
  <2>0. a.pc = p /\ b.pc = p /\ h.pc = p /\ r.pc = p
    BY <1>1 DEF Threads
  <2>1. PICK u : u.pc = p /\ thr' = [thr EXCEPT ![c] = u]
    <3>1. \/ thr' = [thr EXCEPT ![c] = a]
          \/ thr' = [thr EXCEPT ![c] = b]
          \/ thr' = [thr EXCEPT ![c] = h]
          \/ thr' = [thr EXCEPT ![c] = r]
      BY <1>3
    <3> HIDE DEF a, b, h, r
    <3>2. QED
      BY <2>0, <3>1
  <2>2. QED
    BY <1>1, <2>1, BecomesOn
<1>4. CASE Register(c)
  <2>1. Only(c) /\ thr'[c].pc \in RunningPcs
    BY <1>1, <1>2, <1>3, <1>4, GoesOn DEF Register
  <2>2. QED
    BY <1>2, <1>4, <2>1 DEF Register, RunsOn
<1>5. CASE AddNode(c) \/ LoginAck(c) \/ ShutSocket(c) \/ AddNotice(c) \/ AddMessage(c)
  <2>1. \E pc \in {"loginack", "spawn", "close", "unrefsnd", "ack"} : Goto(c, pc)
    BY <1>5 DEF AddNode, LoginAck, ShutSocket, AddNotice, AddMessage
  <2>2. Only(c) /\ thr'[c].pc \in RunningPcs
    BY <1>1, <1>2, <2>1, GoesOn
  <2>3. QED
    BY <1>2, <1>5, <2>2 DEF AddNode, LoginAck, ShutSocket, AddNotice, AddMessage, RunsOn
<1>6. CASE Spawn(c) \/ CloseSocket(c)
  <2>1. Only(c) /\ thr'[c].pc \in RunningPcs
    BY <1>6, FinishGoesOn DEF Spawn, CloseSocket
  <2>2. QED
    BY <1>2, <1>6, <2>1 DEF Spawn, CloseSocket, RunsOn
<1>7. CASE RemoveNode(c)
  <2>1. Only(c) /\ thr'[c].pc \in RunningPcs
    BY <1>1, <1>2, <1>3, <1>7, GoesOn DEF RemoveNode
  <2>2. QED
    BY <1>2, <1>7, <2>1 DEF RemoveNode, RunsOn
<1>8. CASE Unregister(c)
  <2>1. Only(c) /\ thr'[c].pc \in RunningPcs
    BY <1>1, <1>2, <1>3, <1>8 DEF Unregister
  <2>2. QED
    BY <1>2, <1>8, <2>1 DEF Unregister, RunsOn
<1>9. CASE Users(c)
  <2>1. Only(c) /\ thr'[c].pc \in RunningPcs
    BY <1>1, <1>2, <1>3, <1>9 DEF Users
  <2>2. QED
    BY <1>2, <1>9, <2>1 DEF Users, RunsOn
<1>10. CASE Lookup(c)
  <2>1. Only(c) /\ thr'[c].pc \in RunningPcs
    BY <1>1, <1>2, <1>3, <1>10, GoesOn DEF Lookup
  <2>2. QED
    BY <1>2, <1>10, <2>1 DEF Lookup, RunsOn
<1>11. CASE FindSelf(c)
  <2>1. Answer(c, NULL) \in RunningPcs
    BY <1>2, AnswerOK
  <2>2. thr[c].pc \in RunningPcs /\ UNCHANGED <<svc, tcount, main>> /\ crash' # "counter"
    BY <1>2, <1>11 DEF FindSelf
  <2>3. Only(c) /\ thr'[c].pc \in RunningPcs
    <3>1. \/ Goto(c, Answer(c, NULL)) \/ Goto(c, "hung") \/ UNCHANGED thr
          \/ \E b : thr' = [thr EXCEPT ![c].pc = "readself", ![c].snd = b]
      BY <1>11, FindSelfFinds
    <3>2. CASE UNCHANGED thr
      BY <2>2, <3>2 DEF Only
    <3>3. QED
      BY <1>1, <1>2, <1>3, <2>1, <3>1, <3>2, GoesOn
  <2>4. QED
    BY <2>2, <2>3 DEF RunsOn
<1>12. CASE ReadNode(c) \/ ReadSelf(c)
  <2>1. Answer(c, thr[c].snd) \in RunningPcs
    BY <1>2, AnswerOK
  <2>2. Only(c) /\ thr'[c].pc \in RunningPcs
    BY <1>1, <1>2, <1>12, <2>1, GoesOn DEF ReadNode, ReadSelf
  <2>3. QED
    BY <1>2, <1>12, <2>2 DEF ReadNode, ReadSelf, RunsOn
<1>13. CASE Ack(c) \/ Nack(c)
  <2>1. \E h \in {"noop", "payload"} :
          \/ thr' = [Done(c) EXCEPT ![c].hdr = h]
          \/ thr' = [thr EXCEPT ![c].pc = "unrefsnd", ![c].hdr = h]
          \/ thr' = [thr EXCEPT ![c].pc = "unrefrcv", ![c].hdr = h]
    BY <1>13 DEF Ack, Nack
  <2>2. Only(c) /\ thr'[c].pc \in RunningPcs
    BY <1>2, <1>3, <2>1, FinishGoesOn
  <2>3. QED
    BY <1>2, <1>13, <2>2, WriteNotCounter DEF Ack, Nack, RunsOn
<1>14. CASE UnrefSender(c) \/ UnrefReceiver(c)
  <2>1. /\ crash' # "counter"
        /\ \/ Finish(c)
           \/ \E p \in {"unrefrcv", "hung"} :
                \/ thr' = [thr EXCEPT ![c].pc = p, ![c].snd = NULL]
                \/ thr' = [thr EXCEPT ![c].pc = p, ![c].rcv = NULL]
    <3>1. CASE UnrefSender(c)
      <4> DEFINE done == IF thr[c].rcv = NULL THEN Finish(c)
                         ELSE thr' = [thr EXCEPT ![c].pc = "unrefrcv", ![c].snd = NULL]
                 hung == thr' = [thr EXCEPT ![c].pc = "hung", ![c].snd = NULL]
      <4>1. Unref(thr[c].snd, done, hung)
        BY <3>1 DEF UnrefSender
      <4>2. crash' # "counter" /\ (done \/ hung)
        <5> HIDE DEF done, hung
        <5>1. QED
          BY <4>1, UnrefOn
      <4>3. QED
        BY <4>2
    <3>2. CASE UnrefReceiver(c)
      <4> DEFINE hung == thr' = [thr EXCEPT ![c].pc = "hung", ![c].rcv = NULL]
      <4>1. Unref(thr[c].rcv, Finish(c), hung)
        BY <3>2 DEF UnrefReceiver
      <4>2. crash' # "counter" /\ (Finish(c) \/ hung)
        <5> HIDE DEF hung
        <5>1. QED
          BY <4>1, UnrefOn
      <4>3. QED
        BY <4>2
    <3>3. QED
      BY <1>14, <3>1, <3>2
  <2>2. Only(c) /\ thr'[c].pc \in RunningPcs
    <3>1. CASE Finish(c)
      BY <3>1, FinishGoesOn
    <3>2. CASE ~Finish(c)
      <4>1. PICK p \in {"unrefrcv", "hung"} :
              \/ thr' = [thr EXCEPT ![c].pc = p, ![c].snd = NULL]
              \/ thr' = [thr EXCEPT ![c].pc = p, ![c].rcv = NULL]
        BY <2>1, <3>2
      <4>2. p \in RunningPcs
        BY <1>2
      <4>3. QED
        BY <1>3, <4>1, <4>2
    <3>3. QED
      BY <3>1, <3>2
  <2>3. QED
    BY <1>2, <1>14, <2>1, <2>2 DEF UnrefSender, UnrefReceiver, RunsOn
<1>15. QED
  BY <1>4, <1>5, <1>6, <1>7, <1>8, <1>9, <1>10, <1>11, <1>12, <1>13, <1>14 DEF Handle

LEMMA CountedPc ==
  ASSUME NEW c \in Conns, NEW b \in Boxes
  PROVE  /\ c \in Conns \cup Boxes /\ b \in Conns \cup Boxes /\ b \notin Conns
         /\ CountedPcs[c] = Counted(thr[c].pc) /\ CountedPcs[b] = Counted(svc[b].pc)
BY ConstantsOK DEF CountedPcs

(* Only the thread that moves changes. *)
LEMMA CountedPcsMove ==
  ASSUME NEW t \in Conns \cup Boxes, NEW s,
         \A c \in Conns : Counted(thr'[c].pc) = IF c = t THEN s ELSE Counted(thr[c].pc),
         \A b \in Boxes : Counted(svc'[b].pc) = IF b = t THEN s ELSE Counted(svc[b].pc)
  PROVE  CountedPcs' = [CountedPcs EXCEPT ![t] = s]
<1>1. ASSUME NEW u \in Conns \cup Boxes
      PROVE  CountedPcs'[u] = [CountedPcs EXCEPT ![t] = s][u]
  <2>1. CASE u \in Conns
    BY <2>1 DEF CountedPcs
  <2>2. CASE u \notin Conns
    BY <2>2 DEF CountedPcs
  <2>3. QED
    BY <2>1, <2>2
<1>2. QED
  BY <1>1 DEF CountedPcs

LEMMA CountedPcsStay ==
  ASSUME \A c \in Conns : Counted(thr'[c].pc) = Counted(thr[c].pc),
         \A b \in Boxes : Counted(svc'[b].pc) = Counted(svc[b].pc)
  PROVE  CountedPcs' = CountedPcs
<1>1. ASSUME NEW u \in Conns \cup Boxes
      PROVE  CountedPcs'[u] = CountedPcs[u]
  <2>1. CASE u \in Conns
    BY <2>1 DEF CountedPcs
  <2>2. CASE u \notin Conns
    BY <2>2 DEF CountedPcs
  <2>3. QED
    BY <2>1, <2>2
<1>2. QED
  BY <1>1 DEF CountedPcs

(* The mutex and the freeing of the counter are the same in both.           *)
LEMMA SameCounter ==
  /\ MutexFree => \A t \in Conns \cup Boxes : CountedPcs[t] # "unlocking"
  /\ Freed <=> CountedMain \in {"finalized", "exited"}
<1>1. \A p : Counted(p) = "unlocking" => p = "unlock"
  BY DEF Counted
<1>2. MutexFree => \A t \in Conns \cup Boxes : CountedPcs[t] # "unlocking"
  BY <1>1 DEF CountedPcs, MutexFree
<1>3. QED
  BY <1>2 DEF Freed, CountedMain

LEMMA RunningCounted == \A p \in RunningPcs : Counted(p) = "running"
BY DEF RunningPcs, Counted

LEMMA Nothing ==
  ASSUME CountedPcs' = CountedPcs, UNCHANGED <<counter, tcsem>>,
         CountedMain' = CountedMain, crash = "none", crash' # "counter"
  PROVE  UNCHANGED TC!vars
BY DEF TC!vars, CountedPcs, CountedMain

(* A thread that counts itself in or out, or has.                           *)
CounterStep(t, s) ==
  /\ CountedPcs' = [CountedPcs EXCEPT ![t] = s]
  /\ UNCHANGED <<main, crash>>

LEMMA CountsIn ==
  ASSUME crash = "none", NEW t \in Conns \cup Boxes, CountedPcs[t] = "created",
         CountedIn, CounterStep(t, "running")
  PROVE  TC!Next
<1>1. TC!Incr(t)
  BY SameCounter DEF TC!Incr, TC!MutexFree, TC!Freed, CountedIn, CounterStep, CountedPcs,
                     CountedMain
<1>2. QED
  BY <1>1 DEF TC!Next, TC!ThreadStep

LEMMA CountsOut ==
  ASSUME crash = "none", NEW t \in Conns \cup Boxes, CountedPcs[t] = "running",
         CountedOut, CounterStep(t, "unlocking")
  PROVE  TC!Next
<1>1. TC!Decr(t)
  BY SameCounter DEF TC!Decr, TC!MutexFree, TC!Freed, CountedOut, CounterStep, CountedPcs,
                     CountedMain
<1>2. QED
  BY <1>1 DEF TC!Next, TC!ThreadStep

LEMMA Unlocks ==
  ASSUME crash = "none", NEW t \in Conns \cup Boxes, CountedPcs[t] = "unlocking",
         ~Freed, CounterStep(t, "done"), UNCHANGED tcount
  PROVE  TC!Next
<1>1. TC!Unlock(t)
  BY SameCounter DEF TC!Unlock, TC!Freed, CounterStep, CountedPcs, CountedMain, tcount
<1>2. QED
  BY <1>1 DEF TC!Next, TC!ThreadStep

LEMMA Spawned ==
  ASSUME crash = "none", main # "exited", NEW t \in Conns \cup Boxes,
         CountedPcs[t] = "unborn",
         main = "accepting" \/ \E u \in Conns \cup Boxes : CountedPcs[u] = "running",
         CounterStep(t, "created"), UNCHANGED tcount
  PROVE  TC!Next
<1>1. TC!Spawn(t)
  BY DEF TC!Spawn, CounterStep, CountedPcs, CountedMain, tcount
<1>2. QED
  BY <1>1 DEF TC!Next, TC!ThreadStep

(* What a thread's step comes to. *)
LEMMA ClientMoves ==
  ASSUME NEW c \in Conns, Only(c), UNCHANGED <<svc, main, crash>>
  PROVE  CounterStep(c, Counted(thr'[c].pc))
<1>1. c \notin Boxes
  BY ConstantsOK
<1>2. QED
  BY <1>1, CountedPcsMove DEF Only, CounterStep

LEMMA ServiceMoves ==
  ASSUME Typed, NEW b \in Boxes, NEW pc, SvcGoto(b, pc), UNCHANGED <<thr, main, crash>>
  PROVE  CounterStep(b, Counted(pc))
<1>1. b \notin Conns
  BY ConstantsOK
<1>2. svc'[b].pc = pc /\ \A a \in Boxes \ {b} : svc'[a] = svc[a]
  BY DEF Typed, Services, SvcGoto
<1>3. QED
  BY <1>1, <1>2, CountedPcsMove DEF CounterStep

LEMMA ClientStays ==
  ASSUME NEW c \in Conns, RunsOn(c), crash = "none",
         \A b \in Boxes : Counted(svc'[b].pc) = Counted(svc[b].pc)
  PROVE  UNCHANGED TC!vars
<1>1. \A d \in Conns : Counted(thr'[d].pc) = Counted(thr[d].pc)
  BY RunningCounted DEF RunsOn, Only
<1>2. CountedPcs' = CountedPcs
  BY <1>1, CountedPcsStay
<1>3. QED
  BY <1>2, Nothing DEF RunsOn, tcount, CountedMain

LEMMA InputCounts ==
  ASSUME IInv, Running, ClientInput
  PROVE  TC!Next \/ UNCHANGED TC!vars
<1>1. Typed /\ crash = "none" /\ main # "exited"
  BY DEF IInv, Running
<1>2. ASSUME NEW c \in Conns, Accept(c) PROVE TC!Next
  <2>1. thr[c].pc = "unborn" /\ thr[c] \in Threads
    BY <1>1, <1>2 DEF IInv, Locals, Accept, Typed
  <2>2. Only(c) /\ thr'[c].pc = "created"
    <3>1. PICK f : thr' = [thr EXCEPT ![c].pc = "created", ![c].fd = f]
      BY <1>2 DEF Accept
    <3>2. QED
      BY <1>1, <2>1, <3>1 DEF Typed, Threads, Only
  <2>3. UNCHANGED <<svc, main, crash, tcount>> /\ main = "accepting"
    BY <1>2 DEF Accept
  <2>4. CounterStep(c, "created")
    BY <2>2, <2>3, ClientMoves DEF Counted
  <2>5. CountedPcs[c] = "unborn"
    BY <2>1 DEF CountedPcs, Counted
  <2>6. QED
    BY <1>1, <2>3, <2>4, <2>5, Spawned
<1>3. ASSUME NEW c \in Conns, Close(c) PROVE UNCHANGED TC!vars
  <2>1. UNCHANGED <<thr, svc, tcount, main, crash>>
    BY <1>3 DEF Close
  <2>2. CountedPcs' = CountedPcs
    BY <2>1, CountedPcsStay
  <2>3. QED
    BY <1>1, <2>1, <2>2, Nothing DEF tcount, CountedMain
<1>4. ASSUME NEW c \in Conns, Receive(c) PROVE UNCHANGED TC!vars
  <2>1. thr[c].pc = "recv" /\ UNCHANGED <<svc, tcount, main, crash>> /\ thr[c] \in Threads
    BY <1>1, <1>4 DEF Receive, Typed
  <2> DEFINE Q(r) == [type |-> r.type, handle |-> r.handle, conn |-> sock[thr[c].fd].conn]
             H(r) == CASE r.type = "USERS" -> "USERS"
                       [] r.type = "LOGOUT" -> "LOGOUT"
                       [] OTHER -> "payload"
  <2>2. PICK r \in Requests :
          thr' = [thr EXCEPT ![c].pc = Handler(r.type), ![c].req = Q(r), ![c].hdr = H(r)]
    BY <1>4 DEF Receive
  <2> HIDE DEF Q, H
  <2>3. Handler(r.type) \in {"register", "nack", "remove", "users", "lookup"}
    <3>1. r.type \in {"LOGIN", "SEND", "BADLOGIN", "LOGOUT", "USERS"}
      BY DEF Requests
    <3>2. QED
      BY <3>1 DEF Handler
  <2>4. Only(c) /\ thr'[c].pc = Handler(r.type)
    <3> DEFINE p == Handler(r.type)
    <3>1. PICK h, q : thr' = [thr EXCEPT ![c].pc = p, ![c].req = q, ![c].hdr = h]
      BY <2>2
    <3> HIDE DEF p
    <3>2. Only(c) /\ thr'[c].pc = p
      BY <1>1, <2>1, <3>1 DEF Typed, Threads, Only
    <3>3. QED
      BY <3>2 DEF p
  <2>5. RunsOn(c)
    BY <1>1, <2>1, <2>3, <2>4 DEF RunsOn, RunningPcs, ClientPcs
  <2>6. QED
    BY <1>1, <2>1, <2>5, ClientStays
<1>5. QED
  BY <1>2, <1>3, <1>4 DEF ClientInput

LEMMA ClientCounts ==
  ASSUME IInv, Running, NEW c \in Conns, ClientStep(c)
  PROVE  TC!Next \/ UNCHANGED TC!vars
<1>1. Typed /\ crash = "none" /\ main # "exited"
  BY DEF IInv, Running
<1>2. CASE ClientStart(c)
  <2>1. Goto(c, "recv") /\ "recv" \in ClientPcs /\ UNCHANGED <<svc, main, crash>>
    BY <1>2 DEF ClientStart, ClientPcs
  <2>2. CounterStep(c, "running")
    BY <1>1, <2>1, Goes, ClientMoves DEF Counted
  <2>3. CountedPcs[c] = "created"
    BY <1>2 DEF ClientStart, CountedPcs, Counted
  <2>4. QED
    BY <1>1, <1>2, <2>2, <2>3, CountsIn DEF ClientStart
<1>3. CASE ReceiveEof(c) \/ ReceiveError(c)
  <2>1. thr[c].pc = "recv" /\ UNCHANGED <<svc, tcount, main, crash>>
    BY <1>3 DEF ReceiveEof, ReceiveError
  <2>2. {"recv", "decr", "users", "remove"} \subseteq RunningPcs
    BY DEF RunningPcs, ClientPcs
  <2>3. RunsOn(c)
    <3>1. PICK t : /\ thr' = [thr EXCEPT ![c] = t]
                   /\ t.pc \in {"recv", "decr", "users", "remove"}
      BY <1>1, <1>3, EofGoes
    <3>2. Only(c) /\ thr'[c].pc \in RunningPcs
      BY <1>1, <2>2, <3>1, BecomesOn
    <3>3. QED
      BY <1>1, <2>1, <2>2, <3>2 DEF RunsOn
  <2>4. QED
    BY <1>1, <2>1, <2>3, ClientStays
<1>4. CASE Handle(c) /\ UNCHANGED svc
  BY <1>1, <1>4, HandleRunsOn, ClientStays
<1>5. CASE Spawn(c)
  <2>1. RunsOn(c)
    BY <1>1, <1>5, HandleRunsOn DEF Handle
  <2>2. PICK b \in Boxes : b = thr[c].rcv /\ svc[b].pc = "unborn"
    BY <1>5, SpawnStep
  <2>3. svc'[b].pc = "created" /\ \A a \in Boxes \ {b} : svc'[a] = svc[a]
    <3>1. svc[b] \in Services
      BY <1>1 DEF Typed
    <3>2. svc' = [svc EXCEPT ![b] = [svc[b] EXCEPT !.pc = "created", !.fd = thr[c].fd]]
      BY <1>5, <2>2 DEF Spawn
    <3>3. QED
      BY <1>1, <3>1, <3>2 DEF Typed, Services
  <2>4. b \notin Conns
    BY ConstantsOK
  <2>5. /\ \A d \in Conns : Counted(thr'[d].pc) = Counted(thr[d].pc)
        /\ Counted(thr[c].pc) = "running"
    BY <2>1, RunningCounted DEF RunsOn, Only
  <2>6. CounterStep(b, "created")
    <3>1. CountedPcs' = [CountedPcs EXCEPT ![b] = "created"]
      BY <2>3, <2>4, <2>5, CountedPcsMove DEF Counted
    <3>2. QED
      BY <1>5, <3>1 DEF CounterStep, Spawn
  <2>7. CountedPcs[b] = "unborn" /\ CountedPcs[c] = "running"
    BY <2>2, <2>4, <2>5 DEF CountedPcs, Counted
  <2>8. QED
    BY <1>1, <2>1, <2>6, <2>7, Spawned DEF RunsOn
<1>6. CASE ClientDecr(c)
  <2>1. Goto(c, "unlock") /\ "unlock" \in ClientPcs /\ UNCHANGED <<svc, main, crash>>
    BY <1>6 DEF ClientDecr, ClientPcs
  <2>2. CounterStep(c, "unlocking")
    BY <1>1, <2>1, Goes, ClientMoves DEF Counted
  <2>3. CountedPcs[c] = "running"
    BY <1>6 DEF ClientDecr, CountedPcs, Counted
  <2>4. QED
    BY <1>1, <1>6, <2>2, <2>3, CountsOut DEF ClientDecr
<1>7. CASE ClientEnd(c)
  <2>1. Goto(c, "done") /\ "done" \in ClientPcs /\ UNCHANGED <<svc, main, crash, tcount>>
    BY <1>7 DEF ClientEnd, ClientPcs
  <2>2. CounterStep(c, "done")
    BY <1>1, <2>1, Goes, ClientMoves DEF Counted
  <2>3. CountedPcs[c] = "unlocking"
    BY <1>7 DEF ClientEnd, CountedPcs, Counted
  <2>4. QED
    BY <1>1, <1>7, <2>1, <2>2, <2>3, Unlocks DEF ClientEnd
<1>8. QED
  BY <1>1, <1>2, <1>3, <1>4, <1>5, <1>6, <1>7, HandleRunsOn DEF ClientStep

LEMMA ServiceCounts ==
  ASSUME IInv, Running, NEW b \in Boxes, SvcStep(b)
  PROVE  TC!Next \/ UNCHANGED TC!vars
<1>1. /\ Typed /\ crash = "none" /\ main # "exited" /\ svc[b] \in Services
      /\ b \notin Conns
  BY ConstantsOK DEF IInv, Running, Typed
<1>2. CASE SvcStart(b)
  <2>1. CounterStep(b, "running")
    BY <1>1, <1>2, ServiceMoves DEF SvcStart, Counted
  <2>2. CountedPcs[b] = "created"
    BY <1>1, <1>2 DEF SvcStart, CountedPcs, Counted
  <2>3. QED
    BY <1>1, <1>2, <2>1, <2>2, CountsIn DEF SvcStart
<1>3. CASE SvcDecr(b)
  <2>1. CounterStep(b, "unlocking")
    BY <1>1, <1>3, ServiceMoves DEF SvcDecr, Counted
  <2>2. CountedPcs[b] = "running"
    BY <1>1, <1>3 DEF SvcDecr, CountedPcs, Counted
  <2>3. QED
    BY <1>1, <1>3, <2>1, <2>2, CountsOut DEF SvcDecr
<1>4. CASE SvcEnd(b)
  <2>1. CounterStep(b, "done")
    BY <1>1, <1>4, ServiceMoves DEF SvcEnd, Counted
  <2>2. CountedPcs[b] = "unlocking"
    BY <1>1, <1>4 DEF SvcEnd, CountedPcs, Counted
  <2>3. QED
    BY <1>1, <1>4, <2>1, <2>2, Unlocks DEF SvcEnd
<1>5. CASE SvcStop(b) \/ SvcGet(b) \/ SvcReceipt(b) \/ SvcSend(b) \/ SvcUnref(b)
  <2> DEFINE S == {"wait", "rrcpt", "send", "unref", "decr", "hung"}
  <2>1. svc[b].pc \in S
    BY <1>5 DEF SvcStop, SvcGet, SvcReceipt, SvcSend, SvcUnref
  <2>2. UNCHANGED <<thr, tcount, main>>
    BY <1>5 DEF SvcStop, SvcGet, SvcReceipt, SvcSend, SvcUnref
  <2>3. \E u : svc' = [svc EXCEPT ![b] = u] /\ u.pc \in S
    <3>1. CASE SvcStop(b) \/ SvcReceipt(b) \/ SvcUnref(b)
      <4>1. PICK pc \in S : SvcGoto(b, pc)
        <5>1. SvcUnref(b) => SvcGoto(b, "decr") \/ SvcGoto(b, "hung")
          <6> DEFINE done == SvcGoto(b, "decr")
                     hung == SvcGoto(b, "hung")
          <6>1. SvcUnref(b) => Unref(b, done, hung)
            BY DEF SvcUnref
          <6> HIDE DEF done, hung
          <6>2. SvcUnref(b) => done \/ hung
            BY <1>1, <6>1, UnrefOn
          <6>3. QED
            BY <6>2 DEF done, hung
        <5>2. QED
          BY <3>1, <5>1 DEF SvcStop, SvcReceipt
      <4>2. [svc[b] EXCEPT !.pc = pc].pc = pc
        BY <1>1 DEF Services
      <4>3. svc' = [svc EXCEPT ![b] = [svc[b] EXCEPT !.pc = pc]]
        BY <4>1 DEF SvcGoto
      <4>4. QED
        BY <4>2, <4>3
    <3>2. CASE SvcGet(b)
      <4> DEFINE e == Head(box[b].queue)
                 p == IF e.kind = "message" THEN "rrcpt" ELSE "send"
                 u == [svc[b] EXCEPT !.entry = <<e>>, !.pc = p]
      <4>1. svc' = [svc EXCEPT ![b] = u]
        BY <3>2 DEF SvcGet
      <4>2. p \in S
        OBVIOUS
      <4> HIDE DEF e, p
      <4>3. u.pc = p
        BY <1>1 DEF Services
      <4>4. QED
        BY <4>1, <4>2, <4>3
    <3>3. CASE SvcSend(b)
      <4> DEFINE u == [svc[b] EXCEPT !.pc = "wait", !.entry = <<>>]
      <4>1. svc' = [svc EXCEPT ![b] = u]
        BY <3>3 DEF SvcSend
      <4>2. u.pc = "wait"
        BY <1>1 DEF Services
      <4>3. QED
        BY <4>1, <4>2
    <3>4. QED
      BY <1>5, <3>1, <3>2, <3>3
  <2>4. svc'[b].pc \in S /\ \A a \in Boxes \ {b} : svc'[a] = svc[a]
    BY <1>1, <2>3 DEF Typed
  <2>5. CountedPcs' = CountedPcs
    <3>1. \A p \in S : Counted(p) = "running"
      BY DEF Counted
    <3> HIDE DEF S
    <3>2. QED
      BY <2>1, <2>2, <2>4, <3>1, CountedPcsStay
  <2>6. crash' # "counter"
    <3>1. CASE SvcStop(b) \/ SvcGet(b) \/ SvcReceipt(b)
      BY <1>1, <3>1 DEF SvcStop, SvcGet, SvcReceipt
    <3>2. CASE SvcSend(b)
      BY <1>1, <3>2, WriteNotCounter DEF SvcSend
    <3>3. CASE SvcUnref(b)
      <4> DEFINE done == SvcGoto(b, "decr")
                 hung == SvcGoto(b, "hung")
      <4>1. Unref(b, done, hung)
        BY <3>3 DEF SvcUnref
      <4> HIDE DEF done, hung
      <4>2. QED
        BY <1>1, <4>1, UnrefOn
    <3>4. QED
      BY <1>5, <3>1, <3>2, <3>3
  <2>7. QED
    BY <1>1, <2>2, <2>5, <2>6, Nothing DEF tcount, CountedMain
<1>6. QED
  BY <1>2, <1>3, <1>4, <1>5 DEF SvcStep

LEMMA MainCounts ==
  ASSUME IInv, Running, Sighup \/ MainStep \/ TouchFreed
  PROVE  TC!Next \/ UNCHANGED TC!vars
<1>1. crash = "none" /\ main # "exited"
  BY DEF Running
<1>2. CASE TouchFreed
  <2>1. PICK t \in Conns \cup Boxes : CountedPcs[t] \in {"created", "running", "unlocking"}
    <3>1. CASE \E c \in Conns : thr[c].pc \in {"created", "decr", "unlock"}
      BY <3>1, CountedPc DEF Counted, CountedPcs
    <3>2. CASE \E b \in Boxes : svc[b].pc \in {"created", "decr", "unlock"}
      <4>1. PICK b \in Boxes : svc[b].pc \in {"created", "decr", "unlock"}
        BY <3>2
      <4>2. b \notin Conns
        BY ConstantsOK
      <4>3. QED
        BY <4>1, <4>2 DEF Counted, CountedPcs
    <3>3. QED
      BY <1>2, <3>1, <3>2 DEF TouchFreed
  <2>2. /\ UNCHANGED <<thr, svc, tcount, main>> /\ crash' = "counter"
        /\ CountedMain = "finalized"
    BY <1>1, <1>2 DEF TouchFreed, Freed, CountedMain
  <2>3. TC!UseFreed(t)
    BY <2>1, <2>2 DEF TC!UseFreed, TC!Pending, CountedPcs, CountedMain, tcount
  <2>4. QED
    BY <1>1, <2>3 DEF TC!Next, TC!ThreadStep
<1>3. CASE Sighup \/ MainStep
  <2>1. UNCHANGED <<thr, svc, crash>>
    BY <1>3 DEF Sighup, MainStep, WaitCheck, WaitP, Fini, DirFini, Exit
  <2>2. CountedPcs' = CountedPcs
    BY <2>1, CountedPcsStay
  <2>3. CASE Sighup
    BY <1>1, <2>1, <2>2, <2>3
       DEF Sighup, tcount, CountedPcs, TC!Next, TC!MainStep, TC!Sighup
  <2>4. CASE WaitCheck
    BY <1>1, <2>1, <2>2, <2>4
       DEF WaitCheck, tcount, CountedPcs, TC!Next, TC!MainStep, TC!WaitCheck
  <2>5. CASE WaitP
    BY <1>1, <2>1, <2>2, <2>5
       DEF WaitP, CountedPcs, TC!Next, TC!MainStep, TC!WaitP
  <2>6. CASE Fini
    BY <1>1, <2>1, <2>2, <2>6
       DEF Fini, tcount, CountedPcs, TC!Next, TC!MainStep, TC!Fini
  <2>7. CASE DirFini
    BY <1>1, <2>1, <2>2, <2>7, Nothing DEF DirFini, tcount, CountedMain
  <2>8. CASE Exit
    BY <1>1, <2>1, <2>2, <2>8
       DEF Exit, tcount, CountedPcs, TC!Next, TC!MainStep, TC!Exit
  <2>9. QED
    BY <1>3, <2>3, <2>4, <2>5, <2>6, <2>7, <2>8 DEF MainStep
<1>4. QED
  BY <1>2, <1>3

(* The server's threads use the thread counter as ThreadCounter says.       *)
THEOREM UsesTheCounter == Spec => UsesThreadCounter
<1>1. Init => TC!Init
  <2>1. ASSUME Init PROVE CountedPcs = [t \in Conns \cup Boxes |-> "unborn"]
    BY <2>1 DEF Init, CountedPcs, Counted, NoThread, NoService
  <2>2. QED
    BY <2>1 DEF Init, TC!Init, CountedPcs
<1>2. IInv /\ [Next]_vars => [TC!Next]_(TC!vars)
  <2> SUFFICES ASSUME IInv, [Next]_vars PROVE TC!Next \/ UNCHANGED TC!vars
    OBVIOUS
  <2>1. CASE Next
    BY <2>1, InputCounts, MainCounts, ClientCounts, ServiceCounts DEF Next
  <2>2. CASE UNCHANGED vars
    <3>1. UNCHANGED <<thr, svc, counter, tcsem, main, crash>>
      BY <2>2 DEF vars
    <3>2. QED
      BY <3>1 DEF TC!vars
  <2>3. QED
    BY <2>1, <2>2
<1>3. QED
  BY <1>1, <1>2, Invariance, PTL DEF Spec, UsesThreadCounter, TC!Spec

(* What is proved of ThreadCounter therefore holds of the server: the count *)
(* of service threads is a natural number.                                  *)
TCP == INSTANCE ThreadCounterProofs WITH
         Threads <- Conns \cup Boxes,
         sem <- tcsem,
         pc <- [t \in Conns \cup Boxes |->
                  IF t \in Conns THEN Counted(thr[t].pc) ELSE Counted(svc[t].pc)],
         main <- IF main = "dirfini" THEN "finalized" ELSE main,
         fault <- (crash = "counter")

LEMMA CounterIsNatural == Spec => [](counter \in Nat)
<1>1. TC!Init => TCP!Init
  BY DEF TC!Init, TCP!Init
<1>2. [TC!Next]_(TC!vars) => [TCP!Next]_(TCP!vars)
  BY DEF TC!Next, TC!MainStep, TC!ThreadStep, TC!Sighup, TC!WaitCheck, TC!WaitP, TC!Fini,
         TC!Exit, TC!Spawn, TC!Incr, TC!Decr, TC!Unlock, TC!UseFreed, TC!MutexFree, TC!Freed,
         TC!Pending, TC!vars,
         TCP!Next, TCP!MainStep, TCP!ThreadStep, TCP!Sighup, TCP!WaitCheck, TCP!WaitP,
         TCP!Fini, TCP!Exit, TCP!Spawn, TCP!Incr, TCP!Decr, TCP!Unlock, TCP!UseFreed,
         TCP!MutexFree, TCP!Freed, TCP!Pending, TCP!vars
<1>3. TCP!IsFiniteSet(Conns \cup Boxes)
  <2>1. IsFiniteSet(Boxes)
    BY ConstantsOK, FS_Interval DEF Boxes
  <2>2. IsFiniteSet(Conns \cup Boxes)
    BY <2>1, ConstantsOK, FS_Union
  <2>3. QED
    BY <2>2 DEF IsFiniteSet, TCP!IsFiniteSet
<1>4. TCP!Init => TCP!IInv
  BY <1>3, TCP!InitIInv
<1>5. TCP!IInv /\ [TCP!Next]_(TCP!vars) => TCP!IInv'
  BY <1>3, TCP!NextIInv
<1>6. TCP!IInv => counter \in Nat
  BY DEF TCP!IInv, TCP!TypeOK
<1>7. QED
  BY <1>1, <1>2, <1>4, <1>5, <1>6, UsesTheCounter, PTL DEF UsesThreadCounter, TC!Spec

(* Every variable keeps its type in every behaviour of the server.          *)
THEOREM TypeCorrect == Spec => []TypeOK
<1>1. IInv /\ counter \in Nat => TypeOK
  <2> SUFFICES ASSUME IInv, counter \in Nat PROVE TypeOK
    OBVIOUS
  <2>1. Typed
    BY DEF IInv
  <2>2. ASSUME NEW b \in DOMAIN box
        PROVE  /\ box[b].ref \in Nat /\ box[b].defunct \in BOOLEAN
               /\ box[b].freed \in BOOLEAN /\ box[b].busy \in BOOLEAN
               /\ \A i \in DOMAIN box[b].queue : box[b].queue[i] \in Entries
    <3>1. box[b] \in Mailboxes
      BY <2>1, BoxTyped
    <3>2. /\ box[b].defunct \in BOOLEAN /\ box[b].freed \in BOOLEAN
          /\ box[b].busy \in BOOLEAN /\ box[b].queue \in Seq(Entries)
      BY <3>1 DEF Mailboxes
    <3>3. \A i \in DOMAIN box[b].queue : box[b].queue[i] \in Entries
      BY <3>2, LenProperties
    <3>4. box[b].ref = Held(b) \/ box[b].ref = 0
      BY DEF IInv, CountsMatch, Serving
    <3>5. Held(b) \in Nat
      <4>1. InDir(b) \in Nat /\ Alive(b) \in Nat
        BY DEF InDir, Alive
      <4>2. QED
        BY <4>1, HeldIs
    <3>6. QED
      BY <3>2, <3>3, <3>4, <3>5
  <2>3. /\ \A i \in DOMAIN dir : dir[i] \in [name : Handles, fd : Fds, box : Boxes]
        /\ \A i \in DOMAIN fds : fds[i] \in [fd : Fds, box : Boxes]
    BY <2>1, ListsTyped DEF DirNodes, FdNodes
  <2>4. thr \in [Conns -> [pc : ClientPcs, fd : Fds \cup {NULL},
                           hdr : {"garbage", "noop", "payload", "USERS", "LOGOUT"},
                           req : [type : AllInputs \cup {"none"},
                                  handle : Handles \cup {"none", "listed"},
                                  conn : Conns \cup {"none"}],
                           rcv : Pointers, snd : Pointers]]
    BY <2>1 DEF Typed, Threads
  <2>5. svc \in [Boxes -> [pc : SvcPcs, fd : Fds \cup {NULL},
                           entry : {<<>>} \cup {<<e>> : e \in Entries}]]
    BY <2>1 DEF Typed, Services
  <2>6. /\ peer \in [Conns -> {"new", "open", "gone"}]
        /\ budget \in 0 .. MaxReqs
        /\ owed \in [Conns -> Int]
        /\ sock \in [Fds -> [st : {"free", "open", "shut"}, conn : Conns \cup {"none"}]]
        /\ dirDefunct \in {"no", "yes", "freed"} /\ fdLocked \in BOOLEAN
        /\ counter \in Nat /\ tcsem \in Nat
    BY <2>1 DEF Typed
  <2>7. /\ main \in {"accepting", "terminating", "waiting", "returned", "finalized",
                     "dirfini", "exited"}
        /\ crash \in {"none", "abort", "fault", "stale", "counter", "sigpipe"}
    BY <2>1 DEF Typed, Mains, Crashes
  <2> HIDE DEF ClientPcs, SvcPcs
  <2>8. QED
    BY <2>2, <2>3, <2>4, <2>5, <2>6, <2>7 DEF TypeOK
<1>2. QED
  BY <1>1, Invariance, CounterIsNatural, PTL
=============================================================================
