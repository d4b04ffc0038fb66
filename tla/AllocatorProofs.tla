-------------------------- MODULE AllocatorProofs ---------------------------
(***************************************************************************)
(* What follows from the promise of Allocator, for any heap and any orders. *)
(***************************************************************************)
EXTENDS Allocator, TLAPS

(* Regions in use lie in the heap and do not overlap: what the program      *)
(* stores in one block changes no other.                                    *)
Apart ==
  ~void => /\ \A b \in regions : Region(b) \subseteq 0 .. (N - 1)
           /\ \A b, c \in regions : b # c => Region(b) \cap Region(c) = {}

(* An allocator that keeps the promise never has two owners for a word of   *)
(* the heap: what bud_malloc owes its caller whatever its lists look like.  *)
THEOREM PromiseMeansApart == ASpec => []Apart
<1>1. AInit => Apart
  BY DEF AInit, Apart
<1>2. Apart /\ [ANext \/ void']_avars => Apart'
  <2> SUFFICES ASSUME Apart, [ANext \/ void']_avars, ~void'
               PROVE  /\ \A b \in regions' : Region(b) \subseteq 0 .. (N - 1)
                      /\ \A b, c \in regions' : b # c => Region(b) \cap Region(c) = {}
    BY DEF Apart
  <2>1. ~void
    BY DEF ANext, avars
  <2>2. /\ \A b \in regions : Region(b) \subseteq 0 .. (N - 1)
        /\ \A b, c \in regions : b # c => Region(b) \cap Region(c) = {}
    BY <2>1 DEF Apart
  <2>3. CASE regions' = regions
    BY <2>2, <2>3
  <2>4. CASE Grant
    <3>1. PICK a \in Left(wanted) : regions' = regions \cup {[at |-> a, order |-> wanted]}
      BY <2>4 DEF Grant
    <3> DEFINE new == [at |-> a, order |-> wanted]
    <3>2. Region(new) \subseteq 0 .. (N - 1) /\ \A b \in regions : Region(b) \cap Region(new) = {}
      BY <3>1 DEF Left
    <3> HIDE DEF new
    <3>3. regions' = regions \cup {new}
      BY <3>1 DEF new
    <3>4. QED
      BY <2>2, <3>2, <3>3
  <2>5. CASE TakeBack
    <3>1. regions' \subseteq regions
      BY <2>5 DEF TakeBack
    <3>2. QED
      BY <2>2, <3>1
  <2>6. CASE CutDown
    <3>1. PICK b \in regions : \E c : Region(c) \subseteq Region(b) /\ regions' = (regions \ {b}) \cup {c}
      BY <2>6 DEF CutDown
    <3>2. PICK c : Region(c) \subseteq Region(b) /\ regions' = (regions \ {b}) \cup {c}
      BY <3>1
    <3>3. \A d \in regions \ {b} : Region(d) \cap Region(c) = {}
      BY <2>2, <3>2
    <3>4. Region(c) \subseteq 0 .. (N - 1)
      BY <2>2, <3>2
    <3>5. QED
      BY <2>2, <3>2, <3>3, <3>4
  <2>7. QED
    BY <2>3, <2>4, <2>5, <2>6 DEF ANext, Ask, Refuse, avars
<1>3. QED
  BY <1>1, <1>2, PTL DEF ASpec
=============================================================================
