----------------------------- MODULE Allocator ------------------------------
(***************************************************************************)
(* What the buddy allocator promises its caller (hw3/include/budmm.h),      *)
(* whatever its lists and headers look like: a region it grants is as long  *)
(* as its order says, lies at a multiple of its length and overlaps no      *)
(* other region in use; it refuses a request only when no such region is    *)
(* left anywhere in the heap; it takes back, and cuts down, only regions in *)
(* use.  Budmm implements it until bud_free has harmed a list.              *)
(***************************************************************************)
EXTENDS Integers

CONSTANTS
  Top, N, None,  \* largest order, units in the heap, no request
  Size           \* length of a region of each order

VARIABLES
  regions,  \* in use: [at, order]
  wanted,   \* order of the request being served, or None
  void      \* the promise no longer holds

avars == <<regions, wanted, void>>

Region(b) == b.at .. (b.at + Size[b.order] - 1)

(* Where a region of order k could be granted. *)
Left(k) ==
  {a \in 0 .. (N - 1) :
     LET new == Region([at |-> a, order |-> k])
     IN  /\ a % Size[k] = 0
         /\ new \subseteq 0 .. (N - 1)
         /\ \A b \in regions : Region(b) \cap new = {}}

AInit == regions = {} /\ wanted = None /\ void = FALSE

Ask ==
  /\ wanted = None
  /\ wanted' \in 0 .. Top
  /\ UNCHANGED regions

Grant ==
  /\ wanted # None
  /\ \E a \in Left(wanted) : regions' = regions \cup {[at |-> a, order |-> wanted]}
  /\ wanted' = None

Refuse ==
  /\ wanted # None /\ Left(wanted) = {}
  /\ wanted' = None
  /\ UNCHANGED regions

TakeBack ==
  /\ wanted = None
  /\ \E b \in regions : regions' = regions \ {b}
  /\ UNCHANGED wanted

(* The lower part stays in use. *)
CutDown ==
  /\ wanted = None
  /\ \E b \in regions : \E k \in 0 .. (b.order - 1) :
       LET c == [at |-> b.at, order |-> k]
       IN  Region(c) \subseteq Region(b) /\ regions' = (regions \ {b}) \cup {c}
  /\ UNCHANGED wanted

ANext == (Ask \/ Grant \/ Refuse \/ TakeBack \/ CutDown) /\ UNCHANGED void

ASpec == AInit /\ [][ANext \/ void']_avars
=============================================================================
