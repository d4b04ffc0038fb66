----------------------------- MODULE BudmmProofs -----------------------------
(******************************************************************************)
(* The buddy allocator of hw3 proved for any number of orders, any heap, any  *)
(* requests and any number of calls: its type invariant, that the heap is     *)
(* intact until bud_free harms a list, that free buddies are merged, and that *)
(* it implements Allocator.                                                   *)
(*                                                                            *)
(* The argument: a free list is a set of blocks with next a permutation of it *)
(* and its head, all of whose parts lead back to the head (IsList), and the   *)
(* walk from the head sees these blocks and no others; the blocks in use, the *)
(* one bud_free has in hand and those in the lists tile the heap below the    *)
(* break (Tiling), each at a multiple of its size.  The invariant IInv says   *)
(* this of the lists, with what the headers say; it has one lemma per step.   *)
(******************************************************************************)
EXTENDS Budmm, FiniteSetTheorems, WellFoundedInduction, NaturalsInduction, TLAPS

-----------------------------------------------------------------------------
(* Least elements and recursive functions.  What the provers cannot do with   *)
(* the library's induction theorems is done with least counterexamples.       *)

(* A set of naturals that is not empty has a least element.                   *)
LEMMA LeastOf ==
  ASSUME NEW S, S \subseteq Nat, S # {}
  PROVE  \E n \in S : \A m \in S : n <= m
<1> DEFINE R == OpToRel(<, Nat)
<1>1. IsWellFoundedOn(R, Nat)
  BY NatLessThanWellFounded
<1>2. \E n \in S : \A m \in S : ~(<<m, n>> \in R)
  <2> HIDE DEF R
  <2>1. QED
    BY <1>1, WFMin
<1>3. \A m, n \in Nat : m < n => <<m, n>> \in R
  BY DEF OpToRel
<1> HIDE DEF R
<1>4. PICK n \in S : \A m \in S : ~(<<m, n>> \in R)
  BY <1>2
<1>5. ASSUME NEW m \in S PROVE n <= m
  <2>1. m \in Nat /\ n \in Nat /\ ~(m < n)
    BY <1>3, <1>4
  <2>2. QED
    BY <2>1
<1>6. QED
  BY <1>5

(* Min is what its name says.                                                 *)
LEMMA MinOf ==
  ASSUME NEW S, S \subseteq Nat, S # {}
  PROVE  Min(S) \in S /\ \A m \in S : Min(S) <= m
BY LeastOf DEF Min

(* A value given for 0 and a step give a function on 0 .. n.                  *)
IsRecursive(f, n, a, F) ==
  /\ f = [i \in 0 .. n |-> f[i]]
  /\ \A i \in 0 .. n : f[i] = IF i = 0 THEN a ELSE F[f[i - 1]]

(* Such a function exists for every length, by least counterexample.          *)
LEMMA Recursion ==
  ASSUME NEW n \in Nat, NEW a, NEW F
  PROVE  \E f : IsRecursive(f, n, a, F)
<1> DEFINE Upto(m) == \E f : f = [i \in 0 .. m |-> IF i = 0 THEN a ELSE F[f[i - 1]]]
           Bad == {m \in Nat : ~Upto(m)}
<1>1. Upto(0)
  <2> DEFINE f == [i \in 0 .. 0 |-> a]
  <2>1. f = [i \in 0 .. 0 |-> IF i = 0 THEN a ELSE F[f[i - 1]]]
    OBVIOUS
  <2>2. QED
    BY <2>1
<1>2. ASSUME NEW m \in Nat, m # 0, Upto(m - 1)
      PROVE  Upto(m)
  <2>1. PICK g : g = [i \in 0 .. (m - 1) |-> IF i = 0 THEN a ELSE F[g[i - 1]]]
    BY <1>2
  <2> DEFINE f == [i \in 0 .. m |-> IF i < m THEN g[i] ELSE F[g[m - 1]]]
  <2>2. ASSUME NEW i \in 0 .. m PROVE f[i] = IF i = 0 THEN a ELSE F[f[i - 1]]
    <3>1. CASE i = m
      BY <1>2, <3>1
    <3>2. CASE i < m
      <4>1. g[i] = IF i = 0 THEN a ELSE F[g[i - 1]]
        BY <1>2, <2>1, <3>2
      <4>2. QED
        BY <1>2, <3>2, <4>1
    <3>3. QED
      BY <1>2, <3>1, <3>2
  <2>3. f = [i \in 0 .. m |-> IF i = 0 THEN a ELSE F[f[i - 1]]]
    BY <2>2
  <2>4. QED
    BY <2>3
<1> HIDE DEF Upto
<1>3. Bad = {}
  <2> SUFFICES ASSUME Bad # {} PROVE FALSE
    OBVIOUS
  <2>1. PICK m \in Bad : \A k \in Bad : m <= k
    BY LeastOf
  <2>2. m \in Nat /\ ~Upto(m) /\ m # 0
    BY <1>1
  <2>3. m - 1 \in Nat /\ m - 1 \notin Bad
    BY <2>1, <2>2
  <2>4. QED
    BY <1>2, <2>2, <2>3
<1>4. PICK f : f = [i \in 0 .. n |-> IF i = 0 THEN a ELSE F[f[i - 1]]]
  BY <1>3 DEF Upto
<1>5. QED
  BY <1>4 DEF IsRecursive

-----------------------------------------------------------------------------
(* Sizes of blocks.                                                           *)

(* The orders are the numbers up to Top.                                      *)
LEMMA OrdersAreNumbers ==
  /\ Top \in Nat \ {0} /\ Top \in Orders /\ 0 \in Orders
  /\ \A k : k \in Orders <=> k \in Nat /\ k <= Top
  /\ \A k \in Orders : k # Top => k + 1 \in Orders
  /\ \A k \in Orders : k # 0 => k - 1 \in Orders
BY ConstantsOK DEF Orders

(* Size is what its recursive definition says: positive, and twice the size   *)
(* of the order below.                                                        *)
LEMMA SizeRecursion ==
  /\ Size \in [Orders -> Nat \ {0}]
  /\ Size[0] = 1
  /\ \A k \in Orders : k # 0 => Size[k] = 2 * Size[k - 1]
<1> DEFINE F == [x \in Nat |-> 2 * x]
<1> HIDE DEF F
<1>0. Top \in Nat
  BY ConstantsOK
<1>1. PICK f : IsRecursive(f, Top, 1, F)
  BY <1>0, Recursion
<1> USE DEF IsRecursive
<1> USE DEF F
<1> DEFINE Bad == {i \in 0 .. Top : f[i] \notin Nat \ {0}}
<1>2. Bad = {}
  <2> SUFFICES ASSUME Bad # {} PROVE FALSE
    OBVIOUS
  <2>1. Bad \subseteq Nat
    OBVIOUS
  <2>2. PICK i \in Bad : \A k \in Bad : i <= k
    BY <2>1, LeastOf
  <2>3. i \in 0 .. Top /\ f[i] \notin Nat \ {0} /\ f[i] = IF i = 0 THEN 1 ELSE F[f[i - 1]]
    BY <1>1
  <2>4. i # 0
    BY <2>3
  <2>5. i - 1 \in 0 .. Top /\ i - 1 \notin Bad
    BY <2>2, <2>3, <2>4, ConstantsOK
  <2>6. f[i - 1] \in Nat \ {0} /\ f[i] = 2 * f[i - 1]
    BY <2>3, <2>4, <2>5
  <2>7. 2 * f[i - 1] \in Nat \ {0}
    BY <2>6
  <2>8. QED
    BY <2>3, <2>6, <2>7
<1>3. \A i \in 0 .. Top : f[i] \in Nat \ {0}
  BY <1>2
<1>4. ASSUME NEW i \in 0 .. Top PROVE f[i] = IF i = 0 THEN 1 ELSE 2 * f[i - 1]
  <2>1. f[i] = IF i = 0 THEN 1 ELSE F[f[i - 1]]
    BY <1>1
  <2>2. i # 0 => f[i - 1] \in Nat
    BY <1>3, ConstantsOK
  <2>3. QED
    BY <2>1, <2>2
<1>5. f = [k \in Orders |-> IF k = 0 THEN 1 ELSE 2 * f[k - 1]]
  <2>1. f = [i \in 0 .. Top |-> f[i]]
    BY <1>1
  <2>2. QED
    BY <1>4, <2>1 DEF Orders
<1> HIDE DEF F
<1>6. \E g : g = [k \in Orders |-> IF k = 0 THEN 1 ELSE 2 * g[k - 1]]
  BY <1>5
<1>7. Size = [k \in Orders |-> IF k = 0 THEN 1 ELSE 2 * Size[k - 1]]
  BY <1>6 DEF Size
<1> DEFINE Wrong == {i \in Orders : Size[i] \notin Nat \ {0}}
<1>8. Wrong = {}
  <2> SUFFICES ASSUME Wrong # {} PROVE FALSE
    OBVIOUS
  <2>1. Wrong \subseteq Nat
    BY OrdersAreNumbers
  <2>2. PICK i \in Wrong : \A k \in Wrong : i <= k
    BY <2>1, LeastOf
  <2>3. i \in Orders /\ Size[i] \notin Nat \ {0} /\ Size[i] = IF i = 0 THEN 1 ELSE 2 * Size[i - 1]
    BY <1>7
  <2>4. i # 0
    BY <2>3
  <2>5. i - 1 \in Orders /\ i - 1 < i
    BY <2>3, <2>4, OrdersAreNumbers
  <2>6. i - 1 \notin Wrong
    BY <2>1, <2>2, <2>5
  <2>7. Size[i - 1] \in Nat \ {0} /\ Size[i] = 2 * Size[i - 1]
    BY <2>3, <2>4, <2>5, <2>6
  <2>8. QED
    BY <2>3, <2>7
<1>9. QED
  BY <1>7, <1>8, OrdersAreNumbers

(* The same upwards.                                                          *)
LEMMA SizeStep ==
  ASSUME NEW k \in Orders, k # Top
  PROVE  k + 1 \in Orders /\ Size[k + 1] = 2 * Size[k]
<1>1. k + 1 \in Orders /\ k + 1 # 0 /\ (k + 1) - 1 = k
  BY OrdersAreNumbers
<1>2. QED
  BY <1>1, SizeRecursion

(* A block is cut into a whole number of smaller ones, an even number of them. *)
LEMMA SizeDivides ==
  ASSUME NEW j \in Orders, NEW k \in Orders, j < k
  PROVE  \E m \in Nat \ {0} : Size[k] = (2 * m) * Size[j]
<1> DEFINE Holds(i) == \E m \in Nat \ {0} : Size[i] = (2 * m) * Size[j]
           Bad == {i \in Orders : j < i /\ ~Holds(i)}
<1>1. Bad = {}
  <2> SUFFICES ASSUME Bad # {} PROVE FALSE
    OBVIOUS
  <2>1. Bad \subseteq Nat
    BY OrdersAreNumbers
  <2>2. PICK i \in Bad : \A l \in Bad : i <= l
    BY <2>1, LeastOf
  <2>3. i \in Orders /\ i \in Nat /\ j \in Nat /\ j < i /\ ~Holds(i)
    BY OrdersAreNumbers
  <2>4. i - 1 \in Orders /\ i - 1 \in Nat /\ i # 0
    BY <2>3, OrdersAreNumbers
  <2>5. Size[i] = 2 * Size[i - 1] /\ Size[i - 1] \in Nat /\ Size[j] \in Nat
    BY <2>3, <2>4, SizeRecursion
  <2>6. CASE i - 1 = j
    <3>1. Size[i] = (2 * 1) * Size[j]
      BY <2>5, <2>6
    <3>2. QED
      BY <2>3, <3>1
  <2>7. CASE i - 1 # j
    <3>1. j < i - 1 /\ i - 1 \notin Bad
      BY <2>1, <2>2, <2>3, <2>4, <2>7
    <3>2. PICK m \in Nat \ {0} : Size[i - 1] = (2 * m) * Size[j]
      BY <2>4, <3>1
    <3>3. 2 * m \in Nat \ {0} /\ 2 * ((2 * m) * Size[j]) = (2 * (2 * m)) * Size[j]
      BY <2>5
    <3>4. Size[i] = (2 * (2 * m)) * Size[j]
      BY <2>5, <3>2, <3>3
    <3>5. QED
      BY <2>3, <3>3, <3>4
  <2>8. QED
    BY <2>6, <2>7
<1>2. QED
  BY <1>1

(* Multiples, for a modulus that is no literal.                               *)
LEMMA MultipleMod ==
  ASSUME NEW q \in Nat, NEW m \in Nat \ {0}
  PROVE  (q * m) % m = 0 /\ (q * m) \div m = q
OBVIOUS

(* Division with remainder, with names for both.                              *)
LEMMA QuotientOf ==
  ASSUME NEW a \in Nat, NEW m \in Nat \ {0}
  PROVE  \E q, r \in Nat : a \div m = q /\ a % m = r /\ a = q * m + r /\ r < m
<1>1. a \div m \in Nat /\ a % m \in Nat /\ a % m < m
  OBVIOUS
<1>2. a = ((a \div m) * m) + (a % m)
  OBVIOUS
<1>3. QED
  BY <1>1, <1>2

(* Multiples of s are s apart.                                                *)
LEMMA TimesNext ==
  ASSUME NEW q \in Nat, NEW s \in Nat
  PROVE  (q + 1) * s = q * s + s /\ (q # 0 => (q - 1) * s = q * s - s)
OBVIOUS

(* A smaller multiple of s is smaller by at least s.                          *)
LEMMA TimesLess ==
  ASSUME NEW x \in Nat, NEW y \in Nat, NEW s \in Nat \ {0}, x * s < y * s
  PROVE  x < y /\ x * s + s <= y * s
<1>1. x < y
  OBVIOUS
<1>2. PICK d \in Nat : y = x + 1 + d
  <2>1. y - x - 1 \in Nat /\ y = x + 1 + (y - x - 1)
    BY <1>1
  <2>2. QED
    BY <2>1
<1>3. y * s = x * s + s + d * s /\ d * s \in Nat
  BY <1>2
<1>4. QED
  BY <1>1, <1>3

(* A lies at a multiple of the size of order k.                               *)
At(a, k) == a \in Nat /\ a % Size[k] = 0

(* An address is aligned when it is a multiple of the size.                   *)
LEMMA AtQuotient ==
  ASSUME NEW a \in Nat, NEW k \in Orders
  PROVE  At(a, k) <=> \E q \in Nat : a = q * Size[k]
<1>1. Size[k] \in Nat \ {0}
  BY SizeRecursion
<1>2. ASSUME At(a, k) PROVE \E q \in Nat : a = q * Size[k]
  <2>1. PICK q, r \in Nat : a % Size[k] = r /\ a = q * Size[k] + r
    BY <1>1, QuotientOf
  <2>2. r = 0 /\ q * Size[k] \in Nat
    BY <1>1, <1>2, <2>1 DEF At
  <2>3. a = q * Size[k]
    BY <2>1, <2>2
  <2>4. QED
    BY <2>3
<1>3. ASSUME NEW q \in Nat, a = q * Size[k] PROVE At(a, k)
  BY <1>1, <1>3, MultipleMod DEF At
<1>4. QED
  BY <1>2, <1>3

(* What lies at a multiple of the larger size lies at one of the smaller.     *)
LEMMA AtSmaller ==
  ASSUME NEW j \in Orders, NEW k \in Orders, j <= k, NEW a \in Nat, At(a, k)
  PROVE  At(a, j)
<1>1. CASE j = k
  BY <1>1
<1>2. CASE j # k
  <2>1. j < k
    BY <1>2, OrdersAreNumbers
  <2>2. PICK m \in Nat \ {0} : Size[k] = (2 * m) * Size[j]
    BY <2>1, SizeDivides
  <2>3. PICK q \in Nat : a = q * Size[k]
    BY AtQuotient
  <2>4. a = (q * (2 * m)) * Size[j] /\ q * (2 * m) \in Nat
    BY <2>2, <2>3, SizeRecursion
  <2>5. QED
    BY <2>4, AtQuotient
<1>3. QED
  BY <1>1, <1>2

(* Two multiples of one size that differ are at least a block apart.          *)
LEMMA AtApart ==
  ASSUME NEW k \in Orders, NEW a, NEW b, At(a, k), At(b, k), a < b
  PROVE  a + Size[k] <= b
<1>1. a \in Nat /\ b \in Nat /\ Size[k] \in Nat \ {0}
  BY SizeRecursion DEF At
<1>2. PICK q \in Nat : a = q * Size[k]
  BY <1>1, AtQuotient
<1>3. PICK r \in Nat : b = r * Size[k]
  BY <1>1, AtQuotient
<1>4. QED
  BY <1>1, <1>2, <1>3, TimesLess

(* The aligned addresses next to an aligned one.                              *)
LEMMA AtPlus ==
  ASSUME NEW k \in Orders, NEW a, At(a, k)
  PROVE  At(a + Size[k], k) /\ (Size[k] <= a => At(a - Size[k], k))
<1>1. a \in Nat /\ Size[k] \in Nat \ {0}
  BY SizeRecursion DEF At
<1>2. PICK q \in Nat : a = q * Size[k]
  BY <1>1, AtQuotient
<1>3. a + Size[k] = (q + 1) * Size[k]
  BY <1>1, <1>2, TimesNext
<1>4. ASSUME Size[k] <= a PROVE At(a - Size[k], k)
  <2>1. q # 0
    BY <1>1, <1>2, <1>4
  <2>2. a - Size[k] = (q - 1) * Size[k] /\ q - 1 \in Nat /\ a - Size[k] \in Nat
    BY <1>1, <1>2, <1>4, <2>1, TimesNext
  <2>3. QED
    BY <2>2, AtQuotient
<1>5. QED
  BY <1>1, <1>3, <1>4, AtQuotient

(* Blocks are disjoint or one inside the other.                               *)
LEMMA Nested ==
  ASSUME NEW j \in Orders, NEW k \in Orders, j <= k, NEW a, NEW b, At(a, j), At(b, k)
  PROVE  \/ a + Size[j] <= b
         \/ b + Size[k] <= a
         \/ b <= a /\ a + Size[j] <= b + Size[k]
<1>1. /\ a \in Nat /\ b \in Nat
      /\ Size[j] \in Nat \ {0} /\ Size[k] \in Nat \ {0}
  BY SizeRecursion DEF At
<1>2. At(b, j) /\ At(b + Size[k], j)
  BY <1>1, AtSmaller, AtPlus
<1>3. a < b => a + Size[j] <= b
  BY <1>2, AtApart
<1>4. a < b + Size[k] => a + Size[j] <= b + Size[k]
  BY <1>2, AtApart
<1>5. QED
  BY <1>1, <1>3, <1>4

(* Even and odd.                                                              *)
LEMMA Halves ==
  ASSUME NEW q \in Nat
  PROVE  \/ q % 2 = 0 /\ \E r \in Nat : q = 2 * r
         \/ q % 2 = 1 /\ \E r \in Nat : q = 2 * r + 1
<1>1. q \div 2 \in Nat /\ q = 2 * (q \div 2) + (q % 2) /\ q % 2 \in {0, 1}
  OBVIOUS
<1>2. QED
  BY <1>1

(* Buddies: two blocks of one order that are the halves of one of the next.   *)
LEMMA BuddyPair ==
  ASSUME NEW k \in Orders, NEW a, At(a, k)
  PROVE  /\ At(Buddy(a, k), k) /\ Buddy(a, k) # a
         /\ Buddy(Buddy(a, k), k) = a
         /\ \/ Buddy(a, k) = a + Size[k] /\ Min({a, Buddy(a, k)}) = a
            \/ a = Buddy(a, k) + Size[k] /\ Min({a, Buddy(a, k)}) = Buddy(a, k)
         /\ k # Top => At(Min({a, Buddy(a, k)}), k + 1)
<1> DEFINE s == Size[k]
<1>1. s \in Nat \ {0} /\ a \in Nat
  BY SizeRecursion DEF At
<1>2. PICK q \in Nat : a = q * s
  BY <1>1, AtQuotient
<1>3. a \div s = q
  BY <1>1, <1>2, MultipleMod
<1>4. k # Top => k + 1 \in Orders /\ Size[k + 1] = 2 * s
  BY SizeStep
<1>5. CASE q % 2 = 0
  <2>1. PICK r \in Nat : q = 2 * r
    BY <1>5, Halves
  <2>2. Buddy(a, k) = a + s /\ a + s = (q + 1) * s /\ q + 1 \in Nat
    BY <1>1, <1>2, <1>3, <1>5, TimesNext DEF Buddy
  <2>3. (a + s) \div s = q + 1 /\ (q + 1) % 2 = 1
    <3>1. ((q + 1) * s) \div s = q + 1
      BY <1>1, <2>2, MultipleMod
    <3>2. (2 * r + 1) % 2 = 1
      OBVIOUS
    <3>3. QED
      BY <2>1, <2>2, <3>1, <3>2
  <2>4. Buddy(a + s, k) = a
    BY <1>1, <2>3 DEF Buddy
  <2>5. Min({a, a + s}) = a
    <3>1. {a, a + s} \subseteq Nat /\ {a, a + s} # {}
      BY <1>1
    <3>2. Min({a, a + s}) \in {a, a + s} /\ Min({a, a + s}) <= a
      BY <3>1, MinOf
    <3>3. QED
      BY <1>1, <3>2
  <2>6. ASSUME k # Top PROVE At(a, k + 1)
    <3>1. a = r * (2 * s)
      BY <1>1, <1>2, <2>1
    <3>2. QED
      BY <1>1, <1>4, <2>6, <3>1, AtQuotient
  <2>7. At(a + s, k)
    BY <1>1, <2>2, AtQuotient
  <2>8. QED
    BY <1>1, <2>2, <2>4, <2>5, <2>6, <2>7
<1>6. CASE q % 2 # 0
  <2>1. PICK r \in Nat : q = 2 * r + 1
    BY <1>6, Halves
  <2>2. Buddy(a, k) = a - s /\ a - s = (q - 1) * s /\ q - 1 \in Nat /\ a - s \in Nat
    BY <1>1, <1>2, <1>3, <1>6, <2>1, TimesNext DEF Buddy
  <2>3. (a - s) \div s = q - 1 /\ (q - 1) % 2 = 0
    BY <1>1, <2>1, <2>2, MultipleMod
  <2>4. Buddy(a - s, k) = a
    BY <1>1, <2>3 DEF Buddy
  <2>5. Min({a, a - s}) = a - s
    <3>1. {a, a - s} \subseteq Nat /\ {a, a - s} # {}
      BY <1>1, <2>2
    <3>2. Min({a, a - s}) \in {a, a - s} /\ Min({a, a - s}) <= a - s
      BY <3>1, MinOf
    <3>3. QED
      BY <1>1, <3>2
  <2>6. ASSUME k # Top PROVE At(a - s, k + 1)
    <3>1. a - s = r * (2 * s)
      BY <1>1, <1>2, <2>1, <2>2
    <3>2. QED
      BY <1>1, <1>4, <2>2, <2>6, <3>1, AtQuotient
  <2>7. At(a - s, k)
    BY <1>1, <2>2, AtQuotient
  <2>8. QED
    BY <1>1, <2>2, <2>4, <2>5, <2>6, <2>7
<1>7. QED
  BY <1>5, <1>6

(* The heap is an even number of blocks of every order.                       *)
LEMMA HeapOfPairs ==
  ASSUME NEW k \in Orders
  PROVE  /\ N \in Nat \ {0} /\ At(N, k)
         /\ \E c \in Nat : N = (2 * c) * Size[k]
<1>1. PICK h \in Nat : Chunks = 2 * h /\ h # 0
  BY ConstantsOK, Halves
<1>2. Size[k] \in Nat \ {0} /\ Size[Top] \in Nat \ {0} /\ N = (2 * h) * Size[Top]
  BY <1>1, SizeRecursion, OrdersAreNumbers DEF N
<1>3. N \in Nat \ {0}
  BY <1>1, <1>2
<1>4. \E c \in Nat : N = (2 * c) * Size[k]
  <2>1. CASE k = Top
    BY <1>2, <2>1
  <2>2. CASE k # Top
    <3>1. k < Top /\ Top \in Orders
      BY <2>2, OrdersAreNumbers
    <3>2. PICK m \in Nat \ {0} : Size[Top] = (2 * m) * Size[k]
      BY <3>1, SizeDivides
    <3>3. N = (2 * (h * (2 * m))) * Size[k] /\ h * (2 * m) \in Nat
      BY <1>2, <3>2
    <3>4. QED
      BY <3>3
  <2>3. QED
    BY <2>1, <2>2
<1>5. At(N, k)
  <2>1. PICK c \in Nat : N = (2 * c) * Size[k]
    BY <1>4
  <2>2. 2 * c \in Nat
    OBVIOUS
  <2>3. QED
    BY <1>3, <2>1, <2>2, AtQuotient
<1>6. QED
  BY <1>3, <1>4, <1>5

(* The buddy of any address in the heap, aligned or not, is in the heap.      *)
LEMMA BuddyInHeap ==
  ASSUME NEW k \in Orders, NEW a \in Units
  PROVE  Buddy(a, k) \in Units
<1> DEFINE s == Size[k]
<1>1. s \in Nat \ {0} /\ N \in Nat /\ a \in Nat /\ a < N
  BY SizeRecursion, HeapOfPairs DEF Units
<1>3. PICK c \in Nat : N = (2 * c) * s
  BY HeapOfPairs
<1> HIDE DEF s
<1>9. PICK q, r \in Nat : a \div s = q /\ a = q * s + r /\ r < s
  BY <1>1, QuotientOf
<1>2. q * s \in Nat
  BY <1>1, <1>9
<1>4. q * s < (2 * c) * s /\ 2 * c \in Nat
  BY <1>9, <1>1, <1>2, <1>3
<1>5. q < 2 * c
  BY <1>9, <1>1, <1>2, <1>4, TimesLess
<1>6. CASE q % 2 = 0
  <2>1. q + 1 < 2 * c
    <3>1. PICK t \in Nat : q = 2 * t
      BY <1>2, <1>6, Halves
    <3>2. QED
      BY <1>9, <1>5, <3>1
  <2>2. (q + 1) * s = q * s + s
    BY <1>9, <1>1, <1>2, TimesNext
  <2>3. (q + 1) * s + s <= (2 * c) * s
    <3>1. (q + 1) * s < (2 * c) * s
      <4>1. PICK d \in Nat \ {0} : 2 * c = (q + 1) + d
        <5>1. 2 * c - (q + 1) \in Nat \ {0} /\ 2 * c = (q + 1) + (2 * c - (q + 1))
          BY <1>2, <2>1
        <5>2. QED
          BY <5>1
      <4>2. (2 * c) * s = (q + 1) * s + d * s /\ d * s \in Nat \ {0} /\ (q + 1) * s \in Nat
        BY <1>9, <1>1, <1>2, <4>1
      <4>3. QED
        BY <4>2
    <3>2. QED
      BY <1>9, <1>1, <1>2, <3>1, TimesLess
  <2>4. a + s \in Nat /\ a + s < N
    BY <1>9, <1>1, <1>2, <1>3, <2>2, <2>3
  <2>5. Buddy(a, k) = a + s
    BY <1>9, <1>6 DEF Buddy, s
  <2>6. QED
    BY <1>1, <2>4, <2>5 DEF Units
<1>7. CASE q % 2 # 0
  <2>1. q # 0
    BY <1>7
  <2>2. (q - 1) * s = q * s - s /\ (q - 1) * s \in Nat
    <3>1. q - 1 \in Nat /\ (q - 1) * s = q * s - s
      BY <1>9, <1>1, <1>2, <2>1, TimesNext
    <3>2. (q - 1) * s \in Nat
      BY <1>1, <3>1
    <3>3. QED
      BY <3>1, <3>2
  <2>3. a - s \in Nat /\ a - s < N
    BY <1>9, <1>1, <1>2, <2>2
  <2>4. Buddy(a, k) = a - s
    BY <1>9, <1>7 DEF Buddy, s
  <2>5. QED
    BY <1>1, <2>3, <2>4 DEF Units
<1>8. QED
  BY <1>6, <1>7

-----------------------------------------------------------------------------
(* Circular lists.                                                            *)

(* Units, list heads, NULL and data are told apart.                           *)
LEMMA NodeFacts ==
  /\ Units \subseteq Nat /\ Units \subseteq Nodes /\ Nodes \subseteq Int
  /\ \A k \in Orders : Head(k) \in Nodes /\ Head(k) \notin Units
  /\ \A j, k \in Orders : Head(j) = Head(k) => j = k
  /\ \A n \in Nodes : n \in Links /\ n # Null /\ n # Data
  /\ Null \in Links /\ Data \in Links /\ Null # Data
  /\ Null \notin Units /\ Data \notin Units /\ None \notin Units /\ None # Null
<1>1. N \in Nat \ {0}
  BY HeapOfPairs, OrdersAreNumbers
<1>2. /\ Units \subseteq Nat /\ Units \subseteq Nodes
      /\ \A k \in Orders : Head(k) \in Int /\ Head(k) < 0 /\ Head(k) \in Nodes
  BY <1>1, OrdersAreNumbers DEF Units, Nodes, Head
<1>3. \A n \in Nodes : n \in Int /\ n < N
  BY <1>1, <1>2 DEF Units, Nodes
<1>4. \A k \in Orders : Head(k) \notin Units
  BY <1>2
<1>5. \A j, k \in Orders : Head(j) = Head(k) => j = k
  BY OrdersAreNumbers DEF Head
<1>6. Null = N /\ Data = N + 1 /\ None = N + 2
  BY DEF Null, Data, None
<1>7. \A n \in Nodes : n \in Links /\ n # Null /\ n # Data
  BY <1>1, <1>3, <1>6 DEF Links
<1>8. Null \in Links /\ Data \in Links /\ Null # Data /\ None # Null
  BY <1>1, <1>6 DEF Links
<1>9. Null \notin Units /\ Data \notin Units /\ None \notin Units
  BY <1>1, <1>6 DEF Units
<1>10. QED
  BY <1>2, <1>3, <1>4, <1>5, <1>7, <1>8, <1>9

(* There are finitely many of them, so that walks are finite.                 *)
LEMMA NodesFinite == IsFiniteSet(Nodes) /\ Cardinality(Nodes) \in Nat \ {0}
<1>1. N \in Nat \ {0} /\ Top \in Nat
  BY HeapOfPairs, OrdersAreNumbers
<1>2. Nodes \subseteq (-(Top + 1)) .. (N - 1)
  BY <1>1, OrdersAreNumbers DEF Nodes, Units, Head
<1>3. -(Top + 1) \in Int /\ N - 1 \in Int
  BY <1>1
<1>4. IsFiniteSet((-(Top + 1)) .. (N - 1))
  BY <1>3, FS_Interval
<1>5. IsFiniteSet(Nodes)
  BY <1>2, <1>4, FS_Subset
<1>6. Head(0) \in Nodes
  BY NodeFacts, OrdersAreNumbers
<1>7. QED
  BY <1>5, <1>6, FS_CardinalityType, FS_EmptySet

(* S are the blocks of a list from h along nx: nx maps S and h onto itself,   *)
(* and no blocks form a circle without h.                                     *)
IsList(nx, h, S) ==
  /\ S \subseteq Units
  /\ \A n \in S \cup {h} : nx[n] \in S \cup {h}
  /\ \A m, n \in S \cup {h} : nx[m] = nx[n] => m = n
  /\ \A n \in S \cup {h} : \E m \in S \cup {h} : nx[m] = n
  /\ \A T \in SUBSET S : T # {} => \E n \in T : nx[n] \notin T

(* Follow, Walk and Listed for any links, to speak of those after a step.     *)
FollowIn(nx) == [n \in Links |-> IF n \in Units THEN nx[n] ELSE n]
WalkIn(nx, k) ==
  LET at[i \in Steps] ==
        IF i = 0 THEN nx[Head(k)] ELSE FollowIn(nx)[at[i - 1]]
  IN  at
ListedIn(nx, k) == {WalkIn(nx, k)[n] : n \in Steps} \cap Units

(* A walk is what its recursive definition says.                              *)
LEMMA WalkSteps ==
  ASSUME NEW nx, NEW k
  PROVE  /\ WalkIn(nx, k) = [i \in Steps |-> WalkIn(nx, k)[i]] /\ DOMAIN WalkIn(nx, k) = Steps
         /\ 0 \in Steps /\ Cardinality(Nodes) \in Steps /\ Steps \subseteq Nat
         /\ WalkIn(nx, k)[0] = nx[Head(k)]
         /\ \A i \in Steps : i # 0 => /\ i - 1 \in Steps
                                      /\ WalkIn(nx, k)[i] = FollowIn(nx)[WalkIn(nx, k)[i - 1]]
<1> DEFINE c == Cardinality(Nodes)
           F == FollowIn(nx)
           a == nx[Head(k)]
<1>1. c \in Nat \ {0} /\ Steps = 0 .. c
  BY NodesFinite DEF Steps
<1> HIDE DEF c, F, a
<1>2. PICK f : IsRecursive(f, c, a, F)
  BY <1>1, Recursion
<1>3. f = [i \in Steps |-> IF i = 0 THEN a ELSE F[f[i - 1]]]
  BY <1>1, <1>2 DEF IsRecursive
<1>4. \E g : g = [i \in Steps |-> IF i = 0 THEN nx[Head(k)] ELSE FollowIn(nx)[g[i - 1]]]
  BY <1>3 DEF F, a
<1> DEFINE w == WalkIn(nx, k)
<1>5. w = [i \in Steps |-> IF i = 0 THEN nx[Head(k)] ELSE FollowIn(nx)[w[i - 1]]]
  BY <1>4 DEF WalkIn
<1>6. 0 \in Steps /\ c \in Steps /\ Steps \subseteq Nat /\ \A i \in Steps : i # 0 => i - 1 \in Steps
  BY <1>1
<1> HIDE DEF w
<1>7. QED
  BY <1>5, <1>6 DEF w, c

(* Walk and Listed of Budmm are WalkIn and ListedIn of its variable next.     *)
LEMMA WalkIsWalk ==
  /\ \A k : Walk(k) = WalkIn(next, k) /\ Walk(k)' = WalkIn(next', k)
  /\ \A k : Listed(k) = ListedIn(next, k) /\ Listed(k)' = ListedIn(next', k)
<1>1. Follow = FollowIn(next) /\ Follow' = FollowIn(next')
  BY DEF Follow, FollowIn
<1>2. \A k : Walk(k) = WalkIn(next, k) /\ Walk(k)' = WalkIn(next', k)
  BY <1>1 DEF Walk, WalkIn
<1>3. ASSUME NEW k PROVE Listed(k) = ListedIn(next, k) /\ Listed(k)' = ListedIn(next', k)
  <2>1. DOMAIN WalkIn(next, k) = Steps /\ DOMAIN WalkIn(next', k) = Steps
    BY WalkSteps
  <2>2. QED
    BY <1>2, <2>1 DEF Listed, ListedIn
<1>4. QED
  BY <1>2, <1>3

(* A walk along a list sees its blocks, one after the other, and ends at the  *)
(* head.                                                                      *)
LEMMA WalkOfList ==
  ASSUME NEW nx, NEW k \in Orders, NEW S, IsList(nx, Head(k), S)
  PROVE  /\ \A i \in Steps : WalkIn(nx, k)[i] \in S \cup {Head(k)}
         /\ \A i \in Steps : i # 0 /\ WalkIn(nx, k)[i] \in S
              => WalkIn(nx, k)[i - 1] \in S /\ nx[WalkIn(nx, k)[i - 1]] = WalkIn(nx, k)[i]
         /\ WalkIn(nx, k)[Cardinality(Nodes)] = Head(k)
         /\ ListedIn(nx, k) = S
<1> DEFINE w == WalkIn(nx, k)
           h == Head(k)
           c == Cardinality(Nodes)
<1>1. /\ DOMAIN w = Steps /\ 0 \in Steps /\ c \in Steps /\ Steps \subseteq Nat
      /\ w[0] = nx[h]
      /\ \A i \in Steps : i # 0 => i - 1 \in Steps /\ w[i] = FollowIn(nx)[w[i - 1]]
  BY WalkSteps
<1>2. /\ S \subseteq Units /\ S \subseteq Links /\ h \in Links /\ h \notin Units
      /\ \A n \in S : FollowIn(nx)[n] = nx[n]
      /\ FollowIn(nx)[h] = h
  BY NodeFacts DEF IsList, FollowIn
<1>3. /\ \A n \in S \cup {h} : nx[n] \in S \cup {h}
      /\ \A m, n \in S \cup {h} : nx[m] = nx[n] => m = n
      /\ \A T \in SUBSET S : T # {} => \E n \in T : nx[n] \notin T
  BY DEF IsList
<1> HIDE DEF w, h, c
<1>4. \A i \in Steps : w[i] \in S \cup {h}
  <2> DEFINE Bad == {i \in Steps : w[i] \notin S \cup {h}}
  <2> SUFFICES ASSUME Bad # {} PROVE FALSE
    OBVIOUS
  <2>1. PICK i \in Bad : \A j \in Bad : i <= j
    <3>1. Bad \subseteq Nat
      BY <1>1
    <3>2. QED
      BY <3>1, LeastOf
  <2>2. i \in Steps /\ i \in Nat /\ w[i] \notin S \cup {h}
    BY <1>1
  <2>3. i # 0
    BY <1>1, <1>3, <2>2
  <2>4. i - 1 \in Steps /\ i - 1 \in Nat /\ w[i] = FollowIn(nx)[w[i - 1]]
    BY <1>1, <2>2, <2>3
  <2>5. w[i - 1] \in S \cup {h}
    BY <2>1, <2>2, <2>4
  <2>6. QED
    BY <1>2, <1>3, <2>2, <2>4, <2>5
<1>5. ASSUME NEW i \in Steps, i # 0, w[i] # h
      PROVE  i - 1 \in Steps /\ w[i - 1] \in S /\ nx[w[i - 1]] = w[i]
  <2>1. i - 1 \in Steps /\ w[i] = FollowIn(nx)[w[i - 1]] /\ w[i - 1] \in S \cup {h}
    BY <1>1, <1>4, <1>5
  <2>2. QED
    BY <1>2, <1>5, <2>1
<1>6. w[c] = h
  <2> SUFFICES ASSUME w[c] # h PROVE FALSE
    OBVIOUS
  <2>1. ASSUME NEW i \in Steps PROVE w[i] \in S
    <3> SUFFICES ASSUME w[i] = h PROVE FALSE
      BY <1>4
    <3> DEFINE Later == {j \in Steps : i <= j /\ w[j] # h}
    <3>1. Later # {} /\ Later \subseteq Nat
      <4>1. i <= c
        BY NodesFinite DEF Steps, c
      <4>2. QED
        BY <1>1, <4>1
    <3>2. PICK j \in Later : \A l \in Later : j <= l
      BY <3>1, LeastOf
    <3>3. j \in Steps /\ i <= j /\ w[j] # h /\ i \in Nat /\ j \in Nat /\ j # i
      BY <1>1
    <3>4. j - 1 \in Steps /\ w[j - 1] \in S
      BY <1>5, <3>3
    <3>5. j - 1 \in Later
      BY <1>2, <3>3, <3>4
    <3>6. QED
      BY <3>2, <3>3, <3>5
  <2>2. \E x, y \in Steps : x # y /\ w[x] = w[y]
    <3>1. Steps = 0 .. c /\ c \in Nat
      BY NodesFinite DEF Steps, c
    <3>2. IsFiniteSet(Steps) /\ Cardinality(Steps) = c + 1
      BY <3>1, FS_Interval
    <3>3. w \in [Steps -> Nodes]
      <4>1. \A i \in Steps : w[i] \in Nodes
        BY <1>2, <2>1, NodeFacts
      <4>2. w = [i \in Steps |-> w[i]]
        BY WalkSteps DEF w
      <4>3. QED
        BY <4>1, <4>2
    <3>4. IsFiniteSet(Nodes) /\ Cardinality(Nodes) < Cardinality(Steps)
      BY <3>1, <3>2, NodesFinite DEF c
    <3>5. QED
      BY <3>2, <3>3, <3>4, FS_PigeonHole
  <2>3. PICK x \in Steps, y \in Steps : x < y /\ w[x] = w[y]
    BY <1>1, <2>2
  <2> DEFINE T == {w[m] : m \in x .. (y - 1)}
  <2>4. \A m \in x .. (y - 1) : m \in Steps /\ m + 1 \in Steps
    BY NodesFinite DEF Steps
  <2>5. T \subseteq S /\ T # {}
    <3>1. x \in x .. (y - 1)
      BY <1>1, <2>3
    <3>2. QED
      BY <2>1, <2>4, <3>1
  <2>6. ASSUME NEW m \in x .. (y - 1) PROVE nx[w[m]] \in T
    <3>1. m + 1 \in Steps /\ m + 1 # 0 /\ (m + 1) - 1 = m
      BY <1>1, <2>3, <2>4
    <3>2. nx[w[m]] = w[m + 1]
      BY <1>2, <1>5, <2>1, <3>1
    <3>3. m + 1 \in x .. (y - 1) \/ m + 1 = y
      BY <1>1, <2>3
    <3>4. w[y] \in T
      <4>1. x \in x .. (y - 1)
        BY <1>1, <2>3
      <4>2. QED
        BY <2>3, <4>1
    <3>5. QED
      BY <3>2, <3>3, <3>4
  <2>7. \A n \in T : nx[n] \in T
    BY <2>6
  <2>8. QED
    BY <1>3, <2>5, <2>7
<1>7. S \subseteq {w[i] : i \in Steps}
  <2> DEFINE T == S \ {w[i] : i \in Steps}
  <2> SUFFICES ASSUME T # {} PROVE FALSE
    OBVIOUS
  <2>1. PICK n \in T : nx[n] \notin T
    BY <1>3
  <2>2. n \in S /\ nx[n] \in S \cup {h} /\ n # h
    BY <1>2, <1>3
  <2>3. \E i \in Steps : w[i] = nx[n] /\ (i # 0 => i - 1 \in Steps /\ nx[w[i - 1]] = w[i] /\ w[i - 1] \in S)
    <3>1. CASE nx[n] # h
      <4>1. PICK i \in Steps : w[i] = nx[n]
        BY <2>1, <2>2, <3>1
      <4>2. QED
        BY <1>1, <1>5, <3>1, <4>1
    <3>2. CASE nx[n] = h
      <4> DEFINE Ends == {i \in Steps : w[i] = h}
      <4>1. Ends # {} /\ Ends \subseteq Nat
        BY <1>1, <1>6
      <4>2. PICK i \in Ends : \A j \in Ends : i <= j
        BY <4>1, LeastOf
      <4>3. i \in Steps /\ w[i] = h /\ i \in Nat
        BY <1>1
      <4>4. CASE i # 0
        <5>1. i - 1 \in Steps /\ w[i] = FollowIn(nx)[w[i - 1]] /\ i - 1 \in Nat
          BY <1>1, <4>3, <4>4
        <5>2. i - 1 \notin Ends
          BY <4>2, <4>3, <5>1
        <5>3. w[i - 1] \in S
          BY <1>4, <5>1, <5>2
        <5>4. QED
          BY <1>2, <3>2, <4>3, <5>1, <5>3
      <4>5. QED
        BY <3>2, <4>3, <4>4
    <3>3. QED
      BY <3>1, <3>2
  <2>4. PICK i \in Steps : w[i] = nx[n] /\ (i # 0 => i - 1 \in Steps /\ nx[w[i - 1]] = w[i] /\ w[i - 1] \in S)
    BY <2>3
  <2>5. CASE i = 0
    BY <1>1, <1>3, <2>2, <2>4, <2>5
  <2>6. CASE i # 0
    <3>1. n = w[i - 1] /\ i - 1 \in Steps
      BY <1>3, <2>2, <2>4, <2>6
    <3>2. QED
      BY <2>1, <3>1
  <2>7. QED
    BY <2>5, <2>6
<1>8. ListedIn(nx, k) = S
  BY <1>2, <1>4, <1>7 DEF ListedIn, w
<1>9. QED
  BY <1>2, <1>4, <1>5, <1>6, <1>8 DEF w, h, c

(* A head that is linked to itself is the list of no blocks.                  *)
LEMMA EmptyList ==
  ASSUME NEW nx, NEW h, nx[h] = h
  PROVE  IsList(nx, h, {})
BY DEF IsList

(* A list is empty when its head is its own next.                             *)
LEMMA EmptyIff ==
  ASSUME NEW nx, NEW h, h \notin Units, NEW S, IsList(nx, h, S)
  PROVE  /\ S = {} <=> nx[h] = h
         /\ nx[h] \in S \cup {h}
<1>1. ASSUME S # {} PROVE nx[h] # h
  <2>1. PICK n \in S : nx[n] \notin S
    BY <1>1 DEF IsList
  <2>2. nx[n] = h /\ n # h
    BY <2>1 DEF IsList
  <2>3. QED
    BY <2>1, <2>2 DEF IsList
<1>2. QED
  BY <1>1 DEF IsList

(* No block is linked to itself: it would be a part of the list that does not *)
(* lead back to the head.                                                     *)
LEMMA NoSelfLink ==
  ASSUME NEW nx, NEW h, NEW S, IsList(nx, h, S), NEW a \in S
  PROVE  nx[a] # a
<1>1. {a} \in SUBSET S /\ {a} # {}
  OBVIOUS
<1>2. PICK n \in {a} : nx[n] \notin {a}
  BY <1>1 DEF IsList
<1>3. QED
  BY <1>2

(* What leaves the links of a list alone leaves the list as it is.            *)
LEMMA ListFrame ==
  ASSUME NEW nx, NEW h, NEW S, IsList(nx, h, S),
         NEW ny, \A n \in S \cup {h} : ny[n] = nx[n]
  PROVE  IsList(ny, h, S)
<1>1. \A T \in SUBSET S : T # {} => \E n \in T : ny[n] \notin T
  BY DEF IsList
<1>2. QED
  BY <1>1 DEF IsList

(* A block linked in front of a list.                                         *)
LEMMA ListFront ==
  ASSUME NEW nx, NEW h, NEW S, IsList(nx, h, S), h \notin Units,
         NEW a \in Units, a \notin S,
         NEW ny, ny[a] = nx[h], ny[h] = a, \A n \in S : ny[n] = nx[n]
  PROVE  IsList(ny, h, S \cup {a})
<1> DEFINE R == S \cup {a}
<1>1. /\ S \subseteq Units
      /\ \A n \in S \cup {h} : nx[n] \in S \cup {h}
      /\ \A m, n \in S \cup {h} : nx[m] = nx[n] => m = n
      /\ \A n \in S \cup {h} : \E m \in S \cup {h} : nx[m] = n
      /\ \A T \in SUBSET S : T # {} => \E n \in T : nx[n] \notin T
  BY DEF IsList
<1>2. R \subseteq Units /\ \A n \in R \cup {h} : ny[n] \in R \cup {h}
  BY <1>1
<1>3. \A m, n \in R \cup {h} : ny[m] = ny[n] => m = n
  BY <1>1
<1>4. ASSUME NEW n \in R \cup {h} PROVE \E m \in R \cup {h} : ny[m] = n
  <2>1. CASE n = a
    BY <2>1
  <2>2. CASE n # a
    <3>1. PICK m \in S \cup {h} : nx[m] = n
      BY <1>1, <2>2
    <3>2. m = h => ny[a] = n
      BY <3>1
    <3>3. m # h => ny[m] = n
      BY <3>1
    <3>4. QED
      BY <3>1, <3>2, <3>3
  <2>3. QED
    BY <2>1, <2>2
<1>5. ASSUME NEW T \in SUBSET R, T # {} PROVE \E n \in T : ny[n] \notin T
  <2>1. CASE T \subseteq S
    BY <1>1, <1>5, <2>1
  <2>2. CASE a \in T /\ T = {a}
    <3>1. ny[a] # a
      BY <1>1
    <3>2. QED
      BY <2>2, <3>1
  <2>3. CASE a \in T /\ T # {a}
    <3>1. T \ {a} \in SUBSET S /\ T \ {a} # {}
      BY <2>3
    <3>2. PICK n \in T \ {a} : nx[n] \notin T \ {a}
      BY <1>1, <3>1
    <3>3. n \in S /\ ny[n] = nx[n] /\ nx[n] # a
      BY <1>1, <3>2
    <3>4. QED
      BY <3>2, <3>3
  <2>4. QED
    BY <2>1, <2>2, <2>3
<1>6. QED
  BY <1>2, <1>3, <1>4, <1>5 DEF IsList

(* A block taken out of a list, from behind the node p.                       *)
LEMMA ListWithout ==
  ASSUME NEW nx, NEW h, NEW S, IsList(nx, h, S), h \notin Units,
         NEW a \in S, NEW p \in S \cup {h}, nx[p] = a,
         NEW ny, ny[p] = nx[a], \A n \in (S \cup {h}) \ {p, a} : ny[n] = nx[n]
  PROVE  IsList(ny, h, S \ {a})
<1> DEFINE R == S \ {a}
<1>1. /\ S \subseteq Units
      /\ \A n \in S \cup {h} : nx[n] \in S \cup {h}
      /\ \A m, n \in S \cup {h} : nx[m] = nx[n] => m = n
      /\ \A n \in S \cup {h} : \E m \in S \cup {h} : nx[m] = n
      /\ \A T \in SUBSET S : T # {} => \E n \in T : nx[n] \notin T
  BY DEF IsList
<1>2. p # a /\ nx[a] # a
  BY NoSelfLink
<1>3. R \subseteq Units /\ \A n \in R \cup {h} : ny[n] \in R \cup {h}
  BY <1>1, <1>2
<1>4. \A m, n \in R \cup {h} : ny[m] = ny[n] => m = n
  BY <1>1, <1>2
<1>5. ASSUME NEW n \in R \cup {h} PROVE \E m \in R \cup {h} : ny[m] = n
  <2>1. PICK m \in S \cup {h} : nx[m] = n
    BY <1>1
  <2>2. m = a => ny[p] = n /\ p \in R \cup {h}
    BY <1>2, <2>1
  <2>3. m # p
    BY <1>1, <2>1
  <2>4. m # a => ny[m] = n /\ m \in R \cup {h}
    BY <2>1, <2>3
  <2>5. QED
    BY <2>2, <2>4
<1>6. ASSUME NEW T \in SUBSET R, T # {} PROVE \E n \in T : ny[n] \notin T
  <2>1. CASE p \in T
    <3>1. T \cup {a} \in SUBSET S /\ T \cup {a} # {}
      OBVIOUS
    <3>2. PICK n \in T \cup {a} : nx[n] \notin T \cup {a}
      BY <1>1, <3>1
    <3>3. CASE n = a
      BY <1>2, <2>1, <3>2, <3>3
    <3>4. CASE n # a
      <4>1. n \in T /\ n # p /\ ny[n] = nx[n]
        BY <3>2, <3>4
      <4>2. QED
        BY <3>2, <4>1
    <3>5. QED
      BY <3>3, <3>4
  <2>2. CASE p \notin T
    <3>1. PICK n \in T : nx[n] \notin T
      BY <1>1, <1>6
    <3>2. n # p /\ n # a /\ ny[n] = nx[n]
      BY <2>2
    <3>3. QED
      BY <3>1, <3>2
  <2>3. QED
    BY <2>1, <2>2
<1>7. QED
  BY <1>3, <1>4, <1>5, <1>6 DEF IsList

(* pv leads back along a list.                                                *)
IsBack(nx, pv, h, S) == \A n \in S \cup {h} : pv[nx[n]] = n

(* prev stays the inverse of next when a block is put in front of the list.   *)
LEMMA BackFront ==
  ASSUME NEW nx, NEW h, NEW S, IsList(nx, h, S), h \notin Units,
         NEW a \in Units, a \notin S,
         NEW ny, ny[a] = nx[h], ny[h] = a, \A n \in S : ny[n] = nx[n],
         NEW pv, IsBack(nx, pv, h, S),
         NEW qv, qv[a] = h, qv[nx[h]] = a, \A n \in (S \cup {h}) \ {nx[h]} : qv[n] = pv[n]
  PROVE  IsBack(ny, qv, h, S \cup {a})
<1>1. ASSUME NEW n \in S PROVE qv[ny[n]] = n
  <2>1. ny[n] = nx[n] /\ nx[n] \in S \cup {h} /\ nx[n] # nx[h]
    BY DEF IsList
  <2>2. QED
    BY <2>1 DEF IsBack
<1>2. QED
  BY <1>1 DEF IsBack

(* The node before a block.                                                   *)
LEMMA BackOf ==
  ASSUME NEW nx, NEW h, NEW S, IsList(nx, h, S), NEW pv, IsBack(nx, pv, h, S), NEW a \in S
  PROVE  pv[a] \in S \cup {h} /\ nx[pv[a]] = a
<1>1. PICK m \in S \cup {h} : nx[m] = a
  BY DEF IsList
<1>2. QED
  BY <1>1 DEF IsBack

(* The same when a block is taken out from behind p.                          *)
LEMMA BackWithout ==
  ASSUME NEW nx, NEW h, NEW S, IsList(nx, h, S), h \notin Units,
         NEW a \in S, NEW p \in S \cup {h}, nx[p] = a,
         NEW ny, ny[p] = nx[a], \A n \in (S \cup {h}) \ {p, a} : ny[n] = nx[n],
         NEW pv, IsBack(nx, pv, h, S),
         NEW qv, qv[nx[a]] = p, \A n \in (S \cup {h}) \ {a, nx[a]} : qv[n] = pv[n]
  PROVE  IsBack(ny, qv, h, S \ {a})
<1>1. p # a /\ nx[a] # a
  BY NoSelfLink
<1>2. ASSUME NEW n \in (S \ {a}) \cup {h}, n # p PROVE qv[ny[n]] = n
  <2>1. n \in S \cup {h} /\ n # a
    BY DEF IsList
  <2>2. ny[n] = nx[n] /\ nx[n] \in S \cup {h} /\ nx[n] # a /\ nx[n] # nx[a]
    BY <1>2, <2>1 DEF IsList
  <2>3. QED
    BY <2>1, <2>2 DEF IsBack
<1>3. QED
  BY <1>2 DEF IsBack

(* A head whose next and prev are the same block: the list has no other.      *)
LEMMA ListOfOne ==
  ASSUME NEW nx, NEW h, NEW S, IsList(nx, h, S), h \notin Units, S # {},
         NEW pv, IsBack(nx, pv, h, S), nx[h] = pv[h]
  PROVE  S = {nx[h]} /\ nx[nx[h]] = h
<1> DEFINE a == nx[h]
<1>1. a \in S
  BY EmptyIff
<1>2. PICK m \in S \cup {h} : nx[m] = h
  BY DEF IsList
<1>3. nx[a] = h
  BY <1>2 DEF IsBack
<1>4. \A n \in S \ {a} : nx[n] \in S \ {a}
  BY <1>1, <1>3 DEF IsList
<1>5. S \ {a} \in SUBSET S
  OBVIOUS
<1> HIDE DEF a
<1>6. S \ {a} = {}
  BY <1>4, <1>5 DEF IsList
<1>7. QED
  BY <1>1, <1>3, <1>6 DEF a

-----------------------------------------------------------------------------
(* Sets of blocks that fill the heap.                                         *)

Block(a, k) == [at |-> a, order |-> k]
BlockSet == [at : Nat, order : Orders]
End(b) == b.at + Size[b.order]
Before(b, c) == End(b) <= c.at

(* Each at a multiple of its size, no two overlap, nothing is left out below n. *)
Tiling(Bs, n) ==
  /\ Bs \subseteq BlockSet
  /\ \A b \in Bs : At(b.at, b.order) /\ End(b) <= n
  /\ \A b, c \in Bs : b # c => Before(b, c) \/ Before(c, b)
  /\ \A u \in Nat : u < n => \E b \in Bs : b.at <= u /\ u < End(b)

(* Blocks as records.                                                         *)
LEMMA BlockFacts ==
  /\ \A a \in Nat, k \in Orders : Block(a, k) \in BlockSet
  /\ \A a, k : Block(a, k).at = a /\ Block(a, k).order = k /\ End(Block(a, k)) = a + Size[k]
  /\ \A b \in BlockSet : /\ b.at \in Nat /\ b.order \in Orders
                         /\ b = Block(b.at, b.order)
                         /\ End(b) \in Nat /\ b.at < End(b)
<1>1. \A a, k : Block(a, k).at = a /\ Block(a, k).order = k /\ End(Block(a, k)) = a + Size[k]
  BY DEF Block, End
<1>2. ASSUME NEW b \in BlockSet
      PROVE  /\ b.at \in Nat /\ b.order \in Orders /\ b = Block(b.at, b.order)
             /\ End(b) \in Nat /\ b.at < End(b)
  <2>1. b.at \in Nat /\ b.order \in Orders /\ b = Block(b.at, b.order)
    BY DEF BlockSet, Block
  <2>2. QED
    BY <2>1, SizeRecursion DEF End
<1>3. QED
  BY <1>1, <1>2 DEF Block, BlockSet

(* A block of a tiling is known by its address, and no other begins in it.    *)
LEMMA TileAt ==
  ASSUME NEW Bs, NEW n \in Nat, Tiling(Bs, n), NEW b \in Bs, NEW c \in Bs,
         b.at <= c.at, c.at < End(b)
  PROVE  b = c
<1>1. b \in BlockSet /\ c \in BlockSet
  BY DEF Tiling
<1>2. b.at \in Nat /\ c.at \in Nat /\ End(b) \in Nat /\ End(c) \in Nat /\ c.at < End(c)
  BY <1>1, BlockFacts
<1>3. ~Before(b, c) /\ ~Before(c, b)
  BY <1>2 DEF Before
<1>4. QED
  BY <1>3 DEF Tiling

(* Blocks that start at the same unit are the same.                           *)
LEMMA TileSame ==
  ASSUME NEW Bs, NEW n \in Nat, Tiling(Bs, n), NEW b \in Bs, NEW c \in Bs, b.at = c.at
  PROVE  b = c
<1>1. b \in BlockSet
  BY DEF Tiling
<1>2. b.at <= c.at /\ c.at < End(b)
  BY <1>1, BlockFacts
<1>3. QED
  BY <1>2, TileAt

(* bud_sbrk: a block behind the last.                                         *)
LEMMA TileAdd ==
  ASSUME NEW Bs, NEW n \in Nat, Tiling(Bs, n), NEW k \in Orders, At(n, k)
  PROVE  Tiling(Bs \cup {Block(n, k)}, n + Size[k])
<1> DEFINE e == Block(n, k)
           m == n + Size[k]
<1>1. e \in BlockSet /\ e.at = n /\ e.order = k /\ End(e) = m /\ m \in Nat /\ n < m
  BY BlockFacts
<1>2. /\ Bs \subseteq BlockSet
      /\ \A b \in Bs : At(b.at, b.order) /\ End(b) <= n /\ b.at \in Nat /\ End(b) \in Nat
      /\ \A b, c \in Bs : b # c => Before(b, c) \/ Before(c, b)
      /\ \A u \in Nat : u < n => \E b \in Bs : b.at <= u /\ u < End(b)
  BY BlockFacts DEF Tiling
<1> HIDE DEF e, m
<1>3. \A b \in Bs : Before(b, e)
  BY <1>1, <1>2 DEF Before
<1>4. \A b \in Bs \cup {e} : At(b.at, b.order) /\ End(b) <= m
  BY <1>1, <1>2
<1>5. ASSUME NEW u \in Nat, u < m PROVE \E b \in Bs \cup {e} : b.at <= u /\ u < End(b)
  <2>1. CASE u < n
    BY <1>2, <2>1
  <2>2. CASE ~(u < n)
    BY <1>1, <1>5, <2>2
  <2>3. QED
    BY <2>1, <2>2
<1>6. Tiling(Bs \cup {e}, m)
  BY <1>1, <1>2, <1>3, <1>4, <1>5 DEF Tiling
<1>7. QED
  BY <1>6 DEF e, m

(* Two halves for a block, as bud_malloc and bud_realloc cut it.              *)
LEMMA TileSplit ==
  ASSUME NEW Bs, NEW n \in Nat, Tiling(Bs, n),
         NEW a, NEW k \in Orders \ {Top}, Block(a, k + 1) \in Bs
  PROVE  /\ Tiling((Bs \ {Block(a, k + 1)}) \cup {Block(a, k), Block(a + Size[k], k)}, n)
         /\ At(a, k) /\ At(a + Size[k], k) /\ a + Size[k] + Size[k] <= n
<1> DEFINE w == Block(a, k + 1)
           x == Block(a, k)
           y == Block(a + Size[k], k)
           Cs == (Bs \ {w}) \cup {x, y}
<1>0. k \in Orders /\ k + 1 \in Orders /\ Size[k + 1] = 2 * Size[k] /\ k <= k + 1
  BY SizeStep, OrdersAreNumbers
<1>1. /\ Bs \subseteq BlockSet
      /\ \A b \in Bs : At(b.at, b.order) /\ End(b) <= n /\ b.at \in Nat /\ End(b) \in Nat
      /\ \A b, c \in Bs : b # c => Before(b, c) \/ Before(c, b)
      /\ \A u \in Nat : u < n => \E b \in Bs : b.at <= u /\ u < End(b)
  BY BlockFacts DEF Tiling
<1>2. w.at = a /\ End(w) = a + Size[k + 1] /\ At(a, k + 1) /\ a \in Nat /\ Size[k] \in Nat \ {0}
  <2>1. w \in BlockSet /\ At(w.at, w.order) /\ w.at \in Nat
    BY <1>1
  <2>2. w.at = a /\ w.order = k + 1 /\ End(w) = a + Size[k + 1]
    BY BlockFacts
  <2>3. Size[k] \in Nat \ {0}
    BY <1>0, SizeRecursion
  <2>4. QED
    BY <2>1, <2>2, <2>3
<1>3. At(a, k) /\ At(a + Size[k], k)
  BY <1>0, <1>2, AtSmaller, AtPlus
<1>4. /\ x \in BlockSet /\ x.at = a /\ x.order = k /\ End(x) = a + Size[k]
      /\ y \in BlockSet /\ y.at = a + Size[k] /\ y.order = k /\ End(y) = a + Size[k] + Size[k]
      /\ End(w) = a + Size[k] + Size[k] /\ End(w) <= n
  BY <1>0, <1>1, <1>2, BlockFacts
<1> HIDE DEF w, x, y
<1>5. \A b \in Bs \ {w} : (Before(b, x) /\ Before(b, y)) \/ (Before(x, b) /\ Before(y, b))
  <2> SUFFICES ASSUME NEW b \in Bs \ {w}
               PROVE  (Before(b, x) /\ Before(b, y)) \/ (Before(x, b) /\ Before(y, b))
    OBVIOUS
  <2>1. w \in Bs
    BY DEF w
  <2>2. Before(b, w) \/ Before(w, b)
    BY <1>1, <2>1
  <2>3. QED
    BY <1>1, <1>2, <1>4, <2>2 DEF Before
<1>6. Before(x, y)
  BY <1>2, <1>4 DEF Before
<1>7. \A b, c \in Cs : b # c => Before(b, c) \/ Before(c, b)
  BY <1>1, <1>5, <1>6
<1>8. \A b \in Cs : At(b.at, b.order) /\ End(b) <= n
  BY <1>1, <1>2, <1>3, <1>4
<1>9. ASSUME NEW u \in Nat, u < n PROVE \E b \in Cs : b.at <= u /\ u < End(b)
  <2>1. PICK b \in Bs : b.at <= u /\ u < End(b)
    BY <1>1, <1>9
  <2>2. CASE b # w
    BY <2>1, <2>2
  <2>3. CASE b = w
    <3>1. (x.at <= u /\ u < End(x)) \/ (y.at <= u /\ u < End(y))
      BY <1>2, <1>4, <2>1, <2>3
    <3>2. QED
      BY <3>1
  <2>4. QED
    BY <2>2, <2>3
<1>10. Cs \subseteq BlockSet
  BY <1>1, <1>4
<1>11. Tiling(Cs, n)
  BY <1>7, <1>8, <1>9, <1>10 DEF Tiling
<1>12. QED
  BY <1>2, <1>3, <1>4, <1>11 DEF w, x, y

(* One block for two halves, as bud_free merges them.                         *)
LEMMA TileMerge ==
  ASSUME NEW Bs, NEW n \in Nat, Tiling(Bs, n), NEW a, NEW k \in Orders \ {Top},
         Block(a, k) \in Bs, Block(a + Size[k], k) \in Bs, At(a, k + 1)
  PROVE  Tiling((Bs \ {Block(a, k), Block(a + Size[k], k)}) \cup {Block(a, k + 1)}, n)
<1> DEFINE w == Block(a, k + 1)
           x == Block(a, k)
           y == Block(a + Size[k], k)
           Cs == (Bs \ {x, y}) \cup {w}
<1>0. k \in Orders /\ k + 1 \in Orders /\ Size[k + 1] = 2 * Size[k] /\ Size[k] \in Nat \ {0} /\ a \in Nat
  BY SizeStep, SizeRecursion DEF At
<1>1. /\ Bs \subseteq BlockSet
      /\ \A b \in Bs : At(b.at, b.order) /\ End(b) <= n /\ b.at \in Nat /\ End(b) \in Nat
      /\ \A b, c \in Bs : b # c => Before(b, c) \/ Before(c, b)
      /\ \A u \in Nat : u < n => \E b \in Bs : b.at <= u /\ u < End(b)
  BY BlockFacts DEF Tiling
<1>4. /\ w \in BlockSet /\ w.at = a /\ w.order = k + 1 /\ End(w) = a + Size[k] + Size[k]
      /\ x.at = a /\ x.order = k /\ End(x) = a + Size[k]
      /\ y.at = a + Size[k] /\ y.order = k /\ End(y) = a + Size[k] + Size[k]
      /\ End(y) <= n /\ x \in Bs /\ y \in Bs
  BY <1>0, <1>1, BlockFacts
<1> HIDE DEF w, x, y
<1>5. \A b \in Bs \ {x, y} : Before(b, w) \/ Before(w, b)
  <2> SUFFICES ASSUME NEW b \in Bs \ {x, y} PROVE Before(b, w) \/ Before(w, b)
    OBVIOUS
  <2>1. Before(b, x) \/ Before(x, b)
    BY <1>1, <1>4
  <2>2. Before(b, y) \/ Before(y, b)
    BY <1>1, <1>4
  <2>3. b.at \in Nat /\ End(b) \in Nat /\ b.at < End(b)
    BY <1>1, BlockFacts
  <2>4. QED
    BY <1>0, <1>4, <2>1, <2>2, <2>3 DEF Before
<1>7. \A b, c \in Cs : b # c => Before(b, c) \/ Before(c, b)
  BY <1>1, <1>5
<1>8. \A b \in Cs : At(b.at, b.order) /\ End(b) <= n
  BY <1>0, <1>1, <1>4
<1>9. ASSUME NEW u \in Nat, u < n PROVE \E b \in Cs : b.at <= u /\ u < End(b)
  <2>1. PICK b \in Bs : b.at <= u /\ u < End(b)
    BY <1>1, <1>9
  <2>2. CASE b \notin {x, y}
    BY <2>1, <2>2
  <2>3. CASE b \in {x, y}
    <3>1. w.at <= u /\ u < End(w)
      BY <1>0, <1>4, <2>1, <2>3
    <3>2. QED
      BY <3>1
  <2>4. QED
    BY <2>2, <2>3
<1>10. Cs \subseteq BlockSet
  BY <1>1, <1>4
<1>11. Tiling(Cs, n)
  BY <1>7, <1>8, <1>9, <1>10 DEF Tiling
<1>12. QED
  BY <1>11 DEF w, x, y

(* The buddy of a block is where a block begins, and that is no larger.       *)
LEMMA BuddyIsBlock ==
  ASSUME NEW Bs, NEW n \in Nat, Tiling(Bs, n), At(n, Top),
         NEW a, NEW k \in Orders \ {Top}, Block(a, k) \in Bs
  PROVE  \E c \in Bs : c.at = Buddy(a, k) /\ c.order <= k
<1> DEFINE b == Buddy(a, k)
           s == Size[k]
           e == Block(a, k)
<1>1. k \in Orders /\ k + 1 \in Orders /\ Size[k + 1] = 2 * s /\ k <= k + 1 /\ s \in Nat \ {0}
  BY SizeStep, SizeRecursion, OrdersAreNumbers
<1>2. At(a, k) /\ a + s <= n /\ a \in Nat /\ e.at = a /\ End(e) = a + s
  BY BlockFacts DEF Tiling, At
<1>3. /\ At(b, k) /\ b # a
      /\ \/ b = a + s /\ Min({a, b}) = a
         \/ a = b + s /\ Min({a, b}) = b
      /\ At(Min({a, b}), k + 1)
  BY <1>1, <1>2, BuddyPair
<1> HIDE DEF b, s
<1>4. PICK m \in {a, b} : At(m, k + 1) /\ ((m = a /\ b = a + s) \/ (m = b /\ a = b + s))
  BY <1>3
<1>44. b \in Nat
  BY <1>3 DEF At
<1>5. m + Size[k + 1] <= n
  <2>1. k + 1 <= Top /\ Top \in Orders
    BY <1>1, OrdersAreNumbers
  <2>2. At(n, k + 1)
    BY <1>1, <2>1, AtSmaller
  <2>3. m < n
    BY <1>1, <1>2, <1>3, <1>44, <1>4
  <2>4. QED
    BY <1>1, <1>4, <2>2, <2>3, AtApart
<1>6. b < n
  BY <1>1, <1>2, <1>3, <1>44, <1>4, <1>5
<1>7. PICK c \in Bs : c.at <= b /\ b < End(c)
  BY <1>3, <1>44, <1>6 DEF Tiling
<1>8. /\ c.at \in Nat /\ c.order \in Orders /\ End(c) = c.at + Size[c.order] /\ At(c.at, c.order)
      /\ End(c) \in Nat
  <2>1. c \in BlockSet
    BY DEF Tiling
  <2>2. QED
    BY <2>1, BlockFacts DEF Tiling, End
<1>9. c # e
  BY <1>1, <1>2, <1>3, <1>44, <1>4, <1>7
<1>10. Before(c, e) \/ Before(e, c)
  BY <1>9 DEF Tiling
<1> HIDE DEF e
<1>11. ~(k + 1 <= c.order)
  <2> SUFFICES ASSUME k + 1 <= c.order PROVE FALSE
    OBVIOUS
  <2>1. \/ m + Size[k + 1] <= c.at
        \/ c.at + Size[c.order] <= m
        \/ c.at <= m /\ m + Size[k + 1] <= c.at + Size[c.order]
    BY <1>1, <1>4, <1>8, Nested
  <2>2. c.at <= m /\ m + Size[k + 1] <= End(c) /\ m \in Nat
    BY <1>1, <1>2, <1>3, <1>44, <1>4, <1>7, <1>8, <2>1
  <2>3. QED
    BY <1>1, <1>2, <1>3, <1>44, <1>4, <1>8, <1>10, <2>2 DEF Before
<1>12. c.order <= k
  BY <1>1, <1>8, <1>11, OrdersAreNumbers
<1>13. \/ c.at + Size[c.order] <= b
       \/ b + s <= c.at
       \/ b <= c.at /\ c.at + Size[c.order] <= b + s
  BY <1>1, <1>3, <1>44, <1>8, <1>12, Nested DEF s
<1>14. c.at = b
  BY <1>1, <1>3, <1>44, <1>7, <1>8, <1>13
<1>15. QED
  BY <1>12, <1>14 DEF b

-----------------------------------------------------------------------------
(* Types: what the variables hold whatever bud_free has done to the lists.    *)

(* The locals of the call that is running.                                    *)
Ops == [call : {"none", "malloc", "check", "free", "shrink"},
        at : Units \cup {None}, order : Orders, want : Orders, size : Nat,
        old : Units \cup {None}]

OpOK ==
  /\ op \in Ops
  /\ op.call = "none" => op = Idle
  /\ op.call # "none" => calls # 0
  /\ op.call = "malloc" => op.at = None /\ op.size \in Sizes /\ op.want = Want(op.size)
  /\ op.call \in {"check", "free", "shrink"} => op.at \in Units /\ op.old = None
  /\ op.call = "shrink" => op.want < op.order /\ op.size \in Sizes /\ op.want = Want(op.size)
  /\ op.old # None => op.order < op.want

Typed ==
  /\ TypeOK
  /\ OpOK
  /\ held \subseteq [id : Nat, at : Units, size : Sizes] /\ IsFiniteSet(held)

(* What the assumptions on Sizes give: a request fits in the order it wants.  *)
LEMMA SizesAreNumbers ==
  /\ Sizes \subseteq Nat \ {0}
  /\ \A r \in Sizes : Want(r) \in Orders /\ r + 1 <= Words(Want(r))
  /\ \A k \in Orders : Words(k) \in Nat \ {0}
<1>1. \A k \in Orders : Words(k) \in Nat \ {0}
  BY SizeRecursion DEF Words
<1>2. Sizes \subseteq Nat \ {0} /\ \A r \in Sizes : r + 1 <= Words(Top)
  BY <1>1, ConstantsOK, OrdersAreNumbers
<1>3. ASSUME NEW r \in Sizes PROVE Want(r) \in Orders /\ r + 1 <= Words(Want(r))
  <2> DEFINE S == {k \in Orders : Fits(r, k)} \cup {Top}
  <2>1. S \subseteq Nat /\ S # {}
    BY OrdersAreNumbers
  <2>2. Want(r) \in S
    BY <2>1, MinOf DEF Want
  <2>3. QED
    BY <1>2, <2>2, OrdersAreNumbers DEF Fits
<1>4. QED
  BY <1>1, <1>2, <1>3

(* The headers the code writes are headers.                                   *)
LEMMA HeaderTypes ==
  /\ \A h \in Headers, k \in Orders : Free(h, k) \in Headers /\ Free(h, k).alloc = 0 /\ Free(h, k).order = k
  /\ \A v : Filled(v) \in Headers
  /\ \A h \in Headers : h.alloc \in {0, 1} /\ h.order \in Orders \cup {-1} /\ h.padded \in {0, 1} /\ h.rsize \in Nat
  /\ \A r, k : Padded(r, k) \in {0, 1}
BY DEF Headers, Free, Filled, Padded

(* The type invariant, taken apart.                                           *)
LEMMA TypedFacts ==
  ASSUME Typed
  PROVE  /\ hdr \in [Units -> Headers] /\ next \in [Nodes -> Links] /\ prev \in [Nodes -> Links]
         /\ brk \in Nat /\ brk <= N /\ At(brk, Top) /\ \A k \in Orders : At(brk, k)
         /\ op.call \in {"none", "malloc", "check", "free", "shrink"}
         /\ op.at \in Units \cup {None} /\ op.order \in Orders /\ op.want \in Orders
         /\ op.size \in Nat /\ op.old \in Units \cup {None}
         /\ calls \in Nat
<1>1. PICK c \in 0 .. Chunks : brk = c * Size[Top]
  BY DEF Typed, TypeOK
<1>2. c \in Nat /\ c <= Chunks /\ Chunks \in Nat /\ Size[Top] \in Nat \ {0} /\ N = Chunks * Size[Top]
  BY ConstantsOK, SizeRecursion, OrdersAreNumbers DEF N
<1>3. brk \in Nat /\ N \in Nat /\ At(brk, Top)
  BY <1>1, <1>2, OrdersAreNumbers, AtQuotient
<1>4. brk <= N
  <2>1. PICK d \in Nat : Chunks = c + d
    <3>1. Chunks - c \in Nat /\ Chunks = c + (Chunks - c)
      BY <1>2
    <3>2. QED
      BY <3>1
  <2>2. N = c * Size[Top] + d * Size[Top] /\ d * Size[Top] \in Nat
    BY <1>2, <2>1
  <2>3. QED
    BY <1>1, <1>3, <2>2
<1>5. \A k \in Orders : At(brk, k)
  BY <1>3, AtSmaller, OrdersAreNumbers
<1>6. calls \in Nat
  BY ConstantsOK DEF Typed, TypeOK
<1>7. QED
  BY <1>3, <1>4, <1>5, <1>6 DEF Typed, TypeOK, OpOK, Ops

(* Room: the new break is one of the values brk may have.                     *)
LEMMA BrkRoom ==
  ASSUME Typed, Room
  PROVE  /\ brk \in Units /\ brk + Size[Top] <= N
         /\ brk + Size[Top] \in {c * Size[Top] : c \in 0 .. Chunks}
<1>1. PICK c \in 0 .. Chunks : brk = c * Size[Top]
  BY DEF Typed, TypeOK
<1>2. c \in Nat /\ Chunks \in Nat /\ Size[Top] \in Nat \ {0} /\ N = Chunks * Size[Top]
  BY ConstantsOK, SizeRecursion, OrdersAreNumbers DEF N
<1>3. brk \in Nat /\ N \in Nat /\ brk + Size[Top] <= N
  BY <1>1, <1>2 DEF Room
<1>4. c * Size[Top] < Chunks * Size[Top]
  BY <1>1, <1>2, <1>3
<1>5. c < Chunks
  BY <1>2, <1>4, TimesLess
<1>6. brk + Size[Top] = (c + 1) * Size[Top] /\ c + 1 \in 0 .. Chunks
  <2>1. c + 1 \in 0 .. Chunks
    BY <1>2, <1>5
  <2>2. (c + 1) * Size[Top] = c * Size[Top] + Size[Top]
    BY <1>2, TimesNext
  <2>3. QED
    BY <1>1, <2>1, <2>2
<1>7. brk \in Units
  BY <1>2, <1>3 DEF Units
<1>8. QED
  BY <1>3, <1>6, <1>7

(* No room: the heap is used up, because it ends with a block.                *)
LEMMA NoRoom ==
  ASSUME Typed, ~Room
  PROVE  brk = N
<1>1. brk \in Nat /\ brk <= N /\ At(brk, Top) /\ N \in Nat /\ At(N, Top) /\ Size[Top] \in Nat
  BY TypedFacts, HeapOfPairs, SizeRecursion, OrdersAreNumbers
<1>2. ~(brk < N)
  BY <1>1, AtApart, OrdersAreNumbers DEF Room
<1>3. QED
  BY <1>1, <1>2

(* Linking a block in front writes addresses only.                            *)
LEMMA PutFirstTypes ==
  ASSUME NEW nx \in [Nodes -> Links], NEW pv \in [Nodes -> Links],
         NEW a \in Nodes, NEW k \in Orders, NEW back \in BOOLEAN, NEW own \in BOOLEAN,
         PutFirst(nx, pv, a, k, back, own)
  PROVE  next' \in [Nodes -> Links] /\ prev' \in [Nodes -> Links]
<1>1. Head(k) \in Nodes /\ Head(k) \in Links /\ a \in Links /\ nx[Head(k)] \in Links
  BY NodeFacts
<1>2. next' \in [Nodes -> Links]
  BY <1>1 DEF PutFirst
<1>3. prev' \in [Nodes -> Links]
  BY <1>1 DEF PutFirst
<1>4. QED
  BY <1>2, <1>3

(* The records of the calls.                                                  *)
LEMMA CallRecords ==
  /\ Idle \in Ops
  /\ \A c \in {"none", "malloc", "check", "free", "shrink"}, a \in Units \cup {None} :
       [Idle EXCEPT !.call = c, !.at = a] \in Ops
  /\ \A c \in {"none", "malloc", "check", "free", "shrink"}, w \in Orders, r \in Nat :
       /\ [Idle EXCEPT !.call = c, !.want = w, !.size = r] \in Ops
       /\ [Idle EXCEPT !.want = w, !.size = r] \in Ops
  /\ \A p \in Ops, c \in {"none", "malloc", "check", "free", "shrink"}, a \in Units \cup {None},
       k \in Orders :
       /\ [p EXCEPT !.call = c, !.order = k] \in Ops
       /\ [p EXCEPT !.at = a, !.order = k] \in Ops
       /\ [p EXCEPT !.order = k] \in Ops
<1>1. Idle \in Ops
  BY OrdersAreNumbers DEF Idle, Ops
<1>2. QED
  BY <1>1, ZenonT(30) DEF Ops

(* Each step that changes variables keeps their types.  Harm and Stop first.  *)
LEMMA HarmTypes ==
  ASSUME NEW p, NEW l, Harm(p, l)
  PROVE  harm' \in {"none", "prev", "lists"}
BY DEF Harm

LEMMA StopTypes ==
  ASSUME Typed, NEW how \in {"abort", "hang", "wild", "null"}, Stop(how)
  PROVE  Typed'
BY DEF Stop, heap, Typed, TypeOK, OpOK

LEMMA InitTypes == Init => Typed
<1> SUFFICES ASSUME Init PROVE Typed
  OBVIOUS
<1>1. PICK v \in Fills : /\ hdr = [u \in Units |-> Filled(v)]
                          /\ next = [n \in Nodes |-> IF n \in Units THEN v ELSE n]
                          /\ prev = next
  BY DEF Init
<1>2. hdr \in [Units -> Headers] /\ next \in [Nodes -> Links] /\ prev \in [Nodes -> Links]
  BY <1>1, HeaderTypes, NodeFacts DEF Fills
<1>3. brk \in {c * Size[Top] : c \in 0 .. Chunks}
  <2>1. 0 = 0 * Size[Top] /\ 0 \in 0 .. Chunks
    BY ConstantsOK, SizeRecursion, OrdersAreNumbers
  <2>2. QED
    BY <2>1 DEF Init
<1>4. TypeOK
  BY <1>2, <1>3, ConstantsOK DEF Init, TypeOK, Idle
<1>5. OpOK
  BY OrdersAreNumbers DEF Init, OpOK, Ops, Idle
<1>6. QED
  BY <1>4, <1>5, FS_EmptySet DEF Init, Typed

LEMMA StartMallocTypes ==
  ASSUME Typed, NEW r \in Sizes, StartMalloc(r)
  PROVE  Typed'
<1>1. Want(r) \in Orders /\ r \in Nat /\ calls \in Nat
  BY SizesAreNumbers, TypedFacts
<1>2. TypeOK'
  BY <1>1, ConstantsOK DEF StartMalloc, Typed, TypeOK, heap, Idle
<1>3. OpOK'
  <2>1. /\ op'.call = "malloc" /\ op'.at = None /\ op'.want = Want(r) /\ op'.size = r
        /\ op'.old = None /\ calls' # 0
    BY <1>1 DEF StartMalloc, Idle
  <2>2. op' \in Ops
    BY <1>1, CallRecords DEF StartMalloc
  <2>3. QED
    BY <1>1, <2>1, <2>2 DEF OpOK
<1>4. QED
  BY <1>2, <1>3 DEF Typed, StartMalloc, heap

LEMMA MoreCoreTypes ==
  ASSUME Typed, MoreCore
  PROVE  Typed'
<1>1. CASE Room
  <2>1. brk' = brk + Size[Top] /\ UNCHANGED <<held, op, status, calls>> /\ Harm(FALSE, FALSE)
    BY <1>1 DEF MoreCore
  <2>2. brk \in Units /\ brk' \in {c * Size[Top] : c \in 0 .. Chunks}
    BY <1>1, <2>1, BrkRoom
  <2>3. hdr' \in [Units -> Headers]
    <3>1. hdr[brk] \in Headers /\ Free(hdr[brk], Top) \in Headers
      BY <2>2, TypedFacts, HeaderTypes, OrdersAreNumbers
    <3>2. QED
      BY <1>1, <3>1, TypedFacts DEF MoreCore
  <2>4. next' \in [Nodes -> Links] /\ prev' \in [Nodes -> Links]
    <3>1. next \in [Nodes -> Links] /\ prev \in [Nodes -> Links]
      BY TypedFacts
    <3>2. brk \in Links /\ Head(Top) \in Links
      BY <2>2, NodeFacts, OrdersAreNumbers
    <3>3. /\ next' = [next EXCEPT ![Head(Top)] = brk, ![brk] = Head(Top)]
          /\ prev' = [prev EXCEPT ![Head(Top)] = brk, ![brk] = Head(Top)]
      BY <1>1 DEF MoreCore
    <3>4. QED
      BY <3>1, <3>2, <3>3
  <2>5. harm' \in {"none", "prev", "lists"}
    BY <2>1, HarmTypes
  <2>6. TypeOK'
    BY <2>1, <2>2, <2>3, <2>4, <2>5 DEF Typed, TypeOK
  <2>7. OpOK'
    BY <2>1 DEF Typed, OpOK
  <2>8. QED
    BY <2>1, <2>6, <2>7 DEF Typed
<1>2. CASE ~Room /\ op.old # None
  BY <1>2, StopTypes DEF MoreCore
<1>3. CASE ~Room /\ op.old = None
  <2>1. op' = Idle /\ UNCHANGED <<heap, held, status, calls, harm>>
    BY <1>3 DEF MoreCore
  <2>2. TypeOK'
    BY <2>1 DEF Typed, TypeOK, heap, Idle
  <2>3. OpOK'
    BY <2>1, OrdersAreNumbers DEF OpOK, Ops, Idle
  <2>4. QED
    BY <2>1, <2>2, <2>3 DEF Typed
<1>4. QED
  BY <1>1, <1>2, <1>3

(* Unlinking the lowest block puts nothing but links into the links.          *)
LEMMA LowestTypes ==
  ASSUME Typed, NEW k \in Orders, LowestEnds(k) = "ok"
  PROVE  NextWithoutLowest(k) \in [Nodes -> Links] /\ PrevWithoutLowest(k) \in [Nodes -> Links]
<1>1. /\ next \in [Nodes -> Links] /\ prev \in [Nodes -> Links]
      /\ Head(k) \in Nodes /\ Nodes \subseteq Links
  BY TypedFacts, NodeFacts
<1>2. CASE next[Head(k)] = prev[Head(k)]
  BY <1>1, <1>2 DEF NextWithoutLowest, PrevWithoutLowest
<1>3. CASE next[Head(k)] # prev[Head(k)]
  <2>1. {prev[Lowest(k)], next[Lowest(k)]} \subseteq Nodes
    BY <1>3 DEF LowestEnds, Lowest
  <2>2. QED
    BY <1>1, <1>3, <2>1 DEF NextWithoutLowest, PrevWithoutLowest
<1>4. QED
  BY <1>2, <1>3

(* A walk ends in one of three ways.                                          *)
LEMMA EndsTypes ==
  /\ \A k : WalkEnds(k) \in {"ok", "hang", "wild"} /\ LowestEnds(k) \in {"ok", "hang", "wild"}
  /\ SearchEnds \in {"ok", "hang", "wild"}
BY DEF WalkEnds, LowestEnds, SearchEnds

(* The list bud_malloc takes a block from: the first that has one.            *)
LEMMA CandidateFacts ==
  ASSUME Typed, Candidates # {}
  PROVE  /\ Min(Candidates) \in Orders /\ op.want <= Min(Candidates)
         /\ ~Empty(Min(Candidates))
         /\ \A j \in Orders : op.want <= j /\ j < Min(Candidates) => Empty(j)
<1>1. \A j : j \in Candidates <=> j \in Orders /\ op.want <= j /\ ~Empty(j)
  BY TypedFacts, OrdersAreNumbers DEF Candidates, Orders
<1>2. Candidates \subseteq Nat
  BY <1>1, OrdersAreNumbers
<1>3. Min(Candidates) \in Candidates /\ \A j \in Candidates : Min(Candidates) <= j
  BY <1>2, MinOf
<1>4. \A j \in Orders : j < Min(Candidates) => j \notin Candidates
  BY <1>1, <1>3, OrdersAreNumbers
<1>5. QED
  BY <1>1, <1>3, <1>4

LEMMA SplitTypes ==
  ASSUME Typed, Split
  PROVE  Typed'
<1> DEFINE i == Min(Candidates)
           b1 == Lowest(i)
           b2 == b1 + Size[i - 1]
           h == Head(i - 1)
           nx == NextWithoutLowest(i)
           pv == PrevWithoutLowest(i)
<1>1. i \in Orders /\ i > op.want /\ i - 1 \in Orders
  <2>1. i \in Orders /\ op.want \in Nat /\ i > op.want
    BY CandidateFacts, TypedFacts, OrdersAreNumbers DEF Split
  <2>2. QED
    BY <2>1, OrdersAreNumbers
<1>2. CASE LowestEnds(i) # "ok"
  <2>1. Stop(LowestEnds(i)) /\ LowestEnds(i) \in {"hang", "wild"}
    BY <1>2, EndsTypes DEF Split
  <2>2. QED
    BY <2>1, StopTypes
<1>3. CASE LowestEnds(i) = "ok" /\ ~({b1, b2} \subseteq Units)
  BY <1>3, StopTypes DEF Split
<1>4. CASE LowestEnds(i) = "ok" /\ {b1, b2} \subseteq Units
  <2>1. /\ hdr' = [hdr EXCEPT ![b1] = Free(@, i - 1), ![b2] = Free(@, i - 1)]
        /\ next' = [nx EXCEPT ![b1] = nx[h], ![b2] = b1, ![h] = b2]
        /\ prev' = IF nx[h] = h THEN [pv EXCEPT ![b1] = b2, ![b2] = h, ![h] = b1]
                   ELSE [pv EXCEPT ![b1] = b2, ![b2] = h]
        /\ Harm(FALSE, FALSE)
        /\ UNCHANGED <<brk, held, op, status, calls>>
    BY <1>4 DEF Split
  <2>2. nx \in [Nodes -> Links] /\ pv \in [Nodes -> Links]
    BY <1>1, <1>4, LowestTypes
  <2>3. b1 \in Units /\ b2 \in Units /\ h \in Nodes /\ b1 \in Links /\ b2 \in Links /\ h \in Links
    BY <1>1, <1>4, NodeFacts
  <2>4. hdr' \in [Units -> Headers]
    <3>1. \A g \in Headers : Free(g, i - 1) \in Headers
      BY <1>1, HeaderTypes
    <3>2. hdr \in [Units -> Headers]
      BY TypedFacts
    <3> HIDE DEF i, b1, b2
    <3>3. QED
      BY <2>1, <2>3, <3>1, <3>2
  <2> HIDE DEF i, b1, b2, h, nx, pv
  <2>5. next' \in [Nodes -> Links] /\ prev' \in [Nodes -> Links]
    <3>1. nx[h] \in Links
      BY <2>2, <2>3
    <3>2. QED
      BY <2>1, <2>2, <2>3, <3>1
  <2>6. harm' \in {"none", "prev", "lists"}
    BY <2>1, HarmTypes
  <2>7. TypeOK'
    BY <2>1, <2>4, <2>5, <2>6 DEF Typed, TypeOK
  <2>8. QED
    BY <2>1, <2>7 DEF Typed, OpOK
<1>5. QED
  BY <1>2, <1>3, <1>4

(* What the program holds.                                                    *)
LEMMA HeldTypes ==
  ASSUME Typed
  PROVE  /\ \A b \in held : b.at \in Units /\ b.size \in Sizes /\ b.id \in 1 .. MaxCalls
         /\ \A b \in held : b = [id |-> b.id, at |-> b.at, size |-> b.size]
BY DEF Typed, TypeOK

(* A block is added to those of the program.                                  *)
LEMMA HeldMore ==
  ASSUME Typed, op.call # "none", NEW a \in Units, NEW r \in Sizes,
         NEW b, b = [id |-> calls, at |-> a, size |-> r]
  PROVE  /\ IsFiniteSet(held \cup {b})
         /\ held \cup {b} \subseteq [id : Nat, at : Units, size : Sizes]
         /\ \A c \in held \cup {b} : c.id \in 1 .. MaxCalls /\ c.at \in Units /\ c.size \in Sizes
<1>1. calls \in 1 .. MaxCalls
  BY ConstantsOK DEF Typed, TypeOK, OpOK
<1>2. b \in [id : Nat, at : Units, size : Sizes] /\ b.id = calls /\ b.at = a /\ b.size = r
  BY <1>1, ConstantsOK
<1>3. IsFiniteSet(held \cup {b})
  BY FS_AddElement DEF Typed
<1>4. QED
  BY <1>1, <1>2, <1>3 DEF Typed, TypeOK

LEMMA CopiedTypes ==
  ASSUME Typed, NEW nx \in [Nodes -> Links], NEW pv \in [Nodes -> Links],
         NEW h \in [Units -> Headers], NEW a \in Units, op.old \in Units, CopyInHeap(a),
         Copied(nx, pv, h, a)
  PROVE  hdr' \in [Units -> Headers] /\ next' \in [Nodes -> Links] /\ prev' \in [Nodes -> Links]
<1> DEFINE size == Size[op.order]
           from(u) == op.old + (u - a)
           word(zero) == IF zero THEN Null ELSE Data
<1>1. /\ next' = [n \in Nodes |-> IF n \in a .. (a + size - 1)
                                  THEN word(h[from(n)] = Filled(Null)) ELSE nx[n]]
      /\ prev' = [n \in Nodes |-> IF n \in a .. (a + size - 1) THEN nx[from(n)] ELSE pv[n]]
      /\ hdr' = [u \in Units |-> IF u \in (a + 1) .. (a + size)
                                 THEN Filled(word(pv[from(u) - 1] = Null)) ELSE h[u]]
  BY DEF Copied
<1>2. /\ a \in Nat /\ op.old \in Nat /\ size \in Nat \ {0} /\ N \in Nat
      /\ a + size < N /\ op.old + size <= N
  BY NodeFacts, TypedFacts, SizeRecursion, HeapOfPairs DEF CopyInHeap
<1>3. \A n \in a .. (a + size - 1) : from(n) \in Units
  BY <1>2, SMTT(30) DEF Units
<1>4. Null \in Links /\ Data \in Links /\ Units \subseteq Nodes
  BY NodeFacts
<1> HIDE DEF size, from
<1>5. \A z : word(z) \in Links
  BY <1>4
<1> HIDE DEF word
<1>6. next' \in [Nodes -> Links]
  BY <1>1, <1>5
<1>7. prev' \in [Nodes -> Links]
  BY <1>1, <1>3, <1>4
<1>8. hdr' \in [Units -> Headers]
  BY <1>1, HeaderTypes
<1>9. QED
  BY <1>6, <1>7, <1>8

LEMMA TakeTypes ==
  ASSUME Typed, Take
  PROVE  Typed'
<1> DEFINE w == op.want
           a == Lowest(w)
           h == [hdr EXCEPT ![a].rsize = op.size, ![a].alloc = 1,
                            ![a].padded = Padded(op.size, w)]
           nx == NextWithoutLowest(w)
           pv == PrevWithoutLowest(w)
           b == [id |-> calls, at |-> a, size |-> op.size]
<1>0. w \in Orders /\ op.call = "malloc" /\ op.size \in Sizes /\ op.size \in Nat
      /\ op.old \in Units \cup {None}
  BY TypedFacts DEF Take, Typed, OpOK
<1>1. CASE LowestEnds(w) # "ok"
  <2>1. Stop(LowestEnds(w)) /\ LowestEnds(w) \in {"hang", "wild"}
    BY <1>1, EndsTypes DEF Take
  <2>2. QED
    BY <2>1, StopTypes
<1>2. CASE LowestEnds(w) = "ok" /\ (a \notin Units \/ (op.old # None /\ ~CopyInHeap(a)))
  BY <1>2, StopTypes DEF Take
<1>3. CASE LowestEnds(w) = "ok" /\ a \in Units /\ ~(op.old # None /\ ~CopyInHeap(a))
  <2>1. /\ held' = held \cup {b}
        /\ IF op.old = None
           THEN hdr' = h /\ next' = nx /\ prev' = pv /\ op' = Idle
           ELSE /\ Copied(nx, pv, h, a)
                /\ op' = [Idle EXCEPT !.call = "check", !.at = op.old]
        /\ Harm(FALSE, FALSE)
        /\ UNCHANGED <<brk, status, calls>>
    BY <1>3 DEF Take
  <2>2. nx \in [Nodes -> Links] /\ pv \in [Nodes -> Links]
    BY <1>0, <1>3, LowestTypes
  <2>3. h \in [Units -> Headers]
    <3>1. hdr \in [Units -> Headers] /\ Padded(op.size, w) \in {0, 1}
      BY TypedFacts, HeaderTypes
    <3>2. QED
      BY <1>0, <1>3, <3>1, ZenonT(30) DEF Headers
  <2>4. hdr' \in [Units -> Headers] /\ next' \in [Nodes -> Links] /\ prev' \in [Nodes -> Links]
    <3>1. CASE op.old = None
      BY <2>1, <2>2, <2>3, <3>1
    <3>2. CASE op.old # None
      <4> HIDE DEF h, nx, pv, a
      <4>1. op.old \in Units /\ CopyInHeap(a) /\ Copied(nx, pv, h, a)
        BY <1>0, <1>3, <2>1, <3>2
      <4>2. QED
        BY <1>3, <2>2, <2>3, <4>1, CopiedTypes
    <3>3. QED
      BY <3>1, <3>2
  <2> HIDE DEF h, nx, pv, a
  <2>5. /\ IsFiniteSet(held')
        /\ held' \subseteq [id : Nat, at : Units, size : Sizes]
        /\ \A c \in held' : c.id \in 1 .. MaxCalls /\ c.at \in Units /\ c.size \in Sizes
    BY <1>0, <1>3, <2>1, HeldMore
  <2>6. OpOK'
    <3>1. CASE op.old = None
      <4>1. op' = Idle
        BY <2>1, <3>1
      <4>2. QED
        BY <4>1, CallRecords DEF OpOK, Idle
    <3>2. CASE op.old # None
      <4>1. op' = [Idle EXCEPT !.call = "check", !.at = op.old] /\ op.old \in Units
        BY <1>0, <2>1, <3>2
      <4>2. op' \in Ops
        BY <4>1, CallRecords
      <4>3. op'.call = "check" /\ op'.at = op.old /\ op'.old = None /\ calls' # 0
        BY <1>0, <2>1, <4>1 DEF Idle, Typed, OpOK
      <4>4. QED
        BY <4>1, <4>2, <4>3 DEF OpOK
    <3>3. QED
      BY <3>1, <3>2
  <2>7. harm' \in {"none", "prev", "lists"}
    BY <2>1, HarmTypes
  <2>8. op'.call \in {"none", "malloc", "check", "free", "shrink"}
    BY <2>6 DEF OpOK, Ops
  <2>9. TypeOK'
    BY <2>1, <2>4, <2>5, <2>7, <2>8 DEF Typed, TypeOK
  <2>10. QED
    BY <2>5, <2>6, <2>9 DEF Typed
<1>4. QED
  BY <1>1, <1>2, <1>3

LEMMA WriteTypes ==
  ASSUME Typed, NEW b \in held, NEW v \in Fills, Write(b, v)
  PROVE  Typed'
<1>1. UNCHANGED <<brk, held, op, status, calls, harm>>
  BY DEF Write
<1>2. v \in Links
  BY NodeFacts DEF Fills
<1>3. hdr' \in [Units -> Headers] /\ next' \in [Nodes -> Links] /\ prev' \in [Nodes -> Links]
  BY <1>2, TypedFacts, HeaderTypes DEF Write
<1>4. TypeOK'
  BY <1>1, <1>3 DEF Typed, TypeOK
<1>5. QED
  BY <1>1, <1>4 DEF Typed, OpOK

LEMMA StartFreeTypes ==
  ASSUME Typed, NEW b \in held, StartFree(b)
  PROVE  Typed'
<1>1. /\ op' = [Idle EXCEPT !.call = "check", !.at = b.at]
      /\ held' = held \ {b} /\ calls' = calls + 1 /\ calls < MaxCalls
      /\ UNCHANGED <<heap, status, harm>>
  BY DEF StartFree
<1>2. b.at \in Units /\ calls \in Nat
  BY HeldTypes, TypedFacts
<1>3. op' \in Ops
  BY <1>1, <1>2, CallRecords
<1>4. op'.call = "check" /\ op'.at = b.at /\ op'.old = None
  BY <1>1 DEF Idle
<1>5. TypeOK'
  BY <1>1, <1>2, <1>4, ConstantsOK DEF Typed, TypeOK, heap
<1>6. IsFiniteSet(held')
  BY <1>1, FS_RemoveElement DEF Typed
<1>7. QED
  BY <1>1, <1>2, <1>3, <1>4, <1>5, <1>6 DEF Typed, OpOK

LEMMA CheckFreeTypes ==
  ASSUME Typed, CheckFree
  PROVE  Typed'
<1>1. CASE HeaderBad(hdr[op.at])
  BY <1>1, StopTypes DEF CheckFree
<1>2. CASE ~HeaderBad(hdr[op.at])
  <2>1. /\ hdr' = [hdr EXCEPT ![op.at].alloc = 0]
        /\ op' = [op EXCEPT !.call = "free", !.order = hdr[op.at].order]
        /\ UNCHANGED <<next, prev, brk, held, status, calls, harm>>
    BY <1>2 DEF CheckFree
  <2>2. op.at \in Units /\ op.old = None /\ calls # 0
    BY DEF CheckFree, Typed, OpOK
  <2>3. hdr[op.at].order \in Orders
    BY <1>2 DEF HeaderBad
  <2>4. op' \in Ops
    BY <2>1, <2>3, CallRecords DEF Typed, OpOK
  <2>5. op \in Ops
    BY DEF Typed, OpOK
  <2>6. op'.call = "free" /\ op'.at = op.at /\ op'.old = op.old
    BY <2>1, <2>5 DEF Ops
  <2>7. hdr' \in [Units -> Headers]
    BY <2>1, TypedFacts DEF Headers
  <2>8. TypeOK'
    BY <2>1, <2>6, <2>7 DEF Typed, TypeOK
  <2>9. OpOK'
    BY <2>1, <2>2, <2>4, <2>6 DEF OpOK
  <2>10. QED
    BY <2>1, <2>8, <2>9 DEF Typed
<1>3. QED
  BY <1>1, <1>2

(* The operands of a step of bud_free.                                        *)
LEMMA FreeOps ==
  ASSUME Typed, op.call = "free"
  PROVE  /\ op.at \in Units /\ op.at \in Nodes /\ op.order \in Orders /\ buddy \in Units /\ buddy \in Nodes
         /\ hdr[op.at] \in Headers
         /\ Head(op.order) \in Nodes
BY TypedFacts, NodeFacts, BuddyInHeap DEF Typed, OpOK, buddy

(* The end of a call that has linked a block.                                 *)
LEMMA DoneTypes ==
  ASSUME Typed, Done, hdr' \in [Units -> Headers], next' \in [Nodes -> Links],
         prev' \in [Nodes -> Links], harm' \in {"none", "prev", "lists"}
  PROVE  Typed'
<1>1. op' = Idle /\ UNCHANGED <<brk, held, status, calls>>
  BY DEF Done
<1>2. TypeOK'
  BY <1>1 DEF Typed, TypeOK, Idle
<1>3. OpOK'
  BY <1>1, CallRecords DEF OpOK, Idle
<1>4. QED
  BY <1>1, <1>2, <1>3 DEF Typed

LEMMA FreeAloneTypes ==
  ASSUME Typed, FreeAlone
  PROVE  Typed'
<1>1. op.call = "free" /\ Done
  BY DEF FreeAlone
<1>2. hdr' \in [Units -> Headers]
  <2>1. Free(hdr[op.at], op.order) \in Headers
    BY <1>1, FreeOps, HeaderTypes
  <2>2. QED
    BY <1>1, <2>1, FreeOps, TypedFacts DEF FreeAlone
<1>3. next' \in [Nodes -> Links] /\ prev' \in [Nodes -> Links]
  BY <1>1, FreeOps, TypedFacts, PutFirstTypes DEF FreeAlone
<1>4. harm' \in {"none", "prev", "lists"}
  BY HarmTypes DEF FreeAlone
<1>5. QED
  BY <1>1, <1>2, <1>3, <1>4, DoneTypes

LEMMA FreeLargestTypes ==
  ASSUME Typed, FreeLargest
  PROVE  Typed'
<1>1. op.call = "free"
  BY DEF FreeLargest
<1>2. CASE next[Head(Top)] \notin Nodes
  BY <1>2, StopTypes DEF FreeLargest
<1>3. CASE next[Head(Top)] \in Nodes
  <2>1. /\ hdr' = [hdr EXCEPT ![op.at] = Free(@, Top)]
        /\ PutFirst(next, prev, op.at, Top, TRUE, TRUE)
        /\ Harm(FALSE, LinkedAlready)
        /\ Done
    BY <1>3 DEF FreeLargest
  <2>2. hdr' \in [Units -> Headers]
    <3>1. Free(hdr[op.at], Top) \in Headers
      BY <1>1, FreeOps, HeaderTypes, OrdersAreNumbers
    <3>2. QED
      BY <2>1, <3>1, TypedFacts
  <2>3. next' \in [Nodes -> Links] /\ prev' \in [Nodes -> Links]
    BY <1>1, <2>1, FreeOps, TypedFacts, PutFirstTypes, OrdersAreNumbers
  <2>4. harm' \in {"none", "prev", "lists"}
    BY <2>1, HarmTypes
  <2>5. QED
    BY <2>1, <2>2, <2>3, <2>4, DoneTypes
<1>4. QED
  BY <1>2, <1>3

LEMMA FreeLastTypes ==
  ASSUME Typed, FreeLast
  PROVE  Typed'
<1>1. op.call = "free"
  BY DEF FreeLast
<1>2. CASE LinkedAlready
  <2>1. UNCHANGED <<hdr, next, prev, harm>> /\ Done
    BY <1>2 DEF FreeLast
  <2>2. QED
    BY <2>1, DoneTypes DEF Typed, TypeOK
<1>3. CASE ~LinkedAlready /\ WalkEnds(op.order) # "ok"
  BY <1>3, EndsTypes, StopTypes DEF FreeLast
<1>4. CASE ~LinkedAlready /\ WalkEnds(op.order) = "ok"
  <2>1. /\ hdr' = [hdr EXCEPT ![op.at] = Free(@, op.order)]
        /\ PutFirst(next, prev, op.at, op.order, TRUE, FALSE)
        /\ Harm(~Empty(op.order) /\ prev[op.at] # Head(op.order), FALSE)
        /\ Done
    BY <1>4 DEF FreeLast
  <2>2. hdr' \in [Units -> Headers]
    <3>1. Free(hdr[op.at], op.order) \in Headers
      BY <1>1, FreeOps, HeaderTypes
    <3>2. QED
      BY <2>1, <3>1, TypedFacts
  <2>3. next' \in [Nodes -> Links] /\ prev' \in [Nodes -> Links]
    BY <1>1, <2>1, FreeOps, TypedFacts, PutFirstTypes
  <2>4. harm' \in {"none", "prev", "lists"}
    BY <2>1, HarmTypes
  <2>5. QED
    BY <2>1, <2>2, <2>3, <2>4, DoneTypes
<1>5. QED
  BY <1>2, <1>3, <1>4

LEMMA FreeMergeTypes ==
  ASSUME Typed, FreeMerge
  PROVE  Typed'
<1> DEFINE h == Head(op.order)
           left == Min({op.at, buddy})
           k == op.order + 1
           nx == IF Empty(op.order) THEN next
                 ELSE IF Single THEN [next EXCEPT ![h] = h]
                 ELSE [next EXCEPT ![BeforeBuddy] = next[buddy], ![buddy] = Null]
           pv == IF Empty(op.order) THEN prev
                 ELSE IF Single THEN [prev EXCEPT ![h] = h]
                 ELSE [prev EXCEPT ![next[buddy]] = BeforeBuddy, ![buddy] = Null]
<1>1. op.call = "free" /\ op.order < Top
  BY DEF FreeMerge
<1>2. CASE SearchEnds # "ok"
  <2>1. Stop(SearchEnds) /\ SearchEnds \in {"hang", "wild"}
    BY <1>2, EndsTypes DEF FreeMerge
  <2>2. QED
    BY <2>1, StopTypes
<1>3. CASE SearchEnds = "ok"
  <2>1. /\ hdr' = [hdr EXCEPT ![left] = Free(@, k)]
        /\ IF left = buddy THEN PutFirst(nx, pv, left, k, FALSE, TRUE)
           ELSE next' = nx /\ prev' = pv
        /\ Harm(left = buddy /\ ~Empty(k), BuddyInFront \/ LinkedAlready)
        /\ op' = [op EXCEPT !.at = left, !.order = k]
        /\ UNCHANGED <<brk, held, status, calls>>
    BY <1>3 DEF FreeMerge
  <2>2. k \in Orders
    BY <1>1, FreeOps, OrdersAreNumbers
  <2>3. left \in Units
    <3>1. {op.at, buddy} \subseteq Nat /\ {op.at, buddy} # {}
      BY <1>1, FreeOps, NodeFacts
    <3>2. QED
      BY <1>1, <3>1, FreeOps, MinOf
  <2>4. nx \in [Nodes -> Links] /\ pv \in [Nodes -> Links]
    <3>1. h \in Links /\ Null \in Links
      BY <1>1, FreeOps, NodeFacts
    <3>2. ~Empty(op.order) /\ ~Single => BeforeBuddy \in Links /\ next[buddy] \in Links
      BY <1>3, NodeFacts DEF SearchEnds
    <3>3. QED
      BY <3>1, <3>2, TypedFacts
  <2>5. hdr' \in [Units -> Headers]
    <3>1. hdr[left] \in Headers /\ Free(hdr[left], k) \in Headers
      BY <2>2, <2>3, TypedFacts, HeaderTypes
    <3>2. QED
      BY <2>1, <3>1, TypedFacts
  <2>6. next' \in [Nodes -> Links] /\ prev' \in [Nodes -> Links]
    <3>1. left \in Nodes
      BY <2>3, NodeFacts
    <3> HIDE DEF left, nx, pv, k
    <3>2. QED
      BY <2>1, <2>2, <2>4, <3>1, PutFirstTypes
  <2>7. harm' \in {"none", "prev", "lists"}
    BY <2>1, HarmTypes
  <2>8. op \in Ops /\ op.old = None /\ calls # 0
    BY <1>1 DEF Typed, OpOK
  <2>9. op' \in Ops
    BY <2>1, <2>2, <2>3, <2>8, <1>1, CallRecords
  <2>10. op'.call = "free" /\ op'.at = left /\ op'.old = None
    BY <1>1, <2>1, <2>8 DEF Ops
  <2>11. TypeOK'
    BY <2>1, <2>5, <2>6, <2>7, <2>10 DEF Typed, TypeOK
  <2>12. OpOK'
    BY <2>1, <2>3, <2>8, <2>9, <2>10 DEF OpOK
  <2>13. QED
    BY <2>1, <2>11, <2>12 DEF Typed
<1>4. QED
  BY <1>2, <1>3

LEMMA StartReallocTypes ==
  ASSUME Typed, NEW b \in held, NEW r \in Sizes, StartRealloc(b, r)
  PROVE  Typed'
<1> DEFINE h == hdr[b.at]
           call == [Idle EXCEPT !.want = Want(r), !.size = r]
           grow == [call EXCEPT !.call = "malloc", !.old = b.at, !.order = h.order]
           cut == [call EXCEPT !.call = "shrink", !.at = b.at, !.order = h.order]
<1>1. CASE HeaderBad(h) \/ Want(h.rsize) # h.order
  BY <1>1, StopTypes DEF StartRealloc
<1>2. CASE ~(HeaderBad(h) \/ Want(h.rsize) # h.order)
  <2>1. /\ op = Idle /\ calls < MaxCalls
        /\ calls' = calls + 1
        /\ held' = (held \ {b}) \cup IF Want(r) = h.order THEN {[b EXCEPT !.size = r]} ELSE {}
        /\ op' = CASE Want(r) = h.order -> Idle
                   [] Want(r) > h.order -> grow
                   [] Want(r) < h.order -> cut
        /\ UNCHANGED <<heap, status, harm>>
    BY <1>2 DEF StartRealloc
  <2>2. /\ b.at \in Units /\ calls \in Nat /\ calls' # 0 /\ Want(r) \in Orders /\ r \in Nat
        /\ b = [id |-> b.id, at |-> b.at, size |-> b.size] /\ b.id \in 1 .. MaxCalls
    BY <2>1, HeldTypes, TypedFacts, SizesAreNumbers
  <2>3. h.order \in Orders
    BY <1>2 DEF HeaderBad
  <2> HIDE DEF h, grow, cut
  <2>4. OpOK'
    <3>1. call \in Ops
      BY <2>2, CallRecords
    <3>2. call.want = Want(r) /\ call.size = r /\ call.at = None /\ call.old = None /\ call.call = "none"
      BY DEF Idle
    <3> HIDE DEF call
    <3>3. CASE Want(r) = h.order
      <4>1. op' = Idle
        BY <2>1, <2>2, <2>3, <3>3, OrdersAreNumbers
      <4>2. QED
        BY <4>1, CallRecords DEF OpOK, Idle
    <3>4. CASE Want(r) > h.order
      <4>1. op' = [call EXCEPT !.call = "malloc", !.old = b.at, !.order = h.order]
        BY <2>1, <2>2, <2>3, <3>4, OrdersAreNumbers DEF grow
      <4>2. op' \in Ops
        BY <2>2, <2>3, <3>1, <4>1 DEF Ops
      <4>3. /\ op'.call = "malloc" /\ op'.old = b.at /\ op'.at = None /\ op'.order = h.order
            /\ op'.want = Want(r) /\ op'.size = r
        BY <3>1, <3>2, <4>1 DEF Ops
      <4>4. QED
        BY <2>2, <2>3, <3>4, <4>2, <4>3, OrdersAreNumbers DEF OpOK
    <3>5. CASE Want(r) < h.order
      <4>1. op' = [call EXCEPT !.call = "shrink", !.at = b.at, !.order = h.order]
        BY <2>1, <2>2, <2>3, <3>5, OrdersAreNumbers DEF cut
      <4>2. op' \in Ops
        BY <2>2, <2>3, <3>1, <4>1 DEF Ops
      <4>3. /\ op'.call = "shrink" /\ op'.at = b.at /\ op'.old = None /\ op'.order = h.order
            /\ op'.want = Want(r) /\ op'.size = r
        BY <3>1, <3>2, <4>1 DEF Ops
      <4>4. QED
        BY <2>2, <3>5, <4>2, <4>3 DEF OpOK
    <3>6. QED
      BY <2>2, <2>3, <3>3, <3>4, <3>5, OrdersAreNumbers
  <2>5. /\ IsFiniteSet(held') /\ held' \subseteq [id : Nat, at : Units, size : Sizes]
        /\ \A c \in held' : c.id \in 1 .. MaxCalls /\ c.at \in Units /\ c.size \in Sizes
    <3> DEFINE d == [b EXCEPT !.size = r]
    <3>1. d \in [id : Nat, at : Units, size : Sizes] /\ d.id = b.id /\ d.at = b.at /\ d.size = r
      BY <2>2 DEF Typed
    <3> HIDE DEF d
    <3>2. held' = held \ {b} \/ held' = (held \ {b}) \cup {d}
      BY <2>1 DEF d
    <3>3. IsFiniteSet(held \ {b}) /\ IsFiniteSet((held \ {b}) \cup {d})
      BY FS_RemoveElement, FS_AddElement DEF Typed
    <3>4. QED
      BY <2>2, <3>1, <3>2, <3>3 DEF Typed, TypeOK
  <2>6. op'.call \in {"none", "malloc", "check", "free", "shrink"}
    BY <2>4 DEF OpOK, Ops
  <2>7. TypeOK'
    <3>1. UNCHANGED <<hdr, next, prev, brk, status, harm>> /\ calls' \in 0 .. MaxCalls
      BY <2>1, <2>2, ConstantsOK DEF heap
    <3>2. QED
      BY <2>5, <2>6, <3>1 DEF Typed, TypeOK
  <2>8. QED
    BY <2>4, <2>5, <2>7 DEF Typed
<1>3. QED
  BY <1>1, <1>2

LEMMA ShrinkTypes ==
  ASSUME Typed, Shrink
  PROVE  Typed'
<1> DEFINE k == op.order - 1
           b2 == op.at + Size[k]
           h == [hdr EXCEPT ![op.at].order = k, ![b2] = Free(@, k)]
           b == [id |-> calls, at |-> op.at, size |-> op.size]
<1>1. /\ op.call = "shrink" /\ op.at \in Units /\ op.old = None /\ op.order \in Orders
      /\ op.want \in Orders /\ op.want < op.order /\ op.size \in Sizes /\ calls # 0
      /\ op.want = Want(op.size) /\ op \in Ops /\ op.size \in Nat
  BY TypedFacts DEF Shrink, Typed, OpOK
<1>2. k \in Orders /\ op.want <= k
  BY <1>1, OrdersAreNumbers
<1>3. CASE next[Head(k)] \notin Nodes \/ b2 \notin Units
  BY <1>3, StopTypes DEF Shrink
<1>4. CASE next[Head(k)] \in Nodes /\ b2 \in Units
  <2>1. /\ PutFirst(next, prev, b2, k, TRUE, TRUE)
        /\ IF k > op.want
           THEN hdr' = h /\ op' = [op EXCEPT !.order = k] /\ UNCHANGED held
           ELSE /\ hdr' = [h EXCEPT ![op.at].padded = Padded(op.size, k), ![op.at].rsize = op.size]
                /\ held' = held \cup {b}
                /\ op' = Idle
        /\ Harm(FALSE, FALSE)
        /\ UNCHANGED <<brk, status, calls>>
    BY <1>4 DEF Shrink
  <2>2. h \in [Units -> Headers]
    <3>1. hdr \in [Units -> Headers]
      BY TypedFacts
    <3>2. [hdr EXCEPT ![op.at].order = k] \in [Units -> Headers]
      BY <1>1, <1>2, <3>1 DEF Headers
    <3>3. \A g \in Headers : Free(g, k) \in Headers
      BY <1>2, HeaderTypes
    <3> DEFINE g == [hdr EXCEPT ![op.at].order = k]
    <3>4. h = [g EXCEPT ![b2] = Free(hdr[b2], k)]
      OBVIOUS
    <3> HIDE DEF b2, k, h, g
    <3>5. g \in [Units -> Headers]
      BY <3>2 DEF g
    <3>6. QED
      BY <1>4, <3>1, <3>3, <3>4, <3>5
  <2>3. hdr' \in [Units -> Headers]
    <3>1. Padded(op.size, k) \in {0, 1}
      BY HeaderTypes
    <3>2. [h EXCEPT ![op.at].padded = Padded(op.size, k), ![op.at].rsize = op.size] \in [Units -> Headers]
      <4> HIDE DEF h
      <4>1. QED
        BY <1>1, <2>2, <3>1 DEF Headers
    <3>3. QED
      BY <2>1, <2>2, <3>2
  <2>4. next' \in [Nodes -> Links] /\ prev' \in [Nodes -> Links]
    <3>1. b2 \in Nodes
      BY <1>4, NodeFacts
    <3> HIDE DEF b2, k
    <3>2. QED
      BY <1>2, <2>1, <3>1, TypedFacts, PutFirstTypes
  <2>5. harm' \in {"none", "prev", "lists"}
    BY <2>1, HarmTypes
  <2>6. OpOK'
    <3>1. CASE k > op.want
      <4>1. op' = [op EXCEPT !.order = k]
        BY <2>1, <3>1
      <4>2. op' \in Ops
        BY <1>1, <1>2, <4>1, CallRecords
      <4>3. /\ op'.call = "shrink" /\ op'.at = op.at /\ op'.old = None /\ op'.order = k
            /\ op'.want = op.want /\ op'.size = op.size
        BY <1>1, <4>1 DEF Ops
      <4>4. QED
        BY <1>1, <2>1, <3>1, <4>2, <4>3 DEF OpOK
    <3>2. CASE ~(k > op.want)
      <4>1. op' = Idle
        BY <2>1, <3>2
      <4>2. QED
        BY <4>1, CallRecords DEF OpOK, Idle
    <3>3. QED
      BY <3>1, <3>2
  <2>7. /\ IsFiniteSet(held') /\ held' \subseteq [id : Nat, at : Units, size : Sizes]
        /\ \A c \in held' : c.id \in 1 .. MaxCalls /\ c.at \in Units /\ c.size \in Sizes
    <3>1. held' = held \/ held' = held \cup {b}
      BY <2>1
    <3>2. QED
      BY <1>1, <3>1, HeldMore DEF Typed, TypeOK
  <2>8. op'.call \in {"none", "malloc", "check", "free", "shrink"}
    BY <2>6 DEF OpOK, Ops
  <2>9. TypeOK'
    BY <2>1, <2>3, <2>4, <2>5, <2>7, <2>8 DEF Typed, TypeOK
  <2>10. QED
    BY <2>6, <2>7, <2>9 DEF Typed
<1>5. QED
  BY <1>3, <1>4

LEMMA NextTypes ==
  ASSUME Typed, [Next]_vars
  PROVE  Typed'
<1>1. CASE UNCHANGED vars
  BY <1>1 DEF vars, heap, Typed, TypeOK, OpOK
<1>2. CASE Next
  BY <1>2, StartMallocTypes, StartFreeTypes, StartReallocTypes, WriteTypes, MoreCoreTypes,
     SplitTypes, TakeTypes, CheckFreeTypes, FreeAloneTypes, FreeLargestTypes, FreeMergeTypes,
     FreeLastTypes, ShrinkTypes DEF Next
<1>3. QED
  BY <1>1, <1>2

(* TypeOK of every behaviour: links, headers and the state of the running call are *)
(* of their types whatever bud_free has done to the lists.                    *)
THEOREM TypeCorrect == Spec => []TypeOK
<1>1. Init => Typed
  BY InitTypes
<1>2. Typed /\ [Next]_vars => Typed'
  BY NextTypes
<1>3. Typed => TypeOK
  BY DEF Typed
<1>4. QED
  BY <1>1, <1>2, <1>3, PTL DEF Spec

-----------------------------------------------------------------------------
(* All the lists at once: L[k] are the blocks of list k.                      *)

ListSets == [Orders -> SUBSET Units]
AllLists(nx, L) == \A k \in Orders : IsList(nx, Head(k), L[k])
AllBack(nx, pv, L) == \A k \in Orders : IsBack(nx, pv, Head(k), L[k])
Disjoint(L) == \A j, k \in Orders : j # k => L[j] \cap L[k] = {}
FreeOf(L) == {b \in BlockSet : b.at \in L[b.order]}
Lists == [k \in Orders |-> Listed(k)]

(* Lists are sets of units, before and after a step.                          *)
LEMMA ListsAre ==
  /\ Lists \in ListSets
  /\ \A k \in Orders : Lists[k] = Listed(k) /\ Lists'[k] = Listed(k)'
  /\ Lists' \in ListSets
  /\ FreeBlocks = FreeOf(Lists) /\ FreeBlocks' = FreeOf(Lists')
<1>1. \A k : Listed(k) \subseteq Units /\ Listed(k)' \subseteq Units
  BY DEF Listed
<1>2. FreeBlocks = FreeOf(Lists)
  <2>1. ASSUME NEW b \in FreeBlocks PROVE b \in FreeOf(Lists)
    <3>1. PICK k \in Orders : \E a \in Listed(k) : b = [at |-> a, order |-> k]
      BY DEF FreeBlocks
    <3>2. PICK a \in Listed(k) : b = [at |-> a, order |-> k]
      BY <3>1
    <3>3. a \in Nat /\ b \in BlockSet /\ b.at = a /\ b.order = k
      BY <1>1, <3>2, NodeFacts DEF BlockSet
    <3>4. QED
      BY <3>2, <3>3 DEF FreeOf, Lists
  <2>2. ASSUME NEW b \in FreeOf(Lists) PROVE b \in FreeBlocks
    <3>1. b = [at |-> b.at, order |-> b.order] /\ b.order \in Orders /\ b.at \in Listed(b.order)
      BY DEF FreeOf, BlockSet, Lists
    <3>2. QED
      BY <3>1 DEF FreeBlocks
  <2>3. QED
    BY <2>1, <2>2
<1>3. FreeBlocks' = FreeOf(Lists')
  <2>1. ASSUME NEW b \in FreeBlocks' PROVE b \in FreeOf(Lists')
    <3>1. PICK k \in Orders : \E a \in Listed(k)' : b = [at |-> a, order |-> k]
      BY DEF FreeBlocks
    <3>2. PICK a \in Listed(k)' : b = [at |-> a, order |-> k]
      BY <3>1
    <3>3. a \in Nat /\ b \in BlockSet /\ b.at = a /\ b.order = k
      BY <1>1, <3>2, NodeFacts DEF BlockSet
    <3>4. QED
      BY <3>2, <3>3 DEF FreeOf, Lists
  <2>2. ASSUME NEW b \in FreeOf(Lists') PROVE b \in FreeBlocks'
    <3>1. b = [at |-> b.at, order |-> b.order] /\ b.order \in Orders /\ b.at \in Listed(b.order)'
      BY DEF FreeOf, BlockSet, Lists
    <3>2. QED
      BY <3>1 DEF FreeBlocks
  <2>3. QED
    BY <2>1, <2>2
<1>4. QED
  BY <1>1, <1>2, <1>3 DEF Lists, ListSets

(* The lists after a step are the ones its links make.                        *)
LEMMA Relist ==
  ASSUME NEW L \in ListSets, AllLists(next', L)
  PROVE  Lists' = L
<1>1. \A k \in Orders : Listed(k)' = L[k]
  BY WalkIsWalk, WalkOfList DEF AllLists
<1>2. QED
  BY <1>1 DEF Lists, ListSets

(* A block put into a list, or taken out, is one of the free blocks more or less. *)
LEMMA FreeOfFacts ==
  ASSUME NEW L \in ListSets, NEW k \in Orders, NEW a \in Units
  PROVE  /\ [L EXCEPT ![k] = @ \cup {a}] \in ListSets
         /\ [L EXCEPT ![k] = @ \ {a}] \in ListSets
         /\ FreeOf([L EXCEPT ![k] = @ \cup {a}]) = FreeOf(L) \cup {Block(a, k)}
         /\ FreeOf([L EXCEPT ![k] = @ \ {a}]) = FreeOf(L) \ {Block(a, k)}
         /\ Block(a, k) \in FreeOf(L) <=> a \in L[k]
         /\ Block(a, k) \in BlockSet
<1>1. Block(a, k) \in BlockSet /\ Block(a, k).at = a /\ Block(a, k).order = k
  BY BlockFacts, NodeFacts
<1>2. \A b \in BlockSet : b.order \in Orders /\ (b = Block(a, k) <=> b.at = a /\ b.order = k)
  BY BlockFacts
<1>3. FreeOf([L EXCEPT ![k] = @ \cup {a}]) = FreeOf(L) \cup {Block(a, k)}
  BY <1>1, <1>2 DEF FreeOf, ListSets
<1>4. FreeOf([L EXCEPT ![k] = @ \ {a}]) = FreeOf(L) \ {Block(a, k)}
  BY <1>1, <1>2 DEF FreeOf, ListSets
<1>5. QED
  BY <1>1, <1>3, <1>4 DEF FreeOf, ListSets

(* A block linked in front of list k changes no other list.                   *)
LEMMA LinkedFirst ==
  ASSUME NEW L \in ListSets, NEW nx, AllLists(nx, L),
         NEW a \in Units, \A j \in Orders : a \notin L[j], NEW k \in Orders,
         NEW ny, ny[a] = nx[Head(k)], ny[Head(k)] = a,
         \A n \in Nodes \ {a, Head(k)} : ny[n] = nx[n]
  PROVE  AllLists(ny, [L EXCEPT ![k] = @ \cup {a}])
<1> DEFINE h == Head(k)
           M == [L EXCEPT ![k] = @ \cup {a}]
<1>1. h \in Nodes /\ h \notin Units /\ \A j \in Orders : Head(j) \notin Units /\ Head(j) \in Nodes
  BY NodeFacts
<1>2. ASSUME NEW j \in Orders PROVE IsList(ny, Head(j), M[j])
  <2>1. IsList(nx, Head(j), L[j]) /\ L[j] \subseteq Units /\ L[j] \subseteq Nodes
    BY NodeFacts DEF AllLists, ListSets
  <2>2. CASE j = k
    <3> DEFINE S == L[k]
    <3>1. M[k] = S \cup {a}
      BY DEF ListSets
    <3>2. /\ IsList(nx, h, S) /\ h \notin Units /\ a \notin S
          /\ ny[a] = nx[h] /\ ny[h] = a /\ \A n \in S : ny[n] = nx[n]
      BY <1>1, <2>1, <2>2
    <3> HIDE DEF h, S
    <3>3. IsList(ny, h, S \cup {a})
      BY <3>2, ListFront
    <3>4. QED
      BY <2>2, <3>1, <3>3 DEF h
  <2>3. CASE j # k
    <3>1. Head(j) # h /\ M[j] = L[j]
      BY <2>3, NodeFacts DEF ListSets
    <3>2. \A n \in L[j] \cup {Head(j)} : ny[n] = nx[n]
      BY <1>1, <2>1, <3>1
    <3>3. QED
      BY <2>1, <3>1, <3>2, ListFrame
  <2>4. QED
    BY <2>2, <2>3
<1>3. QED
  BY <1>2 DEF AllLists

(* Back links of all lists when a free unit is linked in front of one of them. *)
LEMMA BackFirst ==
  ASSUME NEW L \in ListSets, NEW nx, NEW pv,
         AllLists(nx, L), AllBack(nx, pv, L), Disjoint(L),
         NEW a \in Units, \A j \in Orders : a \notin L[j], NEW k \in Orders,
         NEW ny, ny[a] = nx[Head(k)], ny[Head(k)] = a,
         \A n \in Nodes \ {a, Head(k)} : ny[n] = nx[n],
         NEW qv, qv[a] = Head(k), qv[nx[Head(k)]] = a,
         \A n \in Nodes \ {a, nx[Head(k)]} : qv[n] = pv[n]
  PROVE  AllBack(ny, qv, [L EXCEPT ![k] = @ \cup {a}])
<1> DEFINE h == Head(k)
           M == [L EXCEPT ![k] = @ \cup {a}]
<1>1. h \in Nodes /\ h \notin Units /\ \A j \in Orders : Head(j) \notin Units /\ Head(j) \in Nodes
  BY NodeFacts
<1>2. ASSUME NEW j \in Orders
      PROVE  /\ IsList(nx, Head(j), L[j]) /\ IsBack(nx, pv, Head(j), L[j])
             /\ L[j] \subseteq Units /\ L[j] \subseteq Nodes
             /\ nx[Head(j)] \in L[j] \cup {Head(j)}
  BY NodeFacts DEF AllLists, AllBack, IsList, ListSets
<1>3. ASSUME NEW j \in Orders PROVE IsBack(ny, qv, Head(j), M[j])
  <2>1. CASE j = k
    <3> DEFINE S == L[k]
    <3>1. M[k] = S \cup {a}
      BY DEF ListSets
    <3>2. /\ IsList(nx, h, S) /\ IsBack(nx, pv, h, S) /\ h \notin Units /\ a \notin S
          /\ ny[a] = nx[h] /\ ny[h] = a /\ \A n \in S : ny[n] = nx[n]
          /\ qv[a] = h /\ qv[nx[h]] = a /\ \A n \in (S \cup {h}) \ {nx[h]} : qv[n] = pv[n]
      BY <1>1, <1>2
    <3> HIDE DEF h, S
    <3>3. IsBack(ny, qv, h, S \cup {a})
      BY <3>2, BackFront
    <3>4. QED
      BY <2>1, <3>1, <3>3 DEF h
  <2>2. CASE j # k
    <3>1. M[j] = L[j] /\ L[j] \cap L[k] = {} /\ Head(j) # h
      BY <2>2, NodeFacts DEF ListSets, Disjoint
    <3>2. nx[h] \notin L[j] \cup {Head(j)}
      BY <1>1, <1>2, <3>1
    <3>3. \A n \in L[j] \cup {Head(j)} : n # h /\ n # a /\ n # nx[h] /\ n \in Nodes
      BY <1>1, <1>2, <3>1, <3>2
    <3>4. \A n \in L[j] \cup {Head(j)} : ny[n] = nx[n] /\ qv[n] = pv[n]
      BY <3>3
    <3>5. \A n \in L[j] \cup {Head(j)} : nx[n] \in L[j] \cup {Head(j)}
      BY <1>2 DEF IsList
    <3>6. QED
      BY <1>2, <3>1, <3>4, <3>5 DEF IsBack
  <2>3. QED
    BY <2>1, <2>2
<1>4. QED
  BY <1>3 DEF AllBack

(* PutFirst is such a step.  The prevs are right when there was no block in   *)
(* the list or both are set.                                                  *)
LEMMA PutFirstLists ==
  ASSUME NEW L \in ListSets, NEW nx \in [Nodes -> Links], NEW pv \in [Nodes -> Links],
         AllLists(nx, L),
         NEW a \in Units, \A j \in Orders : a \notin L[j],
         NEW k \in Orders, NEW back, NEW own, PutFirst(nx, pv, a, k, back, own)
  PROVE  /\ AllLists(next', [L EXCEPT ![k] = @ \cup {a}])
         /\ /\ AllBack(nx, pv, L) /\ Disjoint(L)
            /\ nx[Head(k)] = Head(k) \/ (back = TRUE /\ (own = TRUE \/ pv[a] = Head(k)))
            => AllBack(next', prev', [L EXCEPT ![k] = @ \cup {a}])
<1> DEFINE h == Head(k)
<1>1. h \in Nodes /\ h \notin Units /\ a \in Nodes
  BY NodeFacts
<1>2. nx[h] # a /\ nx[h] \in Nodes
  <2>1. IsList(nx, h, L[k]) /\ L[k] \subseteq Nodes
    BY NodeFacts DEF AllLists, ListSets
  <2>2. nx[h] \in L[k] \cup {h}
    BY <2>1 DEF IsList
  <2>3. QED
    BY <1>1, <2>1, <2>2
<1>3. next'[a] = nx[h] /\ next'[h] = a /\ \A n \in Nodes \ {a, h} : next'[n] = nx[n]
  BY <1>1 DEF PutFirst
<1>4. AllLists(next', [L EXCEPT ![k] = @ \cup {a}])
  BY <1>3, LinkedFirst
<1>5. ASSUME AllBack(nx, pv, L), Disjoint(L),
             nx[h] = h \/ (back = TRUE /\ (own = TRUE \/ pv[a] = h))
      PROVE  AllBack(next', prev', [L EXCEPT ![k] = @ \cup {a}])
  <2>1. prev'[a] = h /\ prev'[nx[h]] = a /\ \A n \in Nodes \ {a, nx[h]} : prev'[n] = pv[n]
    BY <1>1, <1>2, <1>5 DEF PutFirst
  <2>2. QED
    BY <1>3, <1>5, <2>1, BackFirst
<1>6. QED
  BY <1>4, <1>5

(* A block taken out of list k, from behind p, changes no other list.         *)
LEMMA Unlinked ==
  ASSUME NEW L \in ListSets, NEW nx, NEW pv,
         AllLists(nx, L), AllBack(nx, pv, L), Disjoint(L),
         NEW k \in Orders, NEW a \in L[k], NEW p \in L[k] \cup {Head(k)}, nx[p] = a,
         NEW ny, ny[p] = nx[a], \A n \in Nodes \ {p, a} : ny[n] = nx[n],
         NEW qv, qv[nx[a]] = p, \A n \in Nodes \ {a, nx[a]} : qv[n] = pv[n]
  PROVE  /\ AllLists(ny, [L EXCEPT ![k] = @ \ {a}])
         /\ AllBack(ny, qv, [L EXCEPT ![k] = @ \ {a}])
<1> DEFINE M == [L EXCEPT ![k] = @ \ {a}]
<1>1. ASSUME NEW j \in Orders
      PROVE  IsList(nx, Head(j), L[j]) /\ IsBack(nx, pv, Head(j), L[j]) /\ L[j] \cup {Head(j)} \subseteq Nodes
  BY NodeFacts DEF AllLists, AllBack, ListSets
<1>2. nx[a] \in L[k] \cup {Head(k)} /\ Head(k) \notin Units
  BY <1>1, NodeFacts DEF IsList
<1>3. ASSUME NEW j \in Orders PROVE IsList(ny, Head(j), M[j]) /\ IsBack(ny, qv, Head(j), M[j])
  <2>1. CASE j = k
    <3>1. M[k] = L[k] \ {a}
      BY DEF ListSets
    <3>2. /\ \A n \in (L[k] \cup {Head(k)}) \ {p, a} : ny[n] = nx[n]
          /\ \A n \in (L[k] \cup {Head(k)}) \ {a, nx[a]} : qv[n] = pv[n]
      BY <1>1
    <3> DEFINE h == Head(k)
               S == L[k]
    <3>a. /\ IsList(nx, h, S) /\ IsBack(nx, pv, h, S) /\ h \notin Units /\ a \in S /\ p \in S \cup {h}
          /\ \A n \in (S \cup {h}) \ {p, a} : ny[n] = nx[n]
          /\ \A n \in (S \cup {h}) \ {a, nx[a]} : qv[n] = pv[n]
      BY <1>1, <1>2, <3>2
    <3> HIDE DEF h, S
    <3>b. IsList(ny, h, S \ {a})
      BY <3>a, ListWithout
    <3>c. IsBack(ny, qv, h, S \ {a})
      BY <3>a, BackWithout
    <3>3. IsList(ny, Head(k), L[k] \ {a})
      BY <3>b DEF h, S
    <3>4. IsBack(ny, qv, Head(k), L[k] \ {a})
      BY <3>c DEF h, S
    <3>5. QED
      BY <2>1, <3>1, <3>3, <3>4
  <2>2. CASE j # k
    <3>1. M[j] = L[j] /\ L[j] \cap L[k] = {} /\ Head(j) # Head(k)
      BY <2>2, NodeFacts DEF ListSets, Disjoint
    <3>2. Head(j) \notin L[k] /\ Head(k) \notin L[j]
      BY NodeFacts DEF ListSets
    <3>3. \A n \in L[j] \cup {Head(j)} : n \notin L[k] \cup {Head(k)} /\ n \in Nodes
      BY <1>1, <3>1, <3>2
    <3>4. \A n \in L[j] \cup {Head(j)} : n # p /\ n # a /\ n # nx[a] /\ n \in Nodes
      BY <1>2, <3>3
    <3>5. \A n \in L[j] \cup {Head(j)} : ny[n] = nx[n] /\ qv[n] = pv[n]
      BY <3>4
    <3>6. \A n \in L[j] \cup {Head(j)} : nx[n] \in L[j] \cup {Head(j)}
      BY <1>1 DEF IsList
    <3>7. IsList(ny, Head(j), L[j])
      BY <1>1, <3>5, ListFrame
    <3>8. IsBack(ny, qv, Head(j), L[j])
      BY <1>1, <3>5, <3>6 DEF IsBack
    <3>9. QED
      BY <3>1, <3>7, <3>8
  <2>3. QED
    BY <2>1, <2>2
<1>4. QED
  BY <1>3 DEF AllLists, AllBack

-----------------------------------------------------------------------------
(* The inductive invariant.  It speaks of the lists as sets L of blocks, so   *)
(* that a step can be followed without the walks along them.                  *)

(* The blocks of the program h, and those the call o has taken in hand.       *)
Owned(h) == {Block(b.at, Want(b.size)) : b \in h}
Taken(o, d) ==
  (IF o.old = None THEN {} ELSE {Block(o.old, o.order)})
    \cup (IF o.call = "check" THEN {Block(o.at, d[o.at].order)} ELSE {})
    \cup (IF o.call = "shrink" THEN {Block(o.at, o.order)} ELSE {})
Used(h, o, d) == Owned(h) \cup Taken(o, d)
Loose(o, L) ==
  IF o.call = "free" /\ o.at \notin L[o.order] THEN {Block(o.at, o.order)} ELSE {}
Blocks(L, h, o, d) == Used(h, o, d) \cup Loose(o, L) \cup FreeOf(L)

(* A header as bud_malloc and bud_realloc write it.                           *)
Good(w) == w.rsize \in Sizes /\ Want(w.rsize) = w.order /\ w.padded = Padded(w.rsize, w.order)

FreeMarked(L, d) == \A b \in FreeOf(L) : d[b.at].alloc = 0 /\ d[b.at].order = b.order
UsedMarked(h, o, d) ==
  \A b \in Used(h, o, d) :
    /\ d[b.at].alloc = 1 /\ d[b.at].order = b.order
    /\ Good(d[b.at]) \/ (o.call = "shrink" /\ b.at = o.at)
Apart(h, o) ==
  /\ \A b, c \in h : b.at = c.at => b = c
  /\ \A b \in h : b.at # o.at /\ b.at # o.old
Returning(o, d) == o.call = "free" => d[o.at].alloc = 0 /\ d[o.at].order = o.order

(* Two free buddies: bud_free is about to merge them, or bud_malloc has just  *)
(* split a block into them and takes one of them next.                        *)
Excused(L, o, a, k) ==
  \/ o.call = "free" /\ k = o.order /\ (o.at = a \/ o.at = Buddy(a, k))
  \/ /\ o.call = "malloc" /\ o.want <= k /\ L[k] = {a, Buddy(a, k)}
     /\ \A j \in Orders : o.want <= j /\ j < k => L[j] = {}
Merged(L, o) ==
  \A k \in Orders \ {Top} : \A a \in L[k] : Buddy(a, k) \in L[k] => Excused(L, o, a, k)

SoundIn(L, nx, n, d, h, o) ==
  /\ AllLists(nx, L)
  /\ Tiling(Blocks(L, h, o, d), n)
  /\ FreeMarked(L, d) /\ UsedMarked(h, o, d) /\ Returning(o, d)
  /\ Apart(h, o)
  /\ Merged(L, o)
Sound == SoundIn(Lists, next, brk, hdr, held, op)
Linked == AllBack(next, prev, Lists)

IInv ==
  /\ Typed
  /\ harm # "lists" => Sound
  /\ harm = "none" => Linked /\ status \in {"ok", "null"}

-----------------------------------------------------------------------------
(* What the parts are in terms of Budmm.                                      *)

(* InUse of Budmm, and what bud_free has in hand, are Used and Loose.         *)
LEMMA UsedIs == InUse = Used(held, op, hdr) /\ InUse' = Used(held', op', hdr')
BY DEF InUse, Used, Owned, Taken, Block

LEMMA LooseIs ==
  /\ Typed => Freeing = Loose(op, Lists)
  /\ Typed' => Freeing' = Loose(op', Lists')
<1>1. ASSUME Typed PROVE Freeing = Loose(op, Lists)
  BY <1>1, ListsAre, TypedFacts DEF Freeing, Loose, Block
<1>2. ASSUME Typed' PROVE Freeing' = Loose(op', Lists')
  <2>1. op'.order \in Orders
    BY <1>2 DEF Typed, OpOK, Ops
  <2>2. Lists'[op'.order] = Listed(op.order)'
    BY <2>1, ListsAre DEF Lists
  <2>3. QED
    BY <2>2 DEF Freeing, Loose, Block
<1>3. QED
  BY <1>1, <1>2

(* Together with the free blocks they are Blocks.                             *)
LEMMA BlocksAre ==
  /\ Typed => InUse \cup Freeing \cup FreeBlocks = Blocks(Lists, held, op, hdr)
  /\ Typed' => (InUse \cup Freeing \cup FreeBlocks)' = Blocks(Lists', held', op', hdr')
BY UsedIs, LooseIs, ListsAre DEF Blocks

(* A step is sound when it is for some sets of blocks.                        *)
LEMMA SoundAfter ==
  ASSUME NEW L \in ListSets, SoundIn(L, next', brk', hdr', held', op')
  PROVE  Sound' /\ Lists' = L
<1>1. Lists' = L
  BY Relist DEF SoundIn
<1>2. QED
  BY <1>1 DEF Sound

(* What a call has in hand.                                                   *)
LEMMA TakenIs ==
  ASSUME NEW d
  PROVE  /\ Taken(Idle, d) = {}
         /\ \A L : Loose(Idle, L) = {}
         /\ \A o : o.old = None /\ o.call \in {"none", "malloc", "free"} => Taken(o, d) = {}
         /\ \A o : o.old = None /\ o.call = "check" => Taken(o, d) = {Block(o.at, d[o.at].order)}
         /\ \A o : o.old = None /\ o.call = "shrink" => Taken(o, d) = {Block(o.at, o.order)}
         /\ \A o : o.old # None /\ o.call = "malloc" => Taken(o, d) = {Block(o.old, o.order)}
         /\ \A o, L : o.call # "free" => Loose(o, L) = {}
BY DEF Taken, Loose, Idle

(* Where the blocks of a sound state are.                                     *)
Placed(L, n, d, h, o) ==
  /\ Blocks(L, h, o, d) \subseteq BlockSet
  /\ \A b, c \in Blocks(L, h, o, d) : b.at <= c.at /\ c.at < End(b) => b = c
  /\ \A b \in Blocks(L, h, o, d) : At(b.at, b.order) /\ b.at + Size[b.order] <= n
  /\ Disjoint(L)
  /\ \A b \in Used(h, o, d) \cup Loose(o, L) : \A j \in Orders : b.at \notin L[j]
  /\ \A k \in Orders : \A a \in L[k] :
       /\ Block(a, k) \in FreeOf(L) /\ a \in Units
       /\ d[a].alloc = 0 /\ d[a].order = k
  /\ \A b \in h : Block(b.at, Want(b.size)) \in Used(h, o, d)
  /\ \A b, c \in Blocks(L, h, o, d) : b.at = c.at => b = c

(* A sound state has its blocks where Placed says.                            *)
LEMMA SoundFacts ==
  ASSUME NEW L \in ListSets, NEW nx, NEW n \in Nat, NEW d, NEW h, NEW o,
         SoundIn(L, nx, n, d, h, o)
  PROVE  Placed(L, n, d, h, o)
<1> DEFINE Bs == Blocks(L, h, o, d)
<1>1. Tiling(Bs, n) /\ Bs \subseteq BlockSet
  BY DEF SoundIn, Tiling
<1>2. \A b, c \in Bs : b.at = c.at => b = c
  BY <1>1, TileSame
<1>3. \A b, c \in Bs : b.at <= c.at /\ c.at < End(b) => b = c
  BY <1>1, TileAt
<1>4. \A b \in Bs : At(b.at, b.order) /\ b.at + Size[b.order] <= n
  BY <1>1 DEF Tiling, End
<1>5. ASSUME NEW k \in Orders, NEW a \in L[k]
      PROVE  /\ Block(a, k) \in FreeOf(L) /\ Block(a, k) \in Bs /\ a \in Units
             /\ d[a].alloc = 0 /\ d[a].order = k
  <2>1. a \in Units
    BY DEF ListSets
  <2>2. Block(a, k) \in FreeOf(L)
    BY <2>1, FreeOfFacts
  <2>3. d[a].alloc = 0 /\ d[a].order = k
    BY <2>2, BlockFacts DEF SoundIn, FreeMarked
  <2>4. QED
    BY <2>1, <2>2, <2>3 DEF Blocks
<1>6. Disjoint(L)
  BY <1>5 DEF Disjoint
<1>7. ASSUME NEW b \in Used(h, o, d) \cup Loose(o, L), NEW j \in Orders, b.at \in L[j] PROVE FALSE
  <2>1. b \in Bs /\ Block(b.at, j) \in Bs /\ d[b.at].alloc = 0
    BY <1>5, <1>7 DEF Blocks
  <2>2. b = Block(b.at, j)
    BY <1>2, <2>1, BlockFacts
  <2>3. CASE b \in Used(h, o, d)
    BY <2>1, <2>3 DEF SoundIn, UsedMarked
  <2>4. CASE b \in Loose(o, L)
    <3>1. b = Block(o.at, o.order) /\ o.at \notin L[o.order]
      BY <2>4 DEF Loose
    <3>2. b.at = o.at /\ b.order = o.order /\ b.order = j
      BY <2>2, <3>1, BlockFacts
    <3>3. QED
      BY <1>7, <3>1, <3>2
  <2>5. QED
    BY <1>7, <2>3, <2>4
<1>8. \A b \in h : Block(b.at, Want(b.size)) \in Used(h, o, d)
  BY DEF Used, Owned
<1>9. QED
  BY <1>2, <1>1, <1>3, <1>4, <1>5, <1>6, <1>7, <1>8 DEF Placed

(* What is written inside a block in use does not touch the lists.            *)
LEMMA InsideUsed ==
  ASSUME NEW L \in ListSets, NEW nx, NEW n \in Nat, NEW d, NEW h, NEW o,
         SoundIn(L, nx, n, d, h, o),
         NEW b \in Used(h, o, d),
         NEW ny, \A m \in Nodes : ~(b.at <= m /\ m < End(b)) => ny[m] = nx[m]
  PROVE  /\ AllLists(ny, L)
         /\ \A pv, qv : /\ AllBack(nx, pv, L)
                        /\ \A m \in Nodes : ~(b.at <= m /\ m < End(b)) => qv[m] = pv[m]
                        => AllBack(ny, qv, L)
<1> DEFINE Bs == Blocks(L, h, o, d)
<1>9. Placed(L, n, d, h, o)
  BY SoundFacts
<1>0. /\ Bs \subseteq BlockSet
      /\ \A p, c \in Bs : p.at <= c.at /\ c.at < End(p) => p = c
      /\ \A c \in Used(h, o, d) \cup Loose(o, L) : \A j \in Orders : c.at \notin L[j]
      /\ \A k \in Orders : \A a \in L[k] : Block(a, k) \in FreeOf(L) /\ a \in Units
  BY <1>9 DEF Placed
<1>1. b \in Bs /\ b \in BlockSet /\ b.at \in Nat /\ End(b) \in Nat
  BY <1>0, BlockFacts DEF Blocks
<1>2. ASSUME NEW k \in Orders, NEW m \in L[k] \cup {Head(k)} PROVE m \in Nodes /\ ~(b.at <= m /\ m < End(b))
  <2>1. CASE m = Head(k)
    BY <1>1, <2>1, NodeFacts, OrdersAreNumbers DEF Head
  <2>2. CASE m \in L[k]
    <3>1. Block(m, k) \in FreeOf(L) /\ m \in Units
      BY <1>0, <2>2
    <3>2. Block(m, k) \in Bs /\ Block(m, k).at = m
      BY <3>1, BlockFacts DEF Blocks
    <3>3. ASSUME b.at <= m, m < End(b) PROVE FALSE
      <4>1. b = Block(m, k)
        BY <1>0, <1>1, <3>2, <3>3
      <4>2. QED
        BY <1>0, <2>2, <3>2, <4>1
    <3>4. QED
      BY <3>1, <3>3, NodeFacts
  <2>3. QED
    BY <2>1, <2>2
<1>3. AllLists(nx, L)
  BY DEF SoundIn
<1>4. ASSUME NEW k \in Orders PROVE IsList(ny, Head(k), L[k])
  <2>1. \A m \in L[k] \cup {Head(k)} : ny[m] = nx[m]
    BY <1>2
  <2>2. IsList(nx, Head(k), L[k])
    BY <1>3 DEF AllLists
  <2>3. QED
    BY <2>1, <2>2, ListFrame
<1>5. ASSUME NEW pv, NEW qv, AllBack(nx, pv, L),
             \A m \in Nodes : ~(b.at <= m /\ m < End(b)) => qv[m] = pv[m],
             NEW k \in Orders
      PROVE  IsBack(ny, qv, Head(k), L[k])
  <2>1. \A m \in L[k] \cup {Head(k)} : ny[m] = nx[m] /\ qv[m] = pv[m] /\ nx[m] \in L[k] \cup {Head(k)}
    BY <1>2, <1>3, <1>5 DEF AllLists, IsList
  <2>2. IsBack(nx, pv, Head(k), L[k])
    BY <1>5 DEF AllBack
  <2>3. QED
    BY <2>1, <2>2 DEF IsBack
<1>6. QED
  BY <1>4, <1>5 DEF AllLists, AllBack

-----------------------------------------------------------------------------
(* What the walks of bud_malloc and bud_free find in a sound state.           *)

(* The same of the variables, with the walks: they see the lists and come back. *)
LEMMA Now ==
  ASSUME Typed, Sound
  PROVE  /\ Lists \in ListSets /\ AllLists(next, Lists)
         /\ Placed(Lists, brk, hdr, held, op)
         /\ \A k \in Orders :
              /\ Listed(k) = Lists[k] /\ WalkEnds(k) = "ok"
              /\ Empty(k) <=> Lists[k] = {}
              /\ \A n \in Lists[k] \cup {Head(k)} : next[n] \in Lists[k] \cup {Head(k)} /\ next[n] \in Nodes
<1>1. Lists \in ListSets /\ AllLists(next, Lists)
  BY ListsAre DEF Sound, SoundIn
<1>2. Placed(Lists, brk, hdr, held, op)
  BY <1>1, TypedFacts, SoundFacts DEF Sound
<1>3. ASSUME NEW k \in Orders
      PROVE  /\ Listed(k) = Lists[k] /\ WalkEnds(k) = "ok"
             /\ Empty(k) <=> Lists[k] = {}
             /\ \A n \in Lists[k] \cup {Head(k)} : next[n] \in Lists[k] \cup {Head(k)} /\ next[n] \in Nodes
  <2>1. IsList(next, Head(k), Lists[k]) /\ Lists[k] \subseteq Nodes /\ Head(k) \in Nodes /\ Head(k) \notin Units
    BY <1>1, NodeFacts DEF AllLists, ListSets
  <2>2. WalkIn(next, k)[Cardinality(Nodes)] = Head(k)
    BY <2>1, WalkOfList
  <2>3. WalkEnds(k) = "ok"
    BY <2>2, WalkIsWalk DEF WalkEnds
  <2>4. Empty(k) <=> Lists[k] = {}
    BY <2>1, EmptyIff DEF Empty
  <2>5. QED
    BY <2>1, <2>3, <2>4, ListsAre DEF IsList
<1>4. QED
  BY <1>1, <1>2, <1>3

(* findLowestAddress unlinks a block of the list and keeps the rest.          *)
LEMMA LowestOut ==
  ASSUME Typed, Sound, Linked, NEW k \in Orders, ~Empty(k)
  PROVE  /\ LowestEnds(k) = "ok" /\ Lowest(k) \in Lists[k]
         /\ AllLists(NextWithoutLowest(k), [Lists EXCEPT ![k] = @ \ {Lowest(k)}])
         /\ AllBack(NextWithoutLowest(k), PrevWithoutLowest(k), [Lists EXCEPT ![k] = @ \ {Lowest(k)}])
<1> DEFINE h == Head(k)
           S == Lists[k]
           low == Lowest(k)
           ny == NextWithoutLowest(k)
           qv == PrevWithoutLowest(k)
<1>1. /\ Lists \in ListSets /\ AllLists(next, Lists) /\ S # {} /\ WalkEnds(k) = "ok" /\ Listed(k) = S
      /\ \A n \in S \cup {h} : next[n] \in S \cup {h} /\ next[n] \in Nodes
      /\ Disjoint(Lists)
  BY Now DEF Placed
<1>2. IsList(next, h, S) /\ IsBack(next, prev, h, S) /\ h \notin Units /\ h \in Nodes /\ S \subseteq Units /\ S \subseteq Nodes
  BY <1>1, NodeFacts DEF AllLists, Linked, AllBack, ListSets
<1>3. next \in [Nodes -> Links] /\ prev \in [Nodes -> Links]
  BY TypedFacts
<1>4. CASE next[h] = prev[h]
  <2>1. S = {next[h]} /\ next[next[h]] = h
    <3> HIDE DEF h, S
    <3>1. QED
      BY <1>1, <1>2, <1>4, ListOfOne
  <2>2. low = next[h] /\ LowestEnds(k) = "ok"
    BY <1>4 DEF Lowest, LowestEnds
  <2>3. ny = [next EXCEPT ![h] = h] /\ qv = [prev EXCEPT ![h] = h]
    BY <1>4 DEF NextWithoutLowest, PrevWithoutLowest
  <2>4. /\ low \in S /\ h \in S \cup {h} /\ next[h] = low /\ ny[h] = next[low] /\ qv[next[low]] = h
        /\ \A n \in Nodes \ {h, low} : ny[n] = next[n]
        /\ \A n \in Nodes \ {low, next[low]} : qv[n] = prev[n]
    BY <1>2, <1>3, <2>1, <2>2, <2>3
  <2> HIDE DEF low, ny, qv
  <2>5. /\ AllLists(ny, [Lists EXCEPT ![k] = @ \ {low}])
        /\ AllBack(ny, qv, [Lists EXCEPT ![k] = @ \ {low}])
    BY <1>1, <2>4, Unlinked DEF Linked
  <2>6. QED
    BY <2>2, <2>4, <2>5 DEF low, ny, qv
<1>5. CASE next[h] # prev[h]
  <2>1. low = Min(S) /\ low \in S
    <3>1. low = Min(S)
      BY <1>1, <1>5 DEF Lowest
    <3>2. S \subseteq Nat
      BY <1>2, NodeFacts
    <3> HIDE DEF S, low
    <3>3. QED
      BY <1>1, <3>1, <3>2, MinOf
  <2> DEFINE p == prev[low]
  <2>2. p \in S \cup {h} /\ next[p] = low
    <3> HIDE DEF S, low, h
    <3>1. QED
      BY <1>2, <2>1, BackOf
  <2>3. LowestEnds(k) = "ok"
    <3>1. {prev[Min(Listed(k))], next[Min(Listed(k))]} \subseteq Nodes
      BY <1>1, <1>2, <2>1, <2>2
    <3>2. QED
      BY <1>1, <1>5, <3>1 DEF LowestEnds
  <2>4. ny = [next EXCEPT ![p] = next[low]] /\ qv = [prev EXCEPT ![next[low]] = p]
    BY <1>5 DEF NextWithoutLowest, PrevWithoutLowest
  <2> HIDE DEF low, ny, qv, p
  <2>5. /\ ny[p] = next[low] /\ qv[next[low]] = p
        /\ \A n \in Nodes \ {p, low} : ny[n] = next[n]
        /\ \A n \in Nodes \ {low, next[low]} : qv[n] = prev[n]
    BY <1>1, <1>2, <1>3, <2>1, <2>2, <2>4
  <2>6. /\ AllLists(ny, [Lists EXCEPT ![k] = @ \ {low}])
        /\ AllBack(ny, qv, [Lists EXCEPT ![k] = @ \ {low}])
    BY <1>1, <2>1, <2>2, <2>5, Unlinked DEF Linked
  <2>7. QED
    BY <2>1, <2>3, <2>6 DEF low, ny, qv
<1>6. QED
  BY <1>4, <1>5

(* The search of bud_free finds the block before the buddy, and unlinks it.   *)
NextWithoutBuddy ==
  IF Single THEN [next EXCEPT ![Head(op.order)] = Head(op.order)]
  ELSE [next EXCEPT ![BeforeBuddy] = next[buddy], ![buddy] = Null]
PrevWithoutBuddy ==
  IF Single THEN [prev EXCEPT ![Head(op.order)] = Head(op.order)]
  ELSE [prev EXCEPT ![next[buddy]] = BeforeBuddy, ![buddy] = Null]

(* bud_free takes the buddy out of its list, when it is not the first there.  *)
LEMMA BuddyOut ==
  ASSUME Typed, Sound, Linked, op.call = "free", buddy \in Lists[op.order], ~BuddyInFront
  PROVE  /\ SearchEnds = "ok" /\ ~Empty(op.order)
         /\ NextWithoutBuddy \in [Nodes -> Links] /\ PrevWithoutBuddy \in [Nodes -> Links]
         /\ AllLists(NextWithoutBuddy, [Lists EXCEPT ![op.order] = @ \ {buddy}])
         /\ AllBack(NextWithoutBuddy, PrevWithoutBuddy, [Lists EXCEPT ![op.order] = @ \ {buddy}])
<1> DEFINE ny == NextWithoutBuddy
           qv == PrevWithoutBuddy
<1> DEFINE k == op.order
           h == Head(k)
           S == Lists[k]
<1>1. /\ Lists \in ListSets /\ AllLists(next, Lists) /\ S # {} /\ Listed(k) = S /\ ~Empty(k)
      /\ \A n \in S \cup {h} : next[n] \in S \cup {h} /\ next[n] \in Nodes
      /\ Disjoint(Lists) /\ k \in Orders
  BY Now, FreeOps DEF Placed
<1>2. /\ IsList(next, h, S) /\ IsBack(next, prev, h, S) /\ h \notin Units /\ h \in Nodes
      /\ S \subseteq Units /\ S \subseteq Nodes
  BY <1>1, NodeFacts DEF AllLists, Linked, AllBack, ListSets
<1>3. next \in [Nodes -> Links] /\ prev \in [Nodes -> Links] /\ Nodes \subseteq Links /\ Null \in Links
  BY TypedFacts, NodeFacts
<1>4. CASE Single
  <2>1. S = {next[h]} /\ next[next[h]] = h
    <3>1. next[h] = prev[h]
      BY <1>4 DEF Single
    <3> HIDE DEF h, S
    <3>2. QED
      BY <1>1, <1>2, <3>1, ListOfOne
  <2>2. SearchEnds = "ok"
    BY <1>4 DEF SearchEnds
  <2>3. /\ ny[h] = next[buddy] /\ qv[next[buddy]] = h /\ next[h] = buddy
        /\ \A n \in Nodes \ {h, buddy} : ny[n] = next[n]
        /\ \A n \in Nodes \ {buddy, next[buddy]} : qv[n] = prev[n]
    BY <1>2, <1>3, <1>4, <2>1 DEF NextWithoutBuddy, PrevWithoutBuddy
  <2>4. ny \in [Nodes -> Links] /\ qv \in [Nodes -> Links]
    BY <1>2, <1>3, <1>4 DEF NextWithoutBuddy, PrevWithoutBuddy
  <2>5. /\ AllLists(ny, [Lists EXCEPT ![k] = @ \ {buddy}])
        /\ AllBack(ny, qv, [Lists EXCEPT ![k] = @ \ {buddy}])
    <3>1. buddy \in Lists[k] /\ AllBack(next, prev, Lists) /\ Head(k) \in Lists[k] \cup {Head(k)}
      BY DEF Linked
    <3>2. /\ ny[Head(k)] = next[buddy] /\ qv[next[buddy]] = Head(k) /\ next[Head(k)] = buddy
          /\ \A n \in Nodes \ {Head(k), buddy} : ny[n] = next[n]
      BY <2>3
    <3>3. Lists \in ListSets /\ AllLists(next, Lists) /\ Disjoint(Lists) /\ k \in Orders
      BY <1>1
    <3> HIDE DEF k, h, S, ny, qv
    <3>4. QED
      BY <2>3, <3>1, <3>2, <3>3, Unlinked
  <2>6. QED
    BY <1>1, <2>2, <2>4, <2>5 DEF k
<1>5. CASE ~Single
  <2> DEFINE p == BeforeBuddy
             T == {j \in DOMAIN Walk(k) : Walk(k)[j] = buddy}
             i == Min(T)
  <2>1. /\ Walk(k) = WalkIn(next, k) /\ DOMAIN Walk(k) = Steps /\ Steps \subseteq Nat
        /\ Walk(k)[0] = next[h]
        /\ \A j \in Steps : j # 0 /\ Walk(k)[j] \in S
             => j - 1 \in Steps /\ Walk(k)[j - 1] \in S /\ next[Walk(k)[j - 1]] = Walk(k)[j]
    BY <1>1, <1>2, WalkSteps, WalkIsWalk, WalkOfList
  <2>2. T # {} /\ T \subseteq Nat
    <3>1. buddy \in {Walk(k)[n] : n \in DOMAIN Walk(k)}
      BY <1>1 DEF Listed
    <3>2. QED
      BY <2>1, <3>1
  <2>3. i \in T
    <3> HIDE DEF T
    <3>1. QED
      BY <2>2, MinOf
  <2>4. i \in Steps /\ Walk(k)[i] = buddy
    BY <2>1, <2>3
  <2>5. p = IF i = 0 THEN prev[Head(op.order)] ELSE Walk(op.order)[i - 1]
    BY DEF BeforeBuddy
  <2> HIDE DEF i, T, p
  <2>6. i # 0
    BY <1>5, <2>1, <2>4 DEF BuddyInFront
  <2>7. p \in S /\ next[p] = buddy
    BY <2>1, <2>4, <2>5, <2>6
  <2>8. SearchEnds = "ok"
    <3>1. {BeforeBuddy, next[buddy]} \subseteq Nodes
      BY <1>1, <1>2, <2>7 DEF p
    <3>2. QED
      BY <1>1, <1>5, <3>1 DEF SearchEnds
  <2>9. p # buddy /\ next[buddy] # buddy /\ p \in Nodes /\ buddy \in Nodes /\ next[buddy] \in Nodes
    <3>1. next[buddy] # buddy
      <4> HIDE DEF S, h, k
      <4>1. buddy \in S
        BY DEF S, k
      <4>2. QED
        BY <1>2, <4>1, NoSelfLink
    <3>2. QED
      BY <1>1, <1>2, <2>7, <3>1
  <2>10. /\ ny = [next EXCEPT ![p] = next[buddy], ![buddy] = Null]
         /\ qv = [prev EXCEPT ![next[buddy]] = p, ![buddy] = Null]
    BY <1>5 DEF p, NextWithoutBuddy, PrevWithoutBuddy
  <2>11. /\ ny[p] = next[buddy] /\ qv[next[buddy]] = p
         /\ \A n \in Nodes \ {p, buddy} : ny[n] = next[n]
         /\ \A n \in Nodes \ {buddy, next[buddy]} : qv[n] = prev[n]
    BY <1>3, <2>9, <2>10
  <2>12. ny \in [Nodes -> Links] /\ qv \in [Nodes -> Links]
    <3>1. next[buddy] \in Links /\ p \in Links
      BY <1>3, <2>9
    <3>2. [next EXCEPT ![p] = next[buddy], ![buddy] = Null] \in [Nodes -> Links]
      BY <1>3, <2>9, <3>1
    <3>3. [prev EXCEPT ![next[buddy]] = p, ![buddy] = Null] \in [Nodes -> Links]
      BY <1>3, <2>9, <3>1
    <3>4. QED
      BY <2>10, <3>2, <3>3
  <2>13. /\ AllLists(ny, [Lists EXCEPT ![k] = @ \ {buddy}])
         /\ AllBack(ny, qv, [Lists EXCEPT ![k] = @ \ {buddy}])
    <3>1. buddy \in Lists[k] /\ AllBack(next, prev, Lists) /\ p \in Lists[k] \cup {Head(k)}
      BY <2>7 DEF Linked
    <3>2. Lists \in ListSets /\ AllLists(next, Lists) /\ Disjoint(Lists) /\ k \in Orders
      BY <1>1
    <3> HIDE DEF k, h, S, ny, qv
    <3>3. QED
      BY <2>7, <2>11, <3>1, <3>2, Unlinked
  <2>14. QED
    BY <1>1, <2>8, <2>12, <2>13 DEF k
<1>6. QED
  BY <1>4, <1>5

-----------------------------------------------------------------------------
(* Every step keeps the invariant as long as it harms no list.  First the     *)
(* steps of the program between the calls.                                    *)

(* What is kept: IInv while no list is harmed.                                *)
Whole ==
  /\ Typed /\ Sound
  /\ harm = "none" => Linked /\ status \in {"ok", "null"}

(* To show a step sound it is enough to name the lists after it.              *)
LEMMA WholeAfter ==
  ASSUME Typed', NEW L \in ListSets, SoundIn(L, next', brk', hdr', held', op'),
         harm' = "none" => AllBack(next', prev', L) /\ status' \in {"ok", "null"}
  PROVE  Whole'
<1>1. Sound' /\ Lists' = L
  BY SoundAfter
<1>2. QED
  BY <1>1 DEF Whole, Linked

(* A step that may harm the lists and did not.                                *)
LEMMA HarmFacts ==
  ASSUME NEW p \in BOOLEAN, NEW l \in BOOLEAN, Harm(p, l), harm' # "lists"
  PROVE  harm = "none" /\ ~l /\ (harm' = "none" => ~p)
BY DEF Harm

(* Headers as the allocator writes them pass the tests of bud_free.           *)
LEMMA GoodHeader ==
  ASSUME NEW w \in Headers, w.alloc = 1, Good(w)
  PROVE  ~HeaderBad(w) /\ w.order \in Orders /\ Want(w.rsize) = w.order
<1>1. w.rsize \in Sizes /\ Want(w.rsize) = w.order /\ w.padded = Padded(w.rsize, w.order)
  BY DEF Good
<1>2. w.order \in Orders /\ w.rsize + 1 <= Words(w.order) /\ w.rsize \in Nat /\ Words(w.order) \in Nat
  BY <1>1, SizesAreNumbers
<1>3. w.padded = IF w.rsize + 1 < Words(w.order) THEN 1 ELSE 0
  BY <1>1 DEF Padded
<1>4. QED
  BY <1>1, <1>2, <1>3 DEF HeaderBad

(* No list has two buddies.                                                   *)
NoPair(L) == \A k \in Orders \ {Top} : \A a \in L[k] : Buddy(a, k) \notin L[k]

(* Between calls.                                                             *)
LEMMA IdleFacts ==
  ASSUME Typed, Sound, op = Idle
  PROVE  /\ Used(held, op, hdr) = Owned(held) /\ Loose(op, Lists) = {}
         /\ \A b \in held :
              /\ b.at \in Units /\ b.size \in Sizes /\ Want(b.size) \in Orders
              /\ Block(b.at, Want(b.size)) \in Owned(held)
              /\ hdr[b.at].alloc = 1 /\ hdr[b.at].order = Want(b.size)
              /\ Good(hdr[b.at]) /\ ~HeaderBad(hdr[b.at])
              /\ Want(hdr[b.at].rsize) = hdr[b.at].order
         /\ \A b \in Owned(held) : /\ hdr[b.at].alloc = 1 /\ hdr[b.at].order = b.order
                                   /\ Good(hdr[b.at])
         /\ NoPair(Lists)
         /\ Idle.call = "none" /\ Idle.old = None /\ Idle.at = None
<1>1. Used(held, op, hdr) = Owned(held) /\ Loose(op, Lists) = {}
  BY TakenIs DEF Used
<1>2. Idle.call = "none" /\ Idle.old = None /\ Idle.at = None
  BY DEF Idle
<1>3. \A b \in Owned(held) : hdr[b.at].alloc = 1 /\ hdr[b.at].order = b.order /\ Good(hdr[b.at])
  BY <1>1, <1>2 DEF Sound, SoundIn, UsedMarked
<1>4. ASSUME NEW b \in held
      PROVE  /\ b.at \in Units /\ b.size \in Sizes /\ Want(b.size) \in Orders
             /\ Block(b.at, Want(b.size)) \in Owned(held)
             /\ hdr[b.at].alloc = 1 /\ hdr[b.at].order = Want(b.size)
             /\ Good(hdr[b.at]) /\ ~HeaderBad(hdr[b.at])
             /\ Want(hdr[b.at].rsize) = hdr[b.at].order
  <2>1. b.at \in Units /\ b.size \in Sizes /\ Want(b.size) \in Orders
    BY HeldTypes, SizesAreNumbers
  <2>2. Block(b.at, Want(b.size)) \in Owned(held)
    BY DEF Owned
  <2>3. hdr[b.at].alloc = 1 /\ hdr[b.at].order = Want(b.size) /\ Good(hdr[b.at])
    BY <1>3, <2>2, BlockFacts
  <2>4. hdr[b.at] \in Headers
    BY <2>1, TypedFacts
  <2>5. QED
    BY <2>1, <2>2, <2>3, <2>4, GoodHeader
<1>5. NoPair(Lists)
  BY <1>2 DEF Sound, SoundIn, Merged, Excused, NoPair
<1>6. QED
  BY <1>1, <1>2, <1>3, <1>4, <1>5

(* Without two free buddies nothing is left to merge.                         *)
LEMMA NoPairMerged == \A L, o : NoPair(L) => Merged(L, o)
BY DEF NoPair, Merged

(* Stopping changes nothing else.                                             *)
LEMMA StopWhole ==
  ASSUME Whole, NEW how \in {"abort", "hang", "wild", "null"}, Stop(how),
         how = "null" \/ harm # "none"
  PROVE  Whole'
<1>1. Typed'
  BY StopTypes DEF Whole
<1>2. UNCHANGED <<hdr, next, prev, brk, held, op, calls, harm>> /\ status' = how
  BY DEF Stop, heap
<1>3. Lists \in ListSets /\ SoundIn(Lists, next', brk', hdr', held', op')
  BY <1>2, ListsAre DEF Whole, Sound
<1>4. harm' = "none" => AllBack(next', prev', Lists) /\ status' \in {"ok", "null"}
  BY <1>2 DEF Whole, Linked
<1>5. QED
  BY <1>1, <1>3, <1>4, WholeAfter

(* The calls start.                                                           *)
LEMMA StartMallocWhole ==
  ASSUME Whole, NEW r \in Sizes, StartMalloc(r), status = "ok"
  PROVE  Whole'
<1>1. /\ op = Idle /\ UNCHANGED <<hdr, next, prev, brk, held, status, harm>>
      /\ op'.call = "malloc" /\ op'.old = None /\ op'.at = None
  BY DEF StartMalloc, heap, Idle
<1>2. Typed' /\ Typed /\ Sound
  BY StartMallocTypes DEF Whole
<1>3. Used(held', op', hdr') = Owned(held) /\ Loose(op', Lists) = {}
  BY <1>1, TakenIs DEF Used
<1>4. Lists \in ListSets
  BY ListsAre
<1>5. Blocks(Lists, held', op', hdr') = Blocks(Lists, held, op, hdr)
  BY <1>1, <1>2, <1>3, IdleFacts DEF Blocks
<1>6. UsedMarked(held', op', hdr')
  BY <1>1, <1>2, <1>3, IdleFacts DEF UsedMarked
<1>7. Apart(held', op')
  BY <1>1, <1>2, IdleFacts DEF Sound, SoundIn, Apart
<1>8. Merged(Lists, op')
  BY <1>1, <1>2, IdleFacts, NoPairMerged
<1>9. SoundIn(Lists, next', brk', hdr', held', op')
  BY <1>1, <1>2, <1>5, <1>6, <1>7, <1>8 DEF Sound, SoundIn, Returning
<1>10. harm' = "none" => AllBack(next', prev', Lists) /\ status' \in {"ok", "null"}
  BY <1>1 DEF Whole, Linked
<1>11. QED
  BY <1>2, <1>4, <1>9, <1>10, WholeAfter

LEMMA StartFreeWhole ==
  ASSUME Whole, NEW b \in held, StartFree(b), status = "ok"
  PROVE  Whole' /\ Used(held', op', hdr') = Used(held, op, hdr) /\ op'.call = "check"
<1>1. /\ op = Idle /\ UNCHANGED <<hdr, next, prev, brk, status, harm>> /\ held' = held \ {b}
      /\ op'.call = "check" /\ op'.old = None /\ op'.at = b.at
  BY DEF StartFree, heap, Idle
<1>2. Typed' /\ Typed /\ Sound
  BY StartFreeTypes DEF Whole
<1>3. Lists \in ListSets
  BY ListsAre
<1>4. Used(held', op', hdr') = Owned(held) /\ Loose(op', Lists) = {}
  <2>1. Taken(op', hdr') = {Block(b.at, Want(b.size))}
    BY <1>1, <1>2, TakenIs, IdleFacts
  <2>2. Owned(held) = Owned(held') \cup {Block(b.at, Want(b.size))}
    BY <1>1 DEF Owned
  <2>3. QED
    BY <1>1, <2>1, <2>2, TakenIs DEF Used
<1>5. Blocks(Lists, held', op', hdr') = Blocks(Lists, held, op, hdr)
  BY <1>1, <1>2, <1>4, IdleFacts DEF Blocks
<1>6. UsedMarked(held', op', hdr')
  BY <1>1, <1>2, <1>4, IdleFacts DEF UsedMarked
<1>7. Apart(held', op')
  BY <1>1, <1>2, NodeFacts, HeldTypes DEF Sound, SoundIn, Apart
<1>8. Merged(Lists, op')
  BY <1>1, <1>2, IdleFacts, NoPairMerged
<1>9. SoundIn(Lists, next', brk', hdr', held', op')
  BY <1>1, <1>2, <1>5, <1>6, <1>7, <1>8 DEF Sound, SoundIn, Returning
<1>10. harm' = "none" => AllBack(next', prev', Lists) /\ status' \in {"ok", "null"}
  BY <1>1 DEF Whole, Linked
<1>11. QED
  BY <1>1, <1>2, <1>3, <1>4, <1>9, <1>10, WholeAfter, IdleFacts

LEMMA StartReallocWhole ==
  ASSUME Whole, NEW b \in held, NEW r \in Sizes, StartRealloc(b, r), status = "ok"
  PROVE  Whole' /\ Used(held', op', hdr') = Used(held, op, hdr)
<1> DEFINE w == hdr[b.at]
           new == [b EXCEPT !.size = r]
           call == [Idle EXCEPT !.want = Want(r), !.size = r]
           grow == [call EXCEPT !.call = "malloc", !.old = b.at, !.order = w.order]
           cut == [call EXCEPT !.call = "shrink", !.at = b.at, !.order = w.order]
<1>1. Typed' /\ Typed /\ Sound /\ op = Idle
  BY StartReallocTypes DEF Whole, StartRealloc
<1>2. /\ ~HeaderBad(w) /\ Want(w.rsize) = w.order /\ w.order = Want(b.size) /\ w.order \in Orders
      /\ b.at \in Units /\ Want(r) \in Orders
  BY <1>1, IdleFacts, SizesAreNumbers
<1>3. /\ UNCHANGED <<hdr, next, prev, brk, status, harm>>
      /\ held' = (held \ {b}) \cup IF Want(r) = w.order THEN {new} ELSE {}
      /\ op' = CASE Want(r) = w.order -> Idle
                 [] Want(r) > w.order -> grow
                 [] Want(r) < w.order -> cut
  BY <1>2 DEF StartRealloc, heap
<1>4. Lists \in ListSets
  BY ListsAre
<1>5. /\ grow.call = "malloc" /\ grow.old = b.at /\ grow.order = w.order /\ grow.at = None
      /\ cut.call = "shrink" /\ cut.old = None /\ cut.at = b.at /\ cut.order = w.order
      /\ new.at = b.at /\ new.size = r
  <2>1. b = [id |-> b.id, at |-> b.at, size |-> b.size]
    BY <1>1, HeldTypes
  <2>2. QED
    BY <2>1 DEF Idle
<1> HIDE DEF w, new, grow, cut
<1>6. \/ Want(r) = w.order /\ held' = (held \ {b}) \cup {new} /\ op' = Idle
      \/ held' = held \ {b} /\ op' = grow
      \/ held' = held \ {b} /\ op' = cut
  BY <1>2, <1>3, OrdersAreNumbers
<1>7. Owned(held) = Owned(held \ {b}) \cup {Block(b.at, w.order)}
  BY <1>2 DEF Owned
<1>8. b.at # None
  BY <1>2, NodeFacts
<1>9. /\ Used(held', op', hdr') = Owned(held) /\ Loose(op', Lists) = {} /\ Apart(held', op')
      /\ op'.call # "free"
  <2>1. CASE Want(r) = w.order /\ held' = (held \ {b}) \cup {new} /\ op' = Idle
    <3>1. Owned(held') = Owned(held)
      BY <1>5, <1>7, <2>1 DEF Owned
    <3>2. Apart(held', Idle)
      <4>1. Apart(held, Idle)
        BY <1>1 DEF Sound, SoundIn
      <4>2. QED
        BY <1>5, <2>1, <4>1 DEF Apart
    <3>3. QED
      BY <1>1, <2>1, <3>1, <3>2, TakenIs, IdleFacts DEF Used
  <2>2. CASE held' = held \ {b} /\ op' = grow
    <3>1. Taken(op', hdr') = {Block(b.at, w.order)} /\ Loose(op', Lists) = {}
      BY <1>5, <1>8, <2>2, TakenIs, SMTT(30)
    <3>2. Apart(held', op')
      <4>1. Apart(held, Idle)
        BY <1>1 DEF Sound, SoundIn
      <4>2. op'.at = Idle.at /\ op'.old = b.at
        BY <1>1, <1>5, <2>2, IdleFacts
      <4>3. QED
        BY <2>2, <4>1, <4>2 DEF Apart
    <3>3. QED
      BY <1>5, <1>7, <2>2, <3>1, <3>2 DEF Used
  <2>3. CASE held' = held \ {b} /\ op' = cut
    <3>1. Taken(op', hdr') = {Block(b.at, w.order)} /\ Loose(op', Lists) = {}
      BY <1>5, <2>3, TakenIs
    <3>2. Apart(held', op')
      <4>1. Apart(held, Idle)
        BY <1>1 DEF Sound, SoundIn
      <4>2. op'.old = Idle.old /\ op'.at = b.at
        BY <1>1, <1>5, <2>3, IdleFacts
      <4>3. QED
        BY <2>3, <4>1, <4>2 DEF Apart
    <3>3. QED
      BY <1>5, <1>7, <2>3, <3>1, <3>2 DEF Used
  <2>4. QED
    BY <1>6, <2>1, <2>2, <2>3
<1>10. Blocks(Lists, held', op', hdr') = Blocks(Lists, held, op, hdr)
  BY <1>1, <1>9, IdleFacts DEF Blocks
<1>11. UsedMarked(held', op', hdr')
  BY <1>1, <1>3, <1>9, IdleFacts DEF UsedMarked
<1>12. Merged(Lists, op')
  BY <1>1, IdleFacts, NoPairMerged
<1>13. SoundIn(Lists, next', brk', hdr', held', op')
  BY <1>1, <1>3, <1>9, <1>10, <1>11, <1>12 DEF Sound, SoundIn, Returning
<1>14. harm' = "none" => AllBack(next', prev', Lists) /\ status' \in {"ok", "null"}
  BY <1>3 DEF Whole, Linked
<1>15. QED
  BY <1>1, <1>4, <1>9, <1>13, <1>14, WholeAfter, IdleFacts

(* The program writes into its own blocks only, where no list has a link.     *)
LEMMA WriteWhole ==
  ASSUME Whole, NEW b \in held, NEW v \in Fills, Write(b, v), status = "ok"
  PROVE  Whole'
<1> DEFINE k == Want(b.size)
           e == Block(b.at, k)
           inside == (b.at + 1) .. (b.at + Size[k] - 1)
<1>1. Typed' /\ Typed /\ Sound /\ op = Idle /\ UNCHANGED <<brk, held, op, status, harm>>
  BY WriteTypes DEF Whole, Write
<1>2. /\ next' = [n \in Nodes |-> IF n \in inside \cup {b.at} THEN v ELSE next[n]]
      /\ prev' = [n \in Nodes |-> IF n \in inside \cup {b.at} THEN v ELSE prev[n]]
      /\ hdr' = [u \in Units |-> IF u \in inside THEN Filled(v) ELSE hdr[u]]
  BY DEF Write
<1>3. /\ k \in Orders /\ b.at \in Nat /\ Size[k] \in Nat \ {0}
      /\ e \in Used(held, op, hdr) /\ e.at = b.at /\ End(e) = b.at + Size[k] /\ e \in Owned(held)
  BY <1>1, IdleFacts, BlockFacts, NodeFacts, SizeRecursion
<1>4. Lists \in ListSets /\ Placed(Lists, brk, hdr, held, op) /\ brk \in Nat
  BY <1>1, Now, TypedFacts
<1>5. \A m \in Nodes : (m \in inside \cup {b.at}) => (e.at <= m /\ m < End(e))
  BY <1>3, NodeFacts
<1>6. /\ \A m \in Nodes : ~(e.at <= m /\ m < End(e)) => next'[m] = next[m] /\ prev'[m] = prev[m]
      /\ \A u \in Units : ~(e.at < u /\ u < End(e)) => hdr'[u] = hdr[u]
  <2>1. \A u \in Units : u \in inside => e.at < u /\ u < End(e)
    BY <1>3, NodeFacts
  <2>2. QED
    BY <1>2, <1>5, <2>1
<1>7. \A c \in Blocks(Lists, held, op, hdr) : c.at \in Units => hdr'[c.at] = hdr[c.at]
  <2>1. e \in Blocks(Lists, held, op, hdr)
    BY <1>3 DEF Blocks
  <2>2. ASSUME NEW c \in Blocks(Lists, held, op, hdr), e.at < c.at, c.at < End(e) PROVE FALSE
    <3>1. c.at \in Nat /\ e.at \in Nat
      BY <1>3, <1>4, BlockFacts DEF Placed
    <3>2. e = c
      BY <1>4, <2>1, <2>2, <3>1 DEF Placed
    <3>3. QED
      BY <2>2, <3>1, <3>2
  <2>3. QED
    BY <1>6, <2>2
<1>8. Used(held', op', hdr') = Used(held, op, hdr) /\ Used(held, op, hdr) = Owned(held)
  BY <1>1, IdleFacts, TakenIs DEF Used
<1>9. Blocks(Lists, held', op', hdr') = Blocks(Lists, held, op, hdr)
  BY <1>1, <1>8 DEF Blocks
<1>10. UsedMarked(held', op', hdr')
  <2>1. ASSUME NEW c \in Owned(held)
        PROVE  hdr'[c.at].alloc = 1 /\ hdr'[c.at].order = c.order /\ Good(hdr'[c.at])
    <3>1. c.at \in Units /\ c \in Blocks(Lists, held, op, hdr)
      BY <1>1, <1>8, HeldTypes, BlockFacts DEF Owned, Blocks
    <3>2. hdr'[c.at] = hdr[c.at]
      BY <1>7, <3>1
    <3>3. QED
      BY <1>1, <3>2, IdleFacts
  <2>2. QED
    BY <1>1, <1>8, <2>1 DEF UsedMarked
<1>11. FreeMarked(Lists, hdr')
  <2>1. ASSUME NEW c \in FreeOf(Lists) PROVE hdr'[c.at] = hdr[c.at]
    <3>1. c.at \in Units /\ c \in Blocks(Lists, held, op, hdr)
      BY <1>4 DEF FreeOf, ListSets, Blocks, BlockSet
    <3>2. QED
      BY <1>7, <3>1
  <2>2. QED
    BY <1>1, <2>1 DEF Sound, SoundIn, FreeMarked
<1>12. SoundIn(Lists, next, brk, hdr, held, op)
  BY <1>1 DEF Sound
<1> HIDE DEF e
<1>13. /\ AllLists(next', Lists)
       /\ AllBack(next, prev, Lists) => AllBack(next', prev', Lists)
  BY <1>3, <1>4, <1>6, <1>12, InsideUsed
<1>14. Merged(Lists, op')
  BY <1>1, IdleFacts, NoPairMerged
<1>15. SoundIn(Lists, next', brk', hdr', held', op')
  BY <1>1, <1>9, <1>10, <1>11, <1>12, <1>13, <1>14, IdleFacts DEF SoundIn, Returning
<1>16. harm' = "none" => AllBack(next', prev', Lists) /\ status' \in {"ok", "null"}
  BY <1>1, <1>13 DEF Whole, Linked
<1>17. QED
  BY <1>1, <1>4, <1>15, <1>16, WholeAfter

-----------------------------------------------------------------------------
(* The steps of bud_malloc.                                                   *)

(* Every block lies below the break, aligned.                                 *)
LEMMA HeapFacts ==
  ASSUME Typed, Sound
  PROVE  /\ \A c \in Blocks(Lists, held, op, hdr) :
              /\ c \in BlockSet /\ c.at \in Units /\ c.at < brk /\ c.order \in Orders
              /\ c = Block(c.at, c.order)
              /\ At(c.at, c.order) /\ c.at + Size[c.order] <= brk
         /\ \A c \in FreeOf(Lists) : c \in Blocks(Lists, held, op, hdr)
         /\ \A c \in Used(held, op, hdr) : c \in Blocks(Lists, held, op, hdr)
         /\ \A k \in Orders : \A a \in Lists[k] :
              Block(a, k) \in Blocks(Lists, held, op, hdr) /\ Block(a, k) \in FreeOf(Lists)
<1>1. Placed(Lists, brk, hdr, held, op) /\ brk \in Nat /\ brk <= N /\ N \in Nat
  BY Now, TypedFacts, HeapOfPairs, OrdersAreNumbers
<1>2. ASSUME NEW c \in Blocks(Lists, held, op, hdr)
      PROVE  /\ c \in BlockSet /\ c.at \in Units /\ c.at < brk /\ c.order \in Orders
             /\ c = Block(c.at, c.order)
             /\ At(c.at, c.order) /\ c.at + Size[c.order] <= brk
  <2>1. c \in BlockSet /\ At(c.at, c.order) /\ c.at + Size[c.order] <= brk
    BY <1>1 DEF Placed
  <2>2. c.at \in Nat /\ c.order \in Orders /\ c = Block(c.at, c.order) /\ Size[c.order] \in Nat \ {0}
    BY <2>1, BlockFacts, SizeRecursion
  <2>3. QED
    BY <1>1, <2>1, <2>2 DEF Units
<1>3. \A c \in FreeOf(Lists) \cup Used(held, op, hdr) : c \in Blocks(Lists, held, op, hdr)
  BY DEF Blocks
<1>4. \A k \in Orders : \A a \in Lists[k] : Block(a, k) \in FreeOf(Lists)
  BY <1>1 DEF Placed
<1>5. QED
  BY <1>2, <1>3, <1>4

(* While bud_malloc runs nothing is in hand but the block to be replaced.     *)
LEMMA MallocFacts ==
  ASSUME Typed, Sound, op.call = "malloc"
  PROVE  /\ Loose(op, Lists) = {}
         /\ \A d : Taken(op, d) = Taken(op, hdr) /\ Used(held, op, d) = Used(held, op, hdr)
         /\ \A c \in Used(held, op, hdr) : /\ hdr[c.at].alloc = 1 /\ hdr[c.at].order = c.order
                                           /\ Good(hdr[c.at])
         /\ Candidates = {} => \A j \in Orders : op.want <= j => Lists[j] = {}
<1>1. Loose(op, Lists) = {} /\ \A d : Taken(op, d) = Taken(op, hdr)
  BY DEF Loose, Taken
<1>2. \A c \in Used(held, op, hdr) : /\ hdr[c.at].alloc = 1 /\ hdr[c.at].order = c.order
                                     /\ Good(hdr[c.at])
  BY DEF Sound, SoundIn, UsedMarked
<1>3. ASSUME Candidates = {}, NEW j \in Orders, op.want <= j PROVE Lists[j] = {}
  <2>1. j \in op.want .. Top
    BY <1>3, TypedFacts, OrdersAreNumbers
  <2>2. Empty(j)
    BY <1>3, <2>1 DEF Candidates
  <2>3. QED
    BY <2>2, Now
<1>4. QED
  BY <1>1, <1>2, <1>3 DEF Used

(* A new largest block: the lists are empty from the order wanted on.         *)
LEMMA MoreCoreWhole ==
  ASSUME Whole, MoreCore, status = "ok", harm' # "lists"
  PROVE  Whole'
<1>1. Typed' /\ Typed /\ Sound /\ op.call = "malloc" /\ Candidates = {} /\ Lists \in ListSets
  BY MoreCoreTypes, ListsAre DEF Whole, MoreCore
<1>2. CASE Room
  <2> DEFINE h == Head(Top)
             L == [Lists EXCEPT ![Top] = @ \cup {brk}]
             new == Block(brk, Top)
  <2>1. /\ brk' = brk + Size[Top]
        /\ hdr' = [hdr EXCEPT ![brk] = Free(@, Top)]
        /\ next' = [next EXCEPT ![h] = brk, ![brk] = h]
        /\ prev' = [prev EXCEPT ![h] = brk, ![brk] = h]
        /\ Harm(FALSE, FALSE) /\ UNCHANGED <<held, op, status, calls>>
    BY <1>2 DEF MoreCore
  <2>2. /\ harm = "none" /\ Linked /\ Top \in Orders /\ op.want \in Orders
        /\ Lists[Top] = {} /\ Empty(Top)
    <3>1. harm = "none"
      BY <1>1, <2>1, HarmFacts
    <3>2. Top \in Orders /\ op.want \in Orders /\ op.want <= Top
      BY <1>1, OrdersAreNumbers, TypedFacts
    <3>3. Lists[Top] = {}
      BY <1>1, <3>2, MallocFacts
    <3>4. QED
      BY <1>1, <3>1, <3>2, <3>3, Now DEF Whole
  <2>3. brk \in Units /\ brk \in Nodes /\ h \in Nodes /\ h \notin Units /\ next[h] = h
    BY <1>1, <1>2, <2>2, BrkRoom, NodeFacts DEF Empty
  <2>4. \A c \in Blocks(Lists, held, op, hdr) : c.at # brk /\ c.at \in Units
    BY <1>1, HeapFacts, TypedFacts, NodeFacts
  <2>5. \A j \in Orders : brk \notin Lists[j]
    <3>1. ASSUME NEW j \in Orders, brk \in Lists[j] PROVE FALSE
      <4>1. Block(brk, j) \in Blocks(Lists, held, op, hdr)
        BY <1>1, <3>1, HeapFacts
      <4>2. QED
        BY <2>4, <4>1, BlockFacts
    <3>2. QED
      BY <3>1
  <2>6. next \in [Nodes -> Links] /\ prev \in [Nodes -> Links] /\ hdr \in [Units -> Headers]
    BY <1>1, TypedFacts
  <2>7. PutFirst(next, prev, brk, Top, TRUE, TRUE)
    <3>1. next' = [next EXCEPT ![brk] = next[h], ![h] = brk]
      BY <2>1, <2>3, <2>6
    <3>2. prev' = [prev EXCEPT ![h] = brk, ![brk] = h]
      BY <2>1
    <3>3. QED
      BY <2>3, <3>1, <3>2 DEF PutFirst
  <2>8. AllLists(next, Lists) /\ AllBack(next, prev, Lists) /\ Disjoint(Lists)
    BY <1>1, <2>2, Now DEF Linked, Placed
  <2>9. AllLists(next', L) /\ AllBack(next', prev', L)
    <3>1. TRUE \in BOOLEAN
      OBVIOUS
    <3>2. QED
      BY <1>1, <2>2, <2>3, <2>5, <2>6, <2>7, <2>8, PutFirstLists
  <2>10. L \in ListSets /\ FreeOf(L) = FreeOf(Lists) \cup {new}
    BY <1>1, <2>2, <2>3, FreeOfFacts
  <2>11. Used(held', op', hdr') = Used(held, op, hdr) /\ Loose(op', L) = {} /\ Loose(op, Lists) = {}
    BY <1>1, <2>1, MallocFacts, TakenIs
  <2>12. Blocks(L, held', op', hdr') = Blocks(Lists, held, op, hdr) \cup {new}
    BY <2>10, <2>11 DEF Blocks
  <2>13. Tiling(Blocks(L, held', op', hdr'), brk')
    <3>1. Tiling(Blocks(Lists, held, op, hdr), brk)
      BY <1>1 DEF Sound, SoundIn
    <3>2. brk \in Nat /\ At(brk, Top)
      BY <1>1, TypedFacts
    <3> HIDE DEF L
    <3>3. QED
      BY <2>1, <2>2, <2>12, <3>1, <3>2, TileAdd, ZenonT(30)
  <2>14. \A c \in Blocks(Lists, held, op, hdr) : hdr'[c.at] = hdr[c.at]
    BY <2>1, <2>3, <2>4, <2>6
  <2>15. FreeMarked(L, hdr')
    <3>1. hdr'[brk] = Free(hdr[brk], Top) /\ hdr[brk] \in Headers
      BY <2>1, <2>3, <2>6
    <3>2. hdr'[brk].alloc = 0 /\ hdr'[brk].order = Top
      BY <2>2, <3>1, HeaderTypes
    <3>3. FreeMarked(Lists, hdr')
      BY <1>1, <2>14, HeapFacts DEF Sound, SoundIn, FreeMarked
    <3>4. QED
      <4>1. new.at = brk /\ new.order = Top /\ FreeOf(L) = FreeOf(Lists) \cup {new}
        BY <2>10, BlockFacts
      <4> HIDE DEF L, new
      <4>2. QED
        BY <3>2, <3>3, <4>1 DEF FreeMarked
  <2>16. UsedMarked(held', op', hdr')
    <3>1. \A c \in Used(held, op, hdr) : hdr'[c.at] = hdr[c.at]
      BY <1>1, <2>14, HeapFacts
    <3>2. QED
      BY <1>1, <2>11, <3>1, MallocFacts DEF UsedMarked
  <2>17. Merged(L, op')
    <3>1. \A j \in Orders \ {Top} : L[j] = Lists[j]
      BY <2>10 DEF ListSets
    <3>2. ASSUME NEW k \in Orders \ {Top}, NEW a \in L[k], Buddy(a, k) \in L[k]
          PROVE  Excused(L, op', a, k)
      <4>1. Excused(Lists, op, a, k)
        BY <1>1, <3>1, <3>2 DEF Sound, SoundIn, Merged
      <4>2. L[k] = {a, Buddy(a, k)} /\ op.want <= k /\ \A j \in Orders : op.want <= j /\ j < k => Lists[j] = {}
        BY <1>1, <3>1, <4>1 DEF Excused
      <4>3. \A j \in Orders : j < k => j # Top
        BY OrdersAreNumbers
      <4>4. \A j \in Orders : op.want <= j /\ j < k => L[j] = {}
        BY <3>1, <4>2, <4>3
      <4>5. QED
        BY <1>1, <2>1, <4>2, <4>4 DEF Excused
    <3>3. QED
      BY <3>2 DEF Merged
  <2>18. SoundIn(L, next', brk', hdr', held', op')
    BY <1>1, <2>1, <2>9, <2>13, <2>15, <2>16, <2>17 DEF Sound, SoundIn, Returning, Apart
  <2> HIDE DEF L
  <2>19. QED
    BY <1>1, <2>1, <2>9, <2>10, <2>18, WholeAfter
<1>3. CASE ~Room /\ op.old # None
  BY <1>3, StopWhole DEF MoreCore
<1>4. CASE ~Room /\ op.old = None
  <2>1. op' = Idle /\ UNCHANGED <<hdr, next, prev, brk, held, status, harm>>
    BY <1>4 DEF MoreCore, heap
  <2>2. /\ Used(held', op', hdr') = Used(held, op, hdr) /\ Loose(op', Lists) = {}
        /\ Loose(op, Lists) = {}
    BY <1>1, <1>4, <2>1, MallocFacts, TakenIs DEF Used
  <2>3. Blocks(Lists, held', op', hdr') = Blocks(Lists, held, op, hdr)
    BY <2>2 DEF Blocks
  <2>4. UsedMarked(held', op', hdr')
    BY <1>1, <2>1, <2>2, MallocFacts DEF UsedMarked
  <2>5. Apart(held', op')
    <3>1. \A b \in held : b.at # None
      BY <1>1, HeldTypes, NodeFacts
    <3>2. QED
      BY <1>1, <2>1, <3>1 DEF Sound, SoundIn, Apart, Idle
  <2>6. Merged(Lists, op')
    <3>1. ASSUME NEW k \in Orders \ {Top}, NEW a \in Lists[k], Buddy(a, k) \in Lists[k] PROVE FALSE
      <4>1. op.want <= k
        BY <1>1, <3>1 DEF Sound, SoundIn, Merged, Excused
      <4>2. QED
        BY <1>1, <3>1, <4>1, MallocFacts
    <3>2. QED
      BY <3>1 DEF Merged
  <2>7. SoundIn(Lists, next', brk', hdr', held', op')
    BY <1>1, <2>1, <2>3, <2>4, <2>5, <2>6 DEF Sound, SoundIn, Returning, Idle
  <2>8. harm' = "none" => AllBack(next', prev', Lists) /\ status' \in {"ok", "null"}
    BY <2>1 DEF Whole, Linked
  <2>9. QED
    BY <1>1, <2>7, <2>8, WholeAfter
<1>5. QED
  BY <1>2, <1>3, <1>4

(* Of two free buddies one is the block that bud_malloc takes next.           *)
LEMMA OnePair ==
  ASSUME Typed, Sound, op.call = "malloc", Candidates # {},
         NEW k \in Orders \ {Top}, NEW a \in Lists[k], Buddy(a, k) \in Lists[k]
  PROVE  k = Min(Candidates) /\ Lists[k] = {a, Buddy(a, k)}
<1> DEFINE i == Min(Candidates)
<1>1. /\ i \in Orders /\ op.want <= i /\ ~Empty(i)
      /\ \A j \in Orders : op.want <= j /\ j < i => Empty(j)
  BY CandidateFacts
<1>2. Excused(Lists, op, a, k)
  BY DEF Sound, SoundIn, Merged
<1>3. /\ op.want <= k /\ Lists[k] = {a, Buddy(a, k)}
      /\ \A j \in Orders : op.want <= j /\ j < k => Lists[j] = {}
  BY <1>2 DEF Excused
<1>4. \A j \in Orders : Empty(j) <=> Lists[j] = {}
  BY Now
<1>5. ~(k < i) /\ ~(i < k)
  BY <1>1, <1>3, <1>4
<1>6. QED
  BY <1>1, <1>3, <1>5, OrdersAreNumbers

(* The halves of a block are buddies.                                         *)
LEMMA HalvesAreBuddies ==
  ASSUME NEW k \in Orders \ {Top}, NEW a, At(a, k + 1)
  PROVE  Buddy(a, k) = a + Size[k] /\ Buddy(a + Size[k], k) = a
<1>1. k + 1 \in Orders /\ Size[k + 1] = 2 * Size[k] /\ Size[k] \in Nat \ {0} /\ a \in Nat
  BY SizeStep, SizeRecursion DEF At
<1>2. At(a, k)
  BY <1>1, AtSmaller, OrdersAreNumbers
<1> DEFINE b == Buddy(a, k)
<1>3. /\ At(b, k) /\ Buddy(b, k) = a
      /\ \/ b = a + Size[k]
         \/ a = b + Size[k] /\ At(b, k + 1)
  BY <1>2, BuddyPair, ZenonT(30)
<1> HIDE DEF b
<1>4. ASSUME a = b + Size[k], At(b, k + 1) PROVE FALSE
  <2>1. b \in Nat /\ b < a
    BY <1>1, <1>4 DEF At
  <2>2. b + Size[k + 1] <= a
    BY <1>1, <1>4, <2>1, AtApart
  <2>3. QED
    BY <1>1, <1>4, <2>1, <2>2
<1>5. b = a + Size[k]
  BY <1>3, <1>4
<1>6. QED
  BY <1>3, <1>5 DEF b

(* A split puts both halves into the list below, which is empty.              *)
LEMMA SplitWhole ==
  ASSUME Whole, Split, status = "ok", harm' # "lists"
  PROVE  Whole'
<1> DEFINE i == Min(Candidates)
           g == i - 1
           b1 == Lowest(i)
           b2 == b1 + Size[g]
           h == Head(g)
           nx == NextWithoutLowest(i)
           pv == PrevWithoutLowest(i)
           Bs == Blocks(Lists, held, op, hdr)
           L1 == [Lists EXCEPT ![i] = @ \ {b1}]
           L2 == [L1 EXCEPT ![g] = @ \cup {b1}]
           L3 == [L2 EXCEPT ![g] = @ \cup {b2}]
           old == Block(b1, i)
           low == Block(b1, g)
           high == Block(b2, g)
<1>1. Typed' /\ Typed /\ Sound /\ op.call = "malloc" /\ Candidates # {} /\ Lists \in ListSets
  BY SplitTypes, ListsAre DEF Whole, Split
<1>2. /\ i \in Orders /\ g \in Orders \ {Top} /\ i = g + 1 /\ op.want <= g /\ op.want \in Orders
      /\ ~Empty(i) /\ Lists[g] = {} /\ Empty(g) /\ i # g
      /\ \A j \in Orders : op.want <= j /\ j < i => Lists[j] = {}
  <2>1. /\ i \in Orders /\ op.want \in Nat /\ i > op.want /\ op.want \in Orders /\ ~Empty(i)
        /\ \A j \in Orders : op.want <= j /\ j < i => Empty(j)
    BY <1>1, CandidateFacts, TypedFacts, OrdersAreNumbers DEF Split
  <2>2. g \in Orders \ {Top} /\ i = g + 1 /\ op.want <= g /\ g < i
    BY <2>1, OrdersAreNumbers
  <2>3. \A j \in Orders : Empty(j) <=> Lists[j] = {}
    BY <1>1, Now
  <2> HIDE DEF i, g
  <2>4. QED
    BY <2>1, <2>2, <2>3
<1>3. (harm = "none" /\ Linked) \/ harm # "none"
  BY DEF Whole
<1>4. CASE harm # "none"
  <2>1. CASE LowestEnds(i) # "ok"
    BY <1>4, <2>1, EndsTypes, StopWhole DEF Split
  <2>2. CASE LowestEnds(i) = "ok" /\ ~({b1, b2} \subseteq Units)
    BY <1>4, <2>2, StopWhole DEF Split
  <2>3. CASE LowestEnds(i) = "ok" /\ {b1, b2} \subseteq Units
    BY <1>4, <2>3, HarmFacts DEF Split
  <2>4. QED
    BY <2>1, <2>2, <2>3
<1>5. CASE harm = "none" /\ Linked
  <2>1. /\ LowestEnds(i) = "ok" /\ b1 \in Lists[i]
        /\ AllLists(nx, L1) /\ AllBack(nx, pv, L1)
    BY <1>1, <1>2, <1>5, LowestOut
  <2>2. /\ old \in Bs /\ old \in FreeOf(Lists) /\ b1 \in Units
    BY <1>1, <1>2, <2>1, HeapFacts DEF ListSets
  <2>3. Tiling(Bs, brk) /\ brk \in Nat /\ brk <= N /\ N \in Nat
    BY <1>1, TypedFacts, HeapOfPairs, OrdersAreNumbers DEF Sound, SoundIn
  <2>4. /\ Tiling((Bs \ {old}) \cup {low, high}, brk)
        /\ b2 \in Nat /\ b2 + Size[g] <= brk
    <3>1. old = Block(b1, g + 1)
      BY <1>2
    <3>2. /\ Tiling((Bs \ {old}) \cup {low, high}, brk)
          /\ At(b2, g) /\ b2 + Size[g] <= brk
      <4> HIDE DEF Bs, g, b1, i
      <4>1. QED
        BY <1>2, <2>2, <2>3, <3>1, TileSplit
    <3>3. QED
      BY <3>2 DEF At
  <2>5. Size[g] \in Nat \ {0} /\ Size[i] = Size[g] + Size[g]
    BY <1>2, SizeStep, SizeRecursion
  <2>6. b2 \in Units /\ b2 # b1 /\ b1 < b2 /\ b2 < b1 + Size[i] /\ b1 \in Nat
    <3>1. b1 \in Nat
      BY <2>2, NodeFacts
    <3> HIDE DEF b1, g, i
    <3>2. QED
      BY <2>3, <2>4, <2>5, <3>1 DEF Units
  <2>7. /\ hdr' = [hdr EXCEPT ![b1] = Free(@, g), ![b2] = Free(@, g)]
        /\ next' = [nx EXCEPT ![b1] = nx[h], ![b2] = b1, ![h] = b2]
        /\ prev' = IF nx[h] = h THEN [pv EXCEPT ![b1] = b2, ![b2] = h, ![h] = b1]
                   ELSE [pv EXCEPT ![b1] = b2, ![b2] = h]
        /\ Harm(FALSE, FALSE)
        /\ UNCHANGED <<brk, held, op, status, calls>>
    BY <2>1, <2>2, <2>6 DEF Split
  <2>8. nx \in [Nodes -> Links] /\ pv \in [Nodes -> Links] /\ hdr \in [Units -> Headers]
    BY <1>1, <1>2, <2>1, LowestTypes, TypedFacts
  (* No block begins at b2, and none but the one that is split at b1.        *)
  <2>9. \A c \in Bs : c.at # b2 /\ (c.at = b1 => c = old)
    <3>1. \A c \in Bs : c.at \in Nat
      BY <1>1, HeapFacts, NodeFacts
    <3>2. Placed(Lists, brk, hdr, held, op)
      BY <1>1, Now
    <3>3. old.at = b1 /\ End(old) = b1 + Size[i]
      BY BlockFacts
    <3>4. \A c \in Bs : old.at <= c.at /\ c.at < End(old) => old = c
      BY <2>2, <3>2 DEF Placed
    <3> HIDE DEF Bs, old, b1, b2, i, g
    <3>5. QED
      BY <2>5, <2>6, <3>1, <3>3, <3>4
  <2>10. \A j \in Orders : /\ b1 \notin L1[j]
                           /\ b2 \notin L2[j]
    <3>1. \A j \in Orders : \A a \in Lists[j] : a # b2 /\ (a = b1 => j = i)
      <4>1. \A j \in Orders : \A a \in Lists[j] : Block(a, j) \in Bs
        BY <1>1, HeapFacts
      <4>2. \A j \in Orders : \A a \in Lists[j] : a # b2 /\ (a = b1 => Block(a, j) = old)
        BY <2>9, <4>1, BlockFacts
      <4>3. QED
        BY <4>2, BlockFacts
    <3> HIDE DEF i, g, b1, b2
    <3>2. QED
      BY <1>1, <1>2, <2>6, <3>1 DEF ListSets
  <2>11. /\ L1 \in ListSets /\ L2 \in ListSets /\ L3 \in ListSets
         /\ FreeOf(L3) = ((FreeOf(Lists) \ {old}) \cup {low}) \cup {high}
    <3>1. L1 \in ListSets /\ FreeOf(L1) = FreeOf(Lists) \ {old}
      BY <1>1, <1>2, <2>2, FreeOfFacts
    <3> HIDE DEF L1
    <3>2. L2 \in ListSets /\ FreeOf(L2) = FreeOf(L1) \cup {low}
      BY <1>2, <2>2, <3>1, FreeOfFacts
    <3> HIDE DEF L2
    <3>3. L3 \in ListSets /\ FreeOf(L3) = FreeOf(L2) \cup {high}
      <4>1. g \in Orders /\ b2 \in Units
        BY <1>2, <2>6
      <4> HIDE DEF b1, b2, g, i
      <4>2. QED
        BY <3>2, <4>1, FreeOfFacts
    <3>4. QED
      BY <3>1, <3>2, <3>3
  <2>12. /\ \A j \in Orders \ {i, g} : L3[j] = Lists[j]
         /\ L3[i] = Lists[i] \ {b1} /\ L3[g] = {b1, b2} /\ L1[g] = {} /\ Lists[g] = {}
    <3> HIDE DEF b1, b2, i, g
    <3>1. QED
      BY <1>1, <1>2 DEF ListSets
  <2>13. Disjoint(L1) /\ Disjoint(L2)
    <3>1. Disjoint(Lists)
      BY <1>1, Now DEF Placed
    <3>2. Disjoint(L1)
      <4> HIDE DEF b1, i
      <4>1. QED
        BY <1>1, <3>1 DEF Disjoint, ListSets
    <3>3. Disjoint(L2)
      <4> HIDE DEF b1, g, L1
      <4>1. QED
        BY <2>10, <2>11, <3>2 DEF Disjoint, ListSets
    <3>4. QED
      BY <3>2, <3>3
  <2>14. nx[h] = h /\ h \in Nodes /\ h \notin Units /\ b1 \in Nodes /\ b2 \in Nodes
    <3>1. IsList(nx, h, L1[g])
      BY <1>2, <2>1 DEF AllLists
    <3>2. h \in Nodes /\ h \notin Units
      BY <1>2, NodeFacts
    <3>3. IsList(nx, h, {})
      BY <2>12, <3>1
    <3>4. nx[h] = h
      BY <3>2, <3>3, EmptyIff
    <3>5. QED
      BY <2>2, <2>6, <3>2, <3>4, NodeFacts
  <2> DEFINE ny == [nx EXCEPT ![b1] = h, ![h] = b1]
             qv == [pv EXCEPT ![b1] = h, ![h] = b1]
  <2>15. /\ ny[b1] = nx[h] /\ ny[h] = b1 /\ qv[b1] = h /\ qv[nx[h]] = b1
         /\ \A n \in Nodes \ {b1, h} : ny[n] = nx[n]
         /\ \A n \in Nodes \ {b1, nx[h]} : qv[n] = pv[n]
         /\ next'[b2] = ny[h] /\ next'[h] = b2 /\ prev'[b2] = h /\ prev'[ny[h]] = b2
         /\ \A n \in Nodes \ {b2, h} : next'[n] = ny[n]
         /\ \A n \in Nodes \ {b2, ny[h]} : prev'[n] = qv[n]
    <3> HIDE DEF nx, pv, b1, b2, h
    <3>1. /\ ny[b1] = h /\ ny[h] = b1 /\ qv[b1] = h /\ qv[h] = b1
          /\ \A n \in Nodes \ {b1, h} : ny[n] = nx[n] /\ qv[n] = pv[n]
      BY <2>2, <2>8, <2>14
    <3>2. /\ next'[b1] = h /\ next'[b2] = b1 /\ next'[h] = b2
          /\ prev'[b1] = b2 /\ prev'[b2] = h /\ prev'[h] = b1
          /\ \A n \in Nodes \ {b1, b2, h} : next'[n] = nx[n] /\ prev'[n] = pv[n]
      BY <2>2, <2>6, <2>7, <2>8, <2>14
    <3> HIDE DEF ny, qv
    <3>3. QED
      BY <2>2, <2>6, <2>14, <3>1, <3>2
  <2>16. AllLists(ny, L2) /\ AllBack(ny, qv, L2)
    <3>1. /\ g \in Orders /\ b1 \in Units /\ L1 \in ListSets /\ Disjoint(L1)
          /\ AllLists(nx, L1) /\ AllBack(nx, pv, L1) /\ \A j \in Orders : b1 \notin L1[j]
          /\ ny[b1] = nx[Head(g)] /\ ny[Head(g)] = b1 /\ qv[b1] = Head(g) /\ qv[nx[Head(g)]] = b1
          /\ \A n \in Nodes \ {b1, Head(g)} : ny[n] = nx[n]
          /\ \A n \in Nodes \ {b1, nx[Head(g)]} : qv[n] = pv[n]
      BY <1>2, <2>1, <2>2, <2>10, <2>11, <2>13, <2>15
    <3> HIDE DEF nx, pv, b1, g, L1, ny, qv
    <3>2. AllLists(ny, L2)
      BY <3>1, LinkedFirst
    <3>3. AllBack(ny, qv, L2)
      BY <3>1, BackFirst
    <3>4. QED
      BY <3>2, <3>3
  <2>17. AllLists(next', L3) /\ AllBack(next', prev', L3)
    <3>1. /\ g \in Orders /\ b2 \in Units /\ L2 \in ListSets /\ Disjoint(L2)
          /\ AllLists(ny, L2) /\ AllBack(ny, qv, L2) /\ \A j \in Orders : b2 \notin L2[j]
          /\ next'[b2] = ny[Head(g)] /\ next'[Head(g)] = b2
          /\ prev'[b2] = Head(g) /\ prev'[ny[Head(g)]] = b2
          /\ \A n \in Nodes \ {b2, Head(g)} : next'[n] = ny[n]
          /\ \A n \in Nodes \ {b2, ny[Head(g)]} : prev'[n] = qv[n]
      BY <1>2, <2>6, <2>10, <2>11, <2>13, <2>15, <2>16
    <3> HIDE DEF b2, g, L2, ny, qv
    <3>2. AllLists(next', L3)
      BY <3>1, LinkedFirst
    <3>3. AllBack(next', prev', L3)
      BY <3>1, BackFirst
    <3>4. QED
      BY <3>2, <3>3
  <2> HIDE DEF ny, qv, nx, pv, L1, L2, L3
  <2>18. Used(held', op', hdr') = Used(held, op, hdr) /\ Loose(op', L3) = {} /\ Loose(op, Lists) = {}
    BY <1>1, <2>7, MallocFacts, TakenIs
  <2>19. old \notin Used(held, op, hdr)
    <3>1. hdr[b1].alloc = 0 /\ old.at = b1
      BY <1>1, <1>2, <2>1, Now, BlockFacts DEF Placed
    <3>2. QED
      BY <1>1, <3>1, MallocFacts
  <2>20. Blocks(L3, held', op', hdr') = (Bs \ {old}) \cup {low, high}
    BY <2>11, <2>18, <2>19 DEF Blocks
  <2>21. \A c \in Bs \ {old} : hdr'[c.at] = hdr[c.at]
    <3>1. \A c \in Bs : c.at \in Units
      BY <1>1, HeapFacts
    <3> HIDE DEF b1, b2, old, Bs, g
    <3>2. QED
      BY <2>7, <2>8, <2>9, <3>1
  <2>22. /\ hdr'[b1].alloc = 0 /\ hdr'[b1].order = g
         /\ hdr'[b2].alloc = 0 /\ hdr'[b2].order = g
    <3>1. hdr[b1] \in Headers /\ hdr[b2] \in Headers
      BY <2>2, <2>6, <2>8
    <3>2. hdr'[b1] = Free(hdr[b1], g) /\ hdr'[b2] = Free(hdr[b2], g)
      <4> HIDE DEF b1, b2, g
      <4>1. QED
        BY <2>2, <2>6, <2>7, <2>8
    <3>3. g \in Orders
      BY <1>2
    <3> HIDE DEF b1, b2, g
    <3>4. QED
      BY <3>1, <3>2, <3>3, HeaderTypes
  <2>23. FreeMarked(L3, hdr')
    <3>1. \A c \in FreeOf(Lists) : c \in Bs
      BY <1>1, HeapFacts
    <3>2. low.at = b1 /\ low.order = g /\ high.at = b2 /\ high.order = g
      BY BlockFacts
    <3>3. FreeMarked(Lists, hdr)
      BY <1>1 DEF Sound, SoundIn
    <3> HIDE DEF b1, b2, old, low, high, g, Bs
    <3>4. QED
      BY <2>11, <2>21, <2>22, <3>1, <3>2, <3>3 DEF FreeMarked
  <2>24. UsedMarked(held', op', hdr')
    <3>1. \A c \in Used(held, op, hdr) : hdr'[c.at] = hdr[c.at]
      BY <1>1, <2>19, <2>21, HeapFacts
    <3>2. QED
      BY <1>1, <2>18, <3>1, MallocFacts DEF UsedMarked
  <2>25. Buddy(b1, g) = b2 /\ Buddy(b2, g) = b1
    <3>1. At(old.at, old.order)
      BY <1>1, <2>2, HeapFacts
    <3>2. At(b1, g + 1)
      BY <1>2, <3>1, BlockFacts
    <3> HIDE DEF b1, g
    <3>3. QED
      BY <1>2, <3>2, HalvesAreBuddies DEF b2
  <2>26. Merged(L3, op')
    <3>1. ASSUME NEW k \in Orders \ {Top}, NEW a \in L3[k], Buddy(a, k) \in L3[k]
          PROVE  Excused(L3, op', a, k)
      <4>1. CASE k = g
        <5>1. a = b1 \/ a = b2
          BY <2>12, <3>1, <4>1
        <5>2. L3[k] = {a, Buddy(a, k)}
          BY <2>12, <2>25, <4>1, <5>1
        <5>3. \A j \in Orders : op.want <= j /\ j < k => L3[j] = {}
          BY <1>2, <2>12, <4>1, OrdersAreNumbers
        <5>4. QED
          BY <1>1, <1>2, <2>7, <4>1, <5>2, <5>3 DEF Excused
      <4>2. CASE k # g
        <5>1. L3[k] \subseteq Lists[k]
          BY <2>12, <4>2
        <5>2. k = i /\ Lists[k] = {a, Buddy(a, k)}
          BY <1>1, <3>1, <5>1, OnePair
        <5>3. QED
          BY <2>1, <2>12, <3>1, <5>2
      <4>3. QED
        BY <4>1, <4>2
    <3>2. QED
      BY <3>1 DEF Merged
  <2>27. SoundIn(L3, next', brk', hdr', held', op')
    BY <1>1, <2>4, <2>7, <2>17, <2>20, <2>23, <2>24, <2>26 DEF Sound, SoundIn, Returning, Apart
  <2>28. QED
    BY <1>1, <1>5, <2>7, <2>11, <2>17, <2>27, WholeAfter
<1>6. QED
  BY <1>3, <1>4, <1>5

(* Larger orders are larger.                                                  *)
LEMMA SizeLess ==
  ASSUME NEW j \in Orders, NEW k \in Orders, j < k
  PROVE  Size[j] < Size[k]
<1>1. PICK m \in Nat \ {0} : Size[k] = (2 * m) * Size[j]
  BY SizeDivides
<1> DEFINE s == Size[j]
           q == 2 * m - 2
<1>2. s \in Nat \ {0} /\ q \in Nat /\ 2 * m = (q + 1) + 1
  BY SizeRecursion
<1> HIDE DEF s, q
<1>3. (2 * m) * s = q * s + s + s /\ q * s \in Nat
  BY <1>2, TimesNext
<1>4. QED
  BY <1>1, <1>2, <1>3 DEF s

(* A list is kept by a step that changes no link on it.                       *)
LEMMA SameOnLists ==
  ASSUME NEW L \in ListSets, NEW nx, AllLists(nx, L), NEW ny,
         \A k \in Orders : \A m \in L[k] \cup {Head(k)} : ny[m] = nx[m]
  PROVE  /\ AllLists(ny, L)
         /\ \A pv, qv : /\ AllBack(nx, pv, L)
                        /\ \A k \in Orders : \A m \in L[k] \cup {Head(k)} : qv[m] = pv[m]
                        => AllBack(ny, qv, L)
<1>1. ASSUME NEW k \in Orders PROVE IsList(ny, Head(k), L[k])
  BY ListFrame DEF AllLists
<1>2. ASSUME NEW pv, NEW qv, AllBack(nx, pv, L), NEW k \in Orders,
             \A m \in L[k] \cup {Head(k)} : qv[m] = pv[m]
      PROVE  IsBack(ny, qv, Head(k), L[k])
  <2>1. \A m \in L[k] \cup {Head(k)} : nx[m] \in L[k] \cup {Head(k)}
    BY DEF AllLists, IsList
  <2>2. QED
    BY <1>2, <2>1 DEF AllBack, IsBack
<1>3. QED
  BY <1>1, <1>2 DEF AllLists, AllBack

Granted ==
  /\ Lowest(op.want) \in Lists[op.want]
  /\ Used(held', op', hdr') = Used(held, op, hdr) \cup {Block(Lowest(op.want), op.want)}
  /\ op'.call # "malloc"

(* bud_malloc takes the first block of its list, and a growing bud_realloc    *)
(* copies into it, where no list has a link.                                  *)
LEMMA TakeWhole ==
  ASSUME Whole, Take, status = "ok", harm' # "lists"
  PROVE  Whole' /\ (status' = "ok" => Granted)
<1> DEFINE k == op.want
           a == Lowest(k)
           h == [hdr EXCEPT ![a].rsize = op.size, ![a].alloc = 1, ![a].padded = Padded(op.size, k)]
           nx == NextWithoutLowest(k)
           pv == PrevWithoutLowest(k)
           Bs == Blocks(Lists, held, op, hdr)
           L == [Lists EXCEPT ![k] = @ \ {a}]
           e == Block(a, k)
           new == [id |-> calls, at |-> a, size |-> op.size]
<1>1. /\ Typed' /\ Typed /\ Sound /\ op.call = "malloc" /\ Candidates # {} /\ Lists \in ListSets
      /\ Min(Candidates) = k
  BY TakeTypes, ListsAre DEF Whole, Take
<1>2. /\ k \in Orders /\ ~Empty(k) /\ op.at = None /\ op.size \in Sizes /\ k = Want(op.size)
      /\ op.order \in Orders /\ op.old \in Units \cup {None} /\ (op.old # None => op.order < k)
  BY <1>1, CandidateFacts, TypedFacts DEF Typed, OpOK
<1>3. CASE harm # "none"
  <2>1. CASE LowestEnds(k) # "ok"
    <3>1. LowestEnds(k) \in {"hang", "wild"} /\ Stop(LowestEnds(k))
      BY <2>1, EndsTypes DEF Take
    <3>2. status' # "ok"
      BY <3>1 DEF Stop
    <3>3. QED
      BY <1>3, <3>1, <3>2, StopWhole
  <2>2. CASE LowestEnds(k) = "ok" /\ (a \notin Units \/ (op.old # None /\ ~CopyInHeap(a)))
    <3>1. Stop("wild")
      BY <2>2 DEF Take
    <3>2. status' # "ok"
      BY <3>1 DEF Stop
    <3>3. QED
      BY <1>3, <3>1, <3>2, StopWhole
  <2>3. CASE LowestEnds(k) = "ok" /\ ~(a \notin Units \/ (op.old # None /\ ~CopyInHeap(a)))
    <3>1. Harm(FALSE, FALSE)
      BY <2>3 DEF Take
    <3>2. QED
      BY <1>3, <3>1, HarmFacts
  <2>4. QED
    BY <2>1, <2>2, <2>3
<1>4. CASE harm = "none"
  <2>1. /\ LowestEnds(k) = "ok" /\ a \in Lists[k] /\ Linked
        /\ AllLists(nx, L) /\ AllBack(nx, pv, L)
    BY <1>1, <1>2, <1>4, LowestOut DEF Whole
  <2>2. e \in Bs /\ e \in FreeOf(Lists) /\ a \in Units /\ e.at = a /\ e.order = k
    BY <1>1, <1>2, <2>1, HeapFacts, BlockFacts DEF ListSets
  <2>3. Tiling(Bs, brk) /\ brk \in Nat /\ brk <= N /\ N \in Nat
    BY <1>1, TypedFacts, HeapOfPairs, OrdersAreNumbers DEF Sound, SoundIn
  <2>4. /\ Size[k] \in Nat \ {0} /\ a \in Nat /\ a + Size[k] <= N /\ End(e) = a + Size[k]
        /\ Size[op.order] \in Nat \ {0} /\ (op.old # None => Size[op.order] < Size[k])
    <3>1. a + Size[k] <= brk
      BY <1>1, <2>2, HeapFacts
    <3>2. Size[k] \in Nat \ {0} /\ Size[op.order] \in Nat \ {0} /\ a \in Nat
      BY <1>2, <2>2, SizeRecursion, NodeFacts
    <3>3. End(e) = a + Size[k]
      BY BlockFacts
    <3>4. op.old # None => Size[op.order] < Size[k]
      BY <1>2, SizeLess
    <3> HIDE DEF a, k, e
    <3>5. QED
      BY <2>3, <3>1, <3>2, <3>3, <3>4
  <2>5. ASSUME op.old # None
        PROVE  /\ op.old \in Units /\ Block(op.old, op.order) \in Used(held, op, hdr)
               /\ Block(op.old, op.order) \in Bs /\ CopyInHeap(a)
    <3>1. Block(op.old, op.order) \in Used(held, op, hdr)
      BY <1>1, <2>5, TakenIs DEF Used
    <3>2. Block(op.old, op.order) \in Bs
      BY <1>1, <3>1, HeapFacts
    <3>3. op.old \in Units /\ op.old + Size[op.order] <= brk
      BY <1>1, <3>2, HeapFacts, BlockFacts
    <3>4. op.old \in Nat
      BY <3>3, NodeFacts
    <3> HIDE DEF a, k
    <3>5. CopyInHeap(a)
      BY <2>3, <2>4, <2>5, <3>3, <3>4 DEF CopyInHeap
    <3>6. QED
      BY <3>1, <3>2, <3>3, <3>5
  <2>6. /\ held' = held \cup {new}
        /\ IF op.old = None
           THEN hdr' = h /\ next' = nx /\ prev' = pv /\ op' = Idle
           ELSE Copied(nx, pv, h, a) /\ op' = [Idle EXCEPT !.call = "check", !.at = op.old]
        /\ Harm(FALSE, FALSE) /\ UNCHANGED <<brk, status, calls>>
    BY <2>1, <2>2, <2>5 DEF Take
  <2>7. nx \in [Nodes -> Links] /\ pv \in [Nodes -> Links] /\ hdr \in [Units -> Headers]
    BY <1>1, <1>2, <2>1, LowestTypes, TypedFacts
  (* The block taken is the only one that begins in its span.                *)
  <2>8. \A c \in Bs : a <= c.at /\ c.at < a + Size[k] => c = e
    <3>1. Placed(Lists, brk, hdr, held, op)
      BY <1>1, Now
    <3>2. \A c \in Bs : e.at <= c.at /\ c.at < End(e) => e = c
      BY <2>2, <3>1 DEF Placed
    <3> HIDE DEF Bs, e, a, k
    <3>3. QED
      BY <2>2, <2>4, <3>2
  <2>9. /\ L \in ListSets /\ FreeOf(L) = FreeOf(Lists) \ {e}
    <3>1. k \in Orders /\ a \in Units /\ Lists \in ListSets
      BY <1>1, <1>2, <2>2
    <3> HIDE DEF a, k
    <3>2. QED
      BY <3>1, FreeOfFacts
  <2>10. \A j \in Orders : L[j] \subseteq Lists[j] /\ (j = k => a \notin L[j])
    <3> HIDE DEF a, k
    <3>1. QED
      BY <1>1, <1>2 DEF ListSets
  <2>11. \A j \in Orders : \A m \in L[j] \cup {Head(j)} : m \in Nodes /\ ~(a <= m /\ m < a + Size[k])
    <3>1. ASSUME NEW j \in Orders, NEW m \in L[j] PROVE m \in Nodes /\ ~(a <= m /\ m < a + Size[k])
      <4>1. m \in Lists[j] /\ Block(m, j) \in Bs /\ Block(m, j).at = m /\ Block(m, j).order = j
        BY <1>1, <2>10, <3>1, HeapFacts, BlockFacts
      <4>2. m \in Nodes
        BY <1>1, <4>1, NodeFacts DEF ListSets
      <4>3. ASSUME a <= m, m < a + Size[k] PROVE FALSE
        <5>1. Block(m, j) = e
          BY <2>8, <4>1, <4>3
        <5>2. m = a /\ j = k
          BY <2>2, <4>1, <5>1
        <5>3. QED
          BY <2>10, <3>1, <5>2
      <4>4. QED
        BY <4>2, <4>3
    <3>2. ASSUME NEW j \in Orders PROVE Head(j) \in Nodes /\ ~(a <= Head(j))
      <4>1. Head(j) \in Nodes /\ Head(j) = -(j + 1) /\ j \in Nat
        BY NodeFacts, OrdersAreNumbers DEF Head
      <4> HIDE DEF a
      <4>2. QED
        BY <2>4, <4>1
    <3>3. QED
      BY <3>1, <3>2
  <2>12. /\ h[a].alloc = 1 /\ h[a].order = k /\ Good(h[a])
         /\ \A u \in Units \ {a} : h[u] = hdr[u]
    <3>1. hdr[a] \in Headers /\ hdr[a].order = k
      BY <1>1, <1>2, <2>1, <2>2, <2>7, Now DEF Placed
    <3>2. \A u \in Units \ {a} : h[u] = hdr[u]
      <4> HIDE DEF a, k
      <4>1. QED
        BY <2>7
    <3>3. /\ h[a].rsize = op.size /\ h[a].alloc = 1 /\ h[a].order = hdr[a].order
          /\ h[a].padded = Padded(op.size, k)
      <4> HIDE DEF a, k
      <4>1. QED
        BY <2>2, <2>7, <3>1 DEF Headers
    <3>4. Good(h[a])
      <4> HIDE DEF a, h
      <4>1. QED
        BY <1>2, <3>1, <3>3 DEF Good
    <3>5. QED
      BY <3>1, <3>2, <3>3, <3>4
  <2>13. /\ AllLists(next', L) /\ AllBack(next', prev', L)
         /\ hdr'[a] = h[a] /\ \A c \in Bs : c # e => hdr'[c.at] = hdr[c.at]
    <3>1. \A c \in Bs : c # e => c.at \in Units /\ c.at # a /\ ~(a <= c.at /\ c.at < a + Size[k])
      <4>1. \A c \in Bs : c.at \in Units /\ c.at \in Nat
        BY <1>1, HeapFacts, NodeFacts
      <4> HIDE DEF Bs, e, a, k
      <4>2. QED
        BY <2>4, <2>8, <4>1
    <3>2. CASE op.old = None
      BY <2>1, <2>6, <2>12, <3>1, <3>2
    <3>3. CASE op.old # None
      <4> DEFINE size == Size[op.order]
                 from(u) == op.old + (u - a)
                 word(zero) == IF zero THEN Null ELSE Data
      <4>1. /\ next' = [n \in Nodes |-> IF n \in a .. (a + size - 1)
                                        THEN word(h[from(n)] = Filled(Null)) ELSE nx[n]]
            /\ prev' = [n \in Nodes |-> IF n \in a .. (a + size - 1) THEN nx[from(n)] ELSE pv[n]]
            /\ hdr' = [u \in Units |-> IF u \in (a + 1) .. (a + size)
                                       THEN Filled(word(pv[from(u) - 1] = Null)) ELSE h[u]]
        BY <2>6, <3>3 DEF Copied
      <4>2. size \in Nat \ {0} /\ size < Size[k] /\ a \in Nat
        BY <2>4, <3>3
      <4> HIDE DEF from, word, h, a, k, size, nx, pv
      <4>3. \A n \in Nodes : ~(a <= n /\ n < a + Size[k]) => next'[n] = nx[n] /\ prev'[n] = pv[n]
        <5>1. \A n \in Nodes : n \in a .. (a + size - 1) => a <= n /\ n < a + Size[k]
          BY <2>4, <4>2
        <5>2. QED
          BY <4>1, <5>1
      <4>4. \A u \in Units : u = a \/ ~(a <= u /\ u < a + Size[k]) => hdr'[u] = h[u]
        <5>1. \A u \in Units : u \in (a + 1) .. (a + size) => u # a /\ a <= u /\ u < a + Size[k]
          BY <2>4, <4>2
        <5>2. QED
          BY <4>1, <5>1
      <4>5. AllLists(next', L) /\ AllBack(next', prev', L)
        <5> HIDE DEF L
        <5>1. \A j \in Orders : \A m \in L[j] \cup {Head(j)} : next'[m] = nx[m] /\ prev'[m] = pv[m]
          BY <2>11, <4>3
        <5>2. QED
          BY <2>1, <2>9, <5>1, SameOnLists
      <4>6. QED
        BY <2>2, <2>12, <3>1, <4>4, <4>5
    <3>4. QED
      BY <3>2, <3>3
  <2>14. /\ Taken(op', hdr') = Taken(op, hdr) /\ op'.call \in {"none", "check"} /\ op'.old = None
         /\ op'.at = op.old
    <3>1. CASE op.old = None
      <4>1. op' = Idle /\ Idle.call = "none" /\ Idle.old = None /\ Idle.at = None
        BY <2>6, <3>1 DEF Idle
      <4>2. Taken(op', hdr') = {} /\ Taken(op, hdr) = {}
        BY <1>1, <3>1, <4>1, TakenIs
      <4>3. QED
        BY <3>1, <4>1, <4>2
    <3>2. CASE op.old # None
      <4>1. op'.call = "check" /\ op'.at = op.old /\ op'.old = None
        BY <2>6, <3>2 DEF Idle
      <4>2. Taken(op, hdr) = {Block(op.old, op.order)}
        BY <1>1, <3>2, TakenIs
      <4>3. Taken(op', hdr') = {Block(op.old, hdr'[op.old].order)}
        BY <4>1, TakenIs
      <4>4. hdr'[op.old].order = op.order
        <5> DEFINE c == Block(op.old, op.order)
        <5>1. c \in Bs /\ c \in Used(held, op, hdr) /\ c.at = op.old /\ c.order = op.order
          BY <2>5, <3>2, BlockFacts
        <5>2. hdr[c.at].alloc = 1 /\ hdr[c.at].order = c.order
          BY <1>1, <5>1, MallocFacts
        <5>3. c # e
          BY <1>1, <1>2, <2>1, <2>2, <5>2, Now DEF Placed
        <5>4. hdr'[c.at] = hdr[c.at]
          BY <2>13, <5>1, <5>3
        <5>5. QED
          BY <5>1, <5>2, <5>4
      <4>5. QED
        BY <4>1, <4>2, <4>3, <4>4
    <3>3. QED
      BY <3>1, <3>2
  <2>15. Owned(held') = Owned(held) \cup {e}
    <3>1. new.at = a /\ new.size = op.size
      OBVIOUS
    <3> HIDE DEF new
    <3>2. QED
      BY <1>2, <2>6, <3>1 DEF Owned
  <2>16. /\ Used(held', op', hdr') = Used(held, op, hdr) \cup {e}
         /\ Loose(op', L) = {} /\ Loose(op, Lists) = {}
    BY <1>1, <2>14, <2>15, TakenIs DEF Used
  <2>17. Blocks(L, held', op', hdr') = Bs
    <3> HIDE DEF e
    <3>1. QED
      BY <2>2, <2>9, <2>16 DEF Blocks
  <2> HIDE DEF h, nx, pv, L
  <2>18. e \notin Used(held, op, hdr)
    <3>1. hdr[a].alloc = 0
      BY <1>1, <1>2, <2>1, Now DEF Placed
    <3>2. QED
      BY <1>1, <2>2, <3>1, MallocFacts
  <2>19. FreeMarked(L, hdr')
    <3>1. \A c \in FreeOf(L) : c \in Bs /\ c # e /\ c \in FreeOf(Lists)
      BY <1>1, <2>9, HeapFacts
    <3>2. FreeMarked(Lists, hdr)
      BY <1>1 DEF Sound, SoundIn
    <3> HIDE DEF Bs, e
    <3>3. QED
      BY <2>13, <3>1, <3>2 DEF FreeMarked
  <2>20. UsedMarked(held', op', hdr')
    <3>1. \A c \in Used(held, op, hdr) :
            hdr'[c.at].alloc = 1 /\ hdr'[c.at].order = c.order /\ Good(hdr'[c.at])
      <4>1. \A c \in Used(held, op, hdr) : hdr'[c.at] = hdr[c.at]
        BY <1>1, <2>13, <2>18, HeapFacts
      <4>2. QED
        BY <1>1, <4>1, MallocFacts
    <3>2. hdr'[e.at].alloc = 1 /\ hdr'[e.at].order = e.order /\ Good(hdr'[e.at])
      BY <2>2, <2>12, <2>13
    <3>3. QED
      BY <2>16, <3>1, <3>2 DEF UsedMarked
  <2>21. Apart(held', op')
    <3>1. Apart(held, op)
      BY <1>1 DEF Sound, SoundIn
    <3>2. \A b \in held : b.at # a
      <4>1. ASSUME NEW b \in held, b.at = a PROVE FALSE
        <5>1. Block(b.at, Want(b.size)) \in Used(held, op, hdr)
          BY DEF Used, Owned
        <5>2. hdr[b.at].alloc = 1
          BY <1>1, <5>1, MallocFacts, BlockFacts
        <5>3. QED
          BY <1>1, <1>2, <2>1, <4>1, <5>2, Now DEF Placed
      <4>2. QED
        BY <4>1
    <3>3. new.at = a
      OBVIOUS
    <3>4. a # op.old
      <4>1. ASSUME a = op.old PROVE FALSE
        <5>1. op.old # None
          BY <2>2, <4>1, NodeFacts
        <5>2. hdr[op.old].alloc = 1
          BY <1>1, <2>5, <5>1, MallocFacts, BlockFacts
        <5>3. QED
          BY <1>1, <1>2, <2>1, <4>1, <5>2, Now DEF Placed
      <4>2. QED
        BY <4>1
    <3>5. \A b \in held : b.at # None
      BY <1>1, HeldTypes, NodeFacts
    <3>6. a # None
      BY <2>2, NodeFacts
    <3> HIDE DEF new, a
    <3>7. QED
      BY <2>6, <2>14, <3>1, <3>2, <3>3, <3>4, <3>5, <3>6 DEF Apart
  <2>22. Merged(L, op')
    <3>1. ASSUME NEW j \in Orders \ {Top}, NEW m \in L[j], Buddy(m, j) \in L[j] PROVE FALSE
      <4>1. m \in Lists[j] /\ Buddy(m, j) \in Lists[j]
        BY <2>10, <3>1
      <4>2. j = k /\ Lists[j] = {m, Buddy(m, j)}
        BY <1>1, <4>1, OnePair
      <4>3. QED
        BY <2>1, <2>10, <3>1, <4>2
    <3>2. QED
      BY <3>1 DEF Merged
  <2>23. SoundIn(L, next', brk', hdr', held', op')
    BY <1>1, <2>3, <2>6, <2>13, <2>14, <2>17, <2>19, <2>20, <2>21, <2>22 DEF SoundIn, Returning
  <2>24. status' = "ok"
    BY <2>6
  <2>25. Granted
    BY <2>1, <2>14, <2>16 DEF Granted
  <2> HIDE DEF L
  <2>26. QED
    BY <1>1, <2>9, <2>13, <2>23, <2>24, <2>25, WholeAfter
<1>5. QED
  BY <1>3, <1>4

-----------------------------------------------------------------------------
(* The steps of bud_free.                                                     *)

(* bud_free passes its checks: the program's blocks have good headers.        *)
LEMMA CheckFreeWhole ==
  ASSUME Whole, CheckFree, status = "ok", harm' # "lists"
  PROVE  Whole'
<1> DEFINE e == Block(op.at, hdr[op.at].order)
           Bs == Blocks(Lists, held, op, hdr)
<1>1. /\ Typed' /\ Typed /\ Sound /\ op.call = "check" /\ op.old = None /\ op.at \in Units
      /\ Lists \in ListSets
  BY CheckFreeTypes, ListsAre DEF Whole, CheckFree, Typed, OpOK
<1>2. /\ Taken(op, hdr) = {e} /\ e \in Used(held, op, hdr) /\ Loose(op, Lists) = {}
      /\ e.at = op.at /\ e.order = hdr[op.at].order
  BY <1>1, TakenIs, BlockFacts DEF Used
<1>3. \A c \in Used(held, op, hdr) : hdr[c.at].alloc = 1 /\ hdr[c.at].order = c.order /\ Good(hdr[c.at])
  BY <1>1 DEF Sound, SoundIn, UsedMarked
<1>4. hdr[op.at] \in Headers /\ hdr \in [Units -> Headers]
  BY <1>1, TypedFacts
<1>5. ~HeaderBad(hdr[op.at]) /\ hdr[op.at].order \in Orders
  BY <1>2, <1>3, <1>4, GoodHeader
<1>6. /\ hdr' = [hdr EXCEPT ![op.at].alloc = 0]
      /\ op' = [op EXCEPT !.call = "free", !.order = hdr[op.at].order]
      /\ UNCHANGED <<next, prev, brk, held, status, calls, harm>>
  BY <1>5 DEF CheckFree
<1>7. /\ op'.call = "free" /\ op'.order = e.order /\ op'.at = op.at /\ op'.old = None
  <2>1. op \in Ops
    BY <1>1 DEF Typed, OpOK
  <2>2. QED
    BY <1>1, <1>2, <1>6, <2>1 DEF Ops
<1>8. /\ hdr'[op.at].alloc = 0 /\ hdr'[op.at].order = e.order
      /\ \A u \in Units \ {op.at} : hdr'[u] = hdr[u]
  BY <1>1, <1>2, <1>4, <1>6 DEF Headers
<1>9. op.at \notin Lists[e.order]
  BY <1>1, <1>2, <1>5, Now DEF Placed
<1>10. Taken(op', hdr') = {} /\ Loose(op', Lists) = {e}
  <2>1. e = Block(op'.at, op'.order)
    BY <1>2, <1>7
  <2>2. Loose(op', Lists) = {e}
    BY <1>7, <1>9, <2>1 DEF Loose
  <2>3. QED
    BY <1>7, <2>2, TakenIs
<1>11. Blocks(Lists, held', op', hdr') = Bs
  BY <1>2, <1>6, <1>10 DEF Blocks, Used
<1>12. Placed(Lists, brk, hdr, held, op)
  BY <1>1, Now
<1>13. \A c \in Bs : c.at = op.at => c = e
  BY <1>2, <1>12 DEF Placed, Blocks
<1>14. Apart(held, op)
  BY <1>1 DEF Sound, SoundIn
<1>15. FreeMarked(Lists, hdr')
  <2>1. ASSUME NEW c \in FreeOf(Lists) PROVE hdr'[c.at] = hdr[c.at]
    <3>1. c \in Bs /\ c.at \in Units /\ c.order \in Orders /\ c.at \in Lists[c.order]
      BY <1>1, HeapFacts DEF FreeOf
    <3>2. c.at # op.at
      BY <1>2, <1>9, <1>13, <3>1
    <3>3. QED
      BY <1>8, <3>1, <3>2
  <2>2. QED
    BY <1>1, <2>1 DEF Sound, SoundIn, FreeMarked
<1>16. UsedMarked(held', op', hdr')
  <2>1. Used(held', op', hdr') = Owned(held)
    BY <1>6, <1>10 DEF Used
  <2>2. ASSUME NEW c \in Owned(held)
        PROVE  hdr'[c.at].alloc = 1 /\ hdr'[c.at].order = c.order /\ Good(hdr'[c.at])
    <3>1. PICK b \in held : c = Block(b.at, Want(b.size))
      BY DEF Owned
    <3>2. c.at \in Units /\ c.at # op.at
      BY <1>1, <1>14, <3>1, HeldTypes, BlockFacts DEF Apart
    <3>3. hdr'[c.at] = hdr[c.at] /\ c \in Used(held, op, hdr)
      BY <1>8, <3>2 DEF Used
    <3>4. QED
      BY <1>3, <3>3
  <2>3. QED
    BY <2>1, <2>2 DEF UsedMarked
<1>17. Merged(Lists, op')
  BY <1>1 DEF Sound, SoundIn, Merged, Excused
<1>18. Apart(held', op') /\ Returning(op', hdr')
  BY <1>1, <1>6, <1>7, <1>8, <1>14 DEF Apart, Returning
<1>19. SoundIn(Lists, next', brk', hdr', held', op')
  BY <1>1, <1>6, <1>11, <1>15, <1>16, <1>17, <1>18 DEF Sound, SoundIn
<1>20. harm' = "none" => AllBack(next', prev', Lists) /\ status' \in {"ok", "null"}
  BY <1>6 DEF Whole, Linked
<1>21. QED
  BY <1>1, <1>19, <1>20, WholeAfter

(* While bud_free runs its block is in no list, or in the one of its order.   *)
LEMMA FreeFacts ==
  ASSUME Typed, Sound, op.call = "free"
  PROVE  /\ \A o, d : o.old = None /\ o.call \in {"none", "free"} => Used(held, o, d) = Owned(held)
         /\ Used(held, op, hdr) = Owned(held)
         /\ \A c \in Owned(held) : /\ hdr[c.at].alloc = 1 /\ hdr[c.at].order = c.order
                                   /\ Good(hdr[c.at]) /\ c.at # op.at
         /\ Block(op.at, op.order) \in Blocks(Lists, held, op, hdr)
         /\ At(op.at, op.order)
         /\ hdr[op.at].alloc = 0 /\ hdr[op.at].order = op.order
         /\ \A j \in Orders : op.at \in Lists[j] => j = op.order
         /\ op.at \notin Lists[op.order] => Loose(op, Lists) = {Block(op.at, op.order)}
         /\ op.at \in Lists[op.order] => Loose(op, Lists) = {}
         /\ LinkedAlready <=> op.at \in Lists[op.order]
         /\ \A k \in Orders \ {Top} : \A a \in Lists[k] : Buddy(a, k) \in Lists[k]
              => k = op.order /\ (op.at = a \/ op.at = Buddy(a, k))
         /\ \A c \in Blocks(Lists, held, op, hdr) : c.at = op.at => c = Block(op.at, op.order)
<1> DEFINE e == Block(op.at, op.order)
           Bs == Blocks(Lists, held, op, hdr)
<1>1. op.old = None /\ op.order \in Orders /\ op.at \in Units
  BY TypedFacts DEF Typed, OpOK
<1>2. \A o, d : o.old = None /\ o.call \in {"none", "free"} => Used(held, o, d) = Owned(held)
  BY TakenIs DEF Used
<1>3. Used(held, op, hdr) = Owned(held)
  BY <1>1, <1>2
<1>4. /\ op.at \notin Lists[op.order] => Loose(op, Lists) = {e}
      /\ op.at \in Lists[op.order] => Loose(op, Lists) = {}
  BY DEF Loose
<1>5. e \in Bs
  <2>1. CASE op.at \in Lists[op.order]
    BY <1>1, <2>1, HeapFacts
  <2>2. CASE op.at \notin Lists[op.order]
    BY <1>4, <2>2 DEF Blocks
  <2>3. QED
    BY <2>1, <2>2
<1>6. e.at = op.at /\ e.order = op.order
  BY BlockFacts
<1>7. \A c \in Bs : c.at = op.at => c = e
  BY <1>5, <1>6, Now DEF Placed
<1>8. hdr[op.at].alloc = 0 /\ hdr[op.at].order = op.order
  BY DEF Sound, SoundIn, Returning
<1>9. ASSUME NEW c \in Owned(held)
      PROVE  /\ hdr[c.at].alloc = 1 /\ hdr[c.at].order = c.order
             /\ Good(hdr[c.at]) /\ c.at # op.at
  <2>1. c \in Used(held, op, hdr)
    BY <1>3
  <2>2. hdr[c.at].alloc = 1 /\ hdr[c.at].order = c.order /\ Good(hdr[c.at])
    BY <2>1 DEF Sound, SoundIn, UsedMarked
  <2>3. QED
    BY <1>8, <2>2
<1>10. \A j \in Orders : op.at \in Lists[j] => j = op.order
  <2>1. ASSUME NEW j \in Orders, op.at \in Lists[j] PROVE j = op.order
    <3>1. Block(op.at, j) \in Bs /\ Block(op.at, j).at = op.at /\ Block(op.at, j).order = j
      BY <2>1, HeapFacts, BlockFacts
    <3>2. QED
      BY <1>6, <1>7, <3>1
  <2>2. QED
    BY <2>1
<1>11. At(op.at, op.order)
  BY <1>5, <1>6, HeapFacts
<1>12. LinkedAlready <=> op.at \in Lists[op.order]
  BY <1>1, Now DEF LinkedAlready
<1>13. \A k \in Orders \ {Top} : \A a \in Lists[k] : Buddy(a, k) \in Lists[k]
         => k = op.order /\ (op.at = a \/ op.at = Buddy(a, k))
  BY DEF Sound, SoundIn, Merged, Excused
<1>14. QED
  BY <1>2, <1>3, <1>4, <1>5, <1>7, <1>8, <1>9, <1>10, <1>11, <1>12, <1>13

(* The last step of bud_free, when it links the block.                        *)
LEMMA LinkWhole ==
  ASSUME Whole, Typed', op.call = "free", Done, status = "ok",
         op.at \notin Lists[op.order],
         op.order # Top => buddy \notin Lists[op.order],
         NEW back \in BOOLEAN, NEW own \in BOOLEAN,
         PutFirst(next, prev, op.at, op.order, back, own),
         \A u \in Units \ {op.at} : hdr'[u] = hdr[u],
         hdr'[op.at].alloc = 0, hdr'[op.at].order = op.order,
         harm' = "none" => /\ harm = "none"
                           /\ Empty(op.order) \/ (back = TRUE /\ (own = TRUE \/ prev[op.at] = Head(op.order)))
  PROVE  Whole'
<1> DEFINE k == op.order
           L == [Lists EXCEPT ![k] = @ \cup {op.at}]
           e == Block(op.at, k)
           Bs == Blocks(Lists, held, op, hdr)
<1>1. /\ Typed /\ Sound /\ Lists \in ListSets /\ k \in Orders /\ op.at \in Units
      /\ op' = Idle /\ UNCHANGED <<brk, held, status, calls>>
  BY FreeOps, ListsAre DEF Whole, Done
<1>2. /\ \A j \in Orders : op.at \notin Lists[j]
      /\ Loose(op, Lists) = {e} /\ Used(held, op, hdr) = Owned(held)
  BY <1>1, FreeFacts
<1>3. next \in [Nodes -> Links] /\ prev \in [Nodes -> Links]
  BY <1>1, TypedFacts
<1>4. AllLists(next, Lists) /\ Disjoint(Lists)
  BY <1>1, Now DEF Placed
<1>5. /\ AllLists(next', L)
      /\ harm' = "none" => AllBack(next', prev', L)
  <2>1. AllLists(next', L)
    <3> HIDE DEF k
    <3>1. QED
      BY <1>1, <1>2, <1>3, <1>4, PutFirstLists DEF k
  <2>2. ASSUME harm' = "none" PROVE AllBack(next', prev', L)
    <3>1. /\ AllBack(next, prev, Lists)
          /\ next[Head(k)] = Head(k) \/ (back = TRUE /\ (own = TRUE \/ prev[op.at] = Head(k)))
      BY <2>2 DEF Whole, Linked, Empty
    <3>2. /\ /\ AllBack(next, prev, Lists) /\ Disjoint(Lists)
             /\ next[Head(k)] = Head(k) \/ (back = TRUE /\ (own = TRUE \/ prev[op.at] = Head(k)))
          => AllBack(next', prev', L)
      <4> HIDE DEF k
      <4>1. QED
        BY <1>1, <1>2, <1>3, <1>4, PutFirstLists DEF k
    <3>3. QED
      BY <1>4, <3>1, <3>2
  <2>3. QED
    BY <2>1, <2>2
<1>6. /\ L \in ListSets /\ FreeOf(L) = FreeOf(Lists) \cup {e}
  BY <1>1, FreeOfFacts
<1>7. /\ L[k] = Lists[k] \cup {op.at} /\ \A j \in Orders \ {k} : L[j] = Lists[j]
  BY <1>1 DEF ListSets
<1>8. Idle.call = "none" /\ Idle.old = None /\ Idle.at = None
  BY DEF Idle
<1>9. Used(held', op', hdr') = Owned(held) /\ Loose(op', L) = {}
  <2>1. \A o, d : o.old = None /\ o.call \in {"none", "free"} => Used(held, o, d) = Owned(held)
    BY <1>1, FreeFacts
  <2>2. QED
    BY <1>1, <1>8, <2>1, TakenIs
<1> HIDE DEF L
<1>10. Blocks(L, held', op', hdr') = Bs
  BY <1>2, <1>6, <1>9 DEF Blocks
<1>11. FreeMarked(L, hdr')
  <2>1. ASSUME NEW c \in FreeOf(Lists) PROVE hdr'[c.at].alloc = 0 /\ hdr'[c.at].order = c.order
    <3>1. c.at \in Units /\ c.at # op.at
      BY <1>1, <1>2, HeapFacts DEF FreeOf
    <3>2. hdr[c.at].alloc = 0 /\ hdr[c.at].order = c.order
      BY <1>1 DEF Sound, SoundIn, FreeMarked
    <3>3. QED
      BY <3>1, <3>2
  <2>2. e.at = op.at /\ e.order = k
    BY BlockFacts
  <2> HIDE DEF e
  <2>3. QED
    BY <1>6, <2>1, <2>2 DEF FreeMarked
<1>12. UsedMarked(held', op', hdr')
  <2>1. ASSUME NEW c \in Owned(held)
        PROVE  hdr'[c.at].alloc = 1 /\ hdr'[c.at].order = c.order /\ Good(hdr'[c.at])
    <3>1. c \in Bs
      BY <1>2 DEF Blocks
    <3>2. c.at \in Units
      BY <1>1, <3>1, HeapFacts
    <3>3. hdr[c.at].alloc = 1 /\ hdr[c.at].order = c.order /\ Good(hdr[c.at]) /\ c.at # op.at
      BY <1>1, FreeFacts
    <3>4. QED
      BY <3>2, <3>3
  <2>2. QED
    BY <1>9, <2>1 DEF UsedMarked
<1>13. Apart(held', op')
  <2>1. \A b \in held : b.at # None
    BY <1>1, HeldTypes, NodeFacts
  <2>2. QED
    BY <1>1, <1>8, <2>1 DEF Sound, SoundIn, Apart
<1>14. Merged(L, op')
  <2>1. ASSUME NEW j \in Orders \ {Top}, NEW a \in L[j], Buddy(a, j) \in L[j] PROVE FALSE
    <3>1. CASE a \in Lists[j] /\ Buddy(a, j) \in Lists[j]
      BY <1>1, <1>2, <2>1, <3>1, FreeFacts
    <3>2. CASE ~(a \in Lists[j] /\ Buddy(a, j) \in Lists[j])
      <4>1. j = k /\ (a = op.at \/ Buddy(a, j) = op.at)
        BY <1>7, <2>1, <3>2
      <4>2. a \in Lists[k] \cup {op.at} /\ Buddy(a, k) \in Lists[k] \cup {op.at}
        BY <1>7, <2>1, <4>1
      <4>3. At(op.at, k) /\ \A m \in Lists[k] : At(m, k)
        <5>1. \A m \in Lists[k] : Block(m, k) \in Bs
          BY <1>1, HeapFacts
        <5>2. \A m \in Lists[k] : At(m, k)
          BY <1>1, <5>1, HeapFacts, BlockFacts
        <5>3. QED
          BY <1>1, <5>2, FreeFacts
      <4>4. Buddy(a, k) # a /\ Buddy(Buddy(a, k), k) = a
        BY <1>1, <4>2, <4>3, BuddyPair, ZenonT(30)
      <4>5. buddy = Buddy(op.at, k)
        BY DEF buddy
      <4>6. QED
        BY <2>1, <4>1, <4>2, <4>4, <4>5
    <3>3. QED
      BY <3>1, <3>2
  <2>2. QED
    BY <2>1 DEF Merged
<1>15. SoundIn(L, next', brk', hdr', held', op')
  BY <1>1, <1>5, <1>8, <1>10, <1>11, <1>12, <1>13, <1>14 DEF Sound, SoundIn, Returning
<1>16. QED
  BY <1>1, <1>5, <1>6, <1>15, WholeAfter

(* The four ends and the turn of the loop of bud_free.                        *)
LEMMA FreeAloneWhole ==
  ASSUME Whole, FreeAlone, status = "ok", harm' # "lists"
  PROVE  Whole'
<1>1. /\ Typed' /\ Typed /\ Sound /\ op.call = "free" /\ NoBuddy /\ Done
      /\ PutFirst(next, prev, op.at, op.order, FALSE, TRUE)
      /\ Harm(~Empty(op.order), LinkedAlready)
  BY FreeAloneTypes DEF Whole, FreeAlone
<1>2. harm = "none" /\ ~LinkedAlready /\ (harm' = "none" => Empty(op.order))
  BY <1>1 DEF Harm
<1>3. /\ op.order \in Orders /\ op.at \in Units /\ hdr[op.at] \in Headers /\ hdr \in [Units -> Headers]
  BY <1>1, FreeOps, TypedFacts
<1>4. op.at \notin Lists[op.order]
  BY <1>1, <1>2, FreeFacts
<1>5. buddy \notin Lists[op.order]
  BY <1>1, <1>3, Now, NodeFacts DEF NoBuddy
<1>6. /\ \A u \in Units \ {op.at} : hdr'[u] = hdr[u]
      /\ hdr'[op.at] = IF Empty(op.order) THEN Free(hdr[op.at], op.order) ELSE hdr[op.at]
  BY <1>3 DEF FreeAlone
<1>7. hdr'[op.at].alloc = 0 /\ hdr'[op.at].order = op.order
  BY <1>1, <1>3, <1>6, FreeFacts, HeaderTypes
<1>8. QED
  BY <1>1, <1>2, <1>4, <1>5, <1>6, <1>7, LinkWhole

LEMMA FreeLargestWhole ==
  ASSUME Whole, FreeLargest, status = "ok", harm' # "lists"
  PROVE  Whole'
<1>1. /\ Typed' /\ Typed /\ Sound /\ op.call = "free" /\ op.order = Top /\ Top \in Orders
  BY FreeLargestTypes, OrdersAreNumbers DEF Whole, FreeLargest
<1>2. next[Head(Top)] \in Nodes
  BY <1>1, Now
<1>3. /\ hdr' = [hdr EXCEPT ![op.at] = Free(@, Top)]
      /\ PutFirst(next, prev, op.at, Top, TRUE, TRUE)
      /\ Harm(FALSE, LinkedAlready)
      /\ Done
  BY <1>2 DEF FreeLargest
<1>4. harm = "none" /\ ~LinkedAlready
  BY <1>3 DEF Harm
<1>5. /\ op.at \in Units /\ hdr[op.at] \in Headers /\ hdr \in [Units -> Headers]
  BY <1>1, FreeOps, TypedFacts
<1>6. op.at \notin Lists[op.order]
  BY <1>1, <1>4, FreeFacts
<1>7. /\ \A u \in Units \ {op.at} : hdr'[u] = hdr[u]
      /\ hdr'[op.at] = Free(hdr[op.at], Top)
  BY <1>3, <1>5
<1>8. hdr'[op.at].alloc = 0 /\ hdr'[op.at].order = op.order
  BY <1>1, <1>5, <1>7, HeaderTypes
<1>9. PutFirst(next, prev, op.at, op.order, TRUE, TRUE)
  BY <1>1, <1>3
<1>10. TRUE \in BOOLEAN /\ TRUE = TRUE
  OBVIOUS
<1>11. QED
  BY <1>1, <1>3, <1>4, <1>6, <1>7, <1>8, <1>9, <1>10, LinkWhole

LEMMA FreeLastWhole ==
  ASSUME Whole, FreeLast, status = "ok", harm' # "lists"
  PROVE  Whole'
<1>1. /\ Typed' /\ Typed /\ Sound /\ op.call = "free" /\ ~BuddyFree /\ Lists \in ListSets
  BY FreeLastTypes, ListsAre DEF Whole, FreeLast
<1>2. /\ op.order \in Orders /\ op.at \in Units /\ hdr[op.at] \in Headers /\ hdr \in [Units -> Headers]
  BY <1>1, FreeOps, TypedFacts
<1>3. buddy \notin Lists[op.order]
  BY <1>1, <1>2, Now DEF BuddyFree, Placed
<1>4. CASE LinkedAlready
  <2>1. /\ UNCHANGED <<hdr, next, prev, harm, brk, held, status>> /\ op' = Idle
    BY <1>4 DEF FreeLast, Done
  <2>2. Idle.call = "none" /\ Idle.old = None /\ Idle.at = None
    BY DEF Idle
  <2>3. /\ Used(held, op, hdr) = Owned(held) /\ Loose(op, Lists) = {}
        /\ Used(held', op', hdr') = Owned(held) /\ Loose(op', Lists) = {}
    <3>1. Used(held, op, hdr) = Owned(held) /\ Loose(op, Lists) = {}
      BY <1>1, <1>4, FreeFacts
    <3>2. Taken(op', hdr') = {} /\ Loose(op', Lists) = {}
      BY <2>1, <2>2, TakenIs
    <3>3. QED
      BY <2>1, <3>1, <3>2 DEF Used
  <2>4. Blocks(Lists, held', op', hdr') = Blocks(Lists, held, op, hdr)
    BY <2>3 DEF Blocks
  <2>5. UsedMarked(held', op', hdr')
    BY <1>1, <2>1, <2>3, FreeFacts DEF UsedMarked
  <2>6. Apart(held', op')
    <3>1. \A b \in held : b.at # None
      BY <1>1, HeldTypes, NodeFacts
    <3>2. QED
      BY <1>1, <2>1, <2>2, <3>1 DEF Sound, SoundIn, Apart
  <2>7. Merged(Lists, op')
    <3>1. ASSUME NEW j \in Orders \ {Top}, NEW a \in Lists[j], Buddy(a, j) \in Lists[j] PROVE FALSE
      <4>1. j = op.order /\ (op.at = a \/ op.at = Buddy(a, j))
        BY <1>1, <3>1, FreeFacts
      <4>2. Block(a, j) \in Blocks(Lists, held, op, hdr)
        BY <1>1, <3>1, HeapFacts
      <4>3. At(a, j)
        BY <1>1, <4>2, HeapFacts, BlockFacts
      <4>4. Buddy(Buddy(a, j), j) = a
        BY <4>3, BuddyPair
      <4>5. buddy \in Lists[op.order]
        BY <3>1, <4>1, <4>4 DEF buddy
      <4>6. QED
        BY <1>3, <4>5
    <3>2. QED
      BY <3>1 DEF Merged
  <2>8. SoundIn(Lists, next', brk', hdr', held', op')
    BY <1>1, <2>1, <2>2, <2>4, <2>5, <2>6, <2>7 DEF Sound, SoundIn, Returning
  <2>9. harm' = "none" => AllBack(next', prev', Lists) /\ status' \in {"ok", "null"}
    BY <2>1 DEF Whole, Linked
  <2>10. QED
    BY <1>1, <2>8, <2>9, WholeAfter
<1>5. CASE ~LinkedAlready
  <2>1. WalkEnds(op.order) = "ok"
    BY <1>1, <1>2, Now
  <2>2. /\ hdr' = [hdr EXCEPT ![op.at] = Free(@, op.order)]
        /\ PutFirst(next, prev, op.at, op.order, TRUE, FALSE)
        /\ Harm(~Empty(op.order) /\ prev[op.at] # Head(op.order), FALSE)
        /\ Done
    BY <1>5, <2>1 DEF FreeLast
  <2>3. harm = "none" /\ (harm' = "none" => Empty(op.order) \/ prev[op.at] = Head(op.order))
    BY <2>2, HarmFacts
  <2>4. op.at \notin Lists[op.order]
    BY <1>1, <1>5, FreeFacts
  <2>5. /\ \A u \in Units \ {op.at} : hdr'[u] = hdr[u]
        /\ hdr'[op.at] = Free(hdr[op.at], op.order)
    BY <1>2, <2>2
  <2>6. hdr'[op.at].alloc = 0 /\ hdr'[op.at].order = op.order
    BY <1>2, <2>5, HeaderTypes
  <2>7. TRUE \in BOOLEAN /\ FALSE \in BOOLEAN
    OBVIOUS
  <2>8. QED
    BY <1>1, <1>3, <2>2, <2>3, <2>4, <2>5, <2>6, <2>7, LinkWhole
<1>6. QED
  BY <1>4, <1>5

(* The buddy whose header says that it is free is in the list of its order.   *)
LEMMA BuddyListed ==
  ASSUME Typed, Sound, op.call = "free", op.order # Top, BuddyFree
  PROVE  buddy \in Lists[op.order]
<1> DEFINE Bs == Blocks(Lists, held, op, hdr)
           e == Block(op.at, op.order)
<1>1. op.order \in Orders \ {Top} /\ op.at \in Units /\ buddy = Buddy(op.at, op.order)
  BY FreeOps DEF buddy
<1>2. Tiling(Bs, brk) /\ brk \in Nat /\ At(brk, Top)
  BY TypedFacts DEF Sound, SoundIn
<1>3. e \in Bs /\ At(op.at, op.order) /\ e.at = op.at
  BY FreeFacts, BlockFacts
<1>4. PICK c \in Bs : c.at = buddy /\ c.order <= op.order
  <2> HIDE DEF Bs
  <2>1. QED
    BY <1>1, <1>2, <1>3, BuddyIsBlock
<1>5. hdr[c.at].alloc = 0 /\ hdr[c.at].order = op.order
  BY <1>4 DEF BuddyFree
<1>6. c \notin Used(held, op, hdr)
  BY <1>5, FreeFacts
<1>7. c \notin Loose(op, Lists)
  <2>1. buddy # op.at
    BY <1>1, <1>3, BuddyPair
  <2>2. QED
    BY <1>3, <1>4, <2>1 DEF Loose
<1>8. c \in FreeOf(Lists)
  BY <1>4, <1>6, <1>7 DEF Blocks
<1>9. c.at \in Lists[c.order] /\ c.order \in Orders
  BY <1>8, HeapFacts DEF FreeOf
<1>10. hdr[c.at].order = c.order
  BY <1>9, Now DEF Placed
<1>11. QED
  BY <1>4, <1>5, <1>9, <1>10

(* The search finds a buddy that is the first of several blocks, too, and takes *)
(* the list's last block for the one before it.                               *)
LEMMA FrontBuddy ==
  ASSUME Typed, Sound, Linked, op.call = "free", buddy \in Lists[op.order], BuddyInFront
  PROVE  {BeforeBuddy, next[buddy]} \subseteq Nodes
<1> DEFINE k == op.order
           h == Head(k)
           S == Lists[k]
           J == {j \in Steps : WalkIn(next, k)[j] = buddy}
<1>1. /\ k \in Orders /\ \A n \in S \cup {h} : next[n] \in S \cup {h} /\ next[n] \in Nodes
      /\ next[h] = buddy /\ Lists \in ListSets /\ IsList(next, h, S) /\ IsBack(next, prev, h, S)
  BY Now, FreeOps DEF BuddyInFront, AllLists, AllBack, Linked
<1>2. Min(J) = 0
  <2>1. 0 \in J /\ J \subseteq Nat
    BY <1>1, WalkSteps
  <2> HIDE DEF J
  <2>2. J # {}
    BY <2>1
  <2>3. Min(J) \in J /\ \A m \in J : Min(J) <= m
    BY <2>1, <2>2, MinOf
  <2>4. Min(J) \in Nat
    BY <2>1, <2>3
  <2>5. Min(J) <= 0
    BY <2>1, <2>3
  <2>6. QED
    BY <2>4, <2>5
<1>3. BeforeBuddy = prev[h]
  <2>1. Walk(k) = WalkIn(next, k) /\ DOMAIN WalkIn(next, k) = Steps
    BY WalkIsWalk, WalkSteps
  <2>2. QED
    BY <1>2, <2>1 DEF BeforeBuddy
<1>4. prev[h] \in S \cup {h}
  <2>1. PICK m \in S \cup {h} : next[m] = h
    BY <1>1 DEF IsList
  <2>2. QED
    BY <1>1, <2>1 DEF IsBack
<1>5. S \cup {h} \subseteq Nodes
  <2>1. S \subseteq Units
    BY <1>1 DEF IsList
  <2>2. QED
    BY <1>1, <2>1, NodeFacts
<1>6. QED
  BY <1>1, <1>3, <1>4, <1>5

(* The merge: the buddy leaves its list, and the two become one block, which  *)
(* bud_free has in hand again.                                                *)
LEMMA FreeMergeWhole ==
  ASSUME Whole, FreeMerge, status = "ok", harm' # "lists"
  PROVE  Whole'
<1> DEFINE k == op.order
           g == k + 1
           left == Min({op.at, buddy})
           nx == NextWithoutBuddy
           pv == PrevWithoutBuddy
           Bs == Blocks(Lists, held, op, hdr)
           e == Block(op.at, k)
           f == Block(buddy, k)
           new == Block(left, g)
           L1 == [Lists EXCEPT ![k] = @ \ {buddy}]
           L2 == [L1 EXCEPT ![g] = @ \cup {left}]
           L == IF left = buddy THEN L2 ELSE L1
<1>1. /\ Typed' /\ Typed /\ Sound /\ op.call = "free" /\ BuddyFree /\ k < Top /\ Lists \in ListSets
  BY FreeMergeTypes, ListsAre DEF Whole, FreeMerge
<1>2. /\ k \in Orders \ {Top} /\ g \in Orders /\ op.at \in Units /\ buddy \in Units /\ g # k
      /\ op.order # Top
  BY <1>1, FreeOps, OrdersAreNumbers
<1>3. buddy \in Lists[k] /\ ~Empty(k)
  <2>1. buddy \in Lists[k]
    BY <1>1, <1>2, BuddyListed
  <2>2. QED
    BY <1>1, <1>2, <2>1, Now
<1>4. CASE harm # "none"
  <2>1. CASE SearchEnds # "ok"
    BY <1>4, <2>1, EndsTypes, StopWhole DEF FreeMerge
  <2>2. CASE SearchEnds = "ok"
    <3>1. Harm(left = buddy /\ ~Empty(g), BuddyInFront \/ LinkedAlready)
      BY <2>2 DEF FreeMerge
    <3>2. QED
      BY <1>4, <3>1, HarmFacts
  <2>3. QED
    BY <2>1, <2>2
<1>5. CASE harm = "none" /\ BuddyInFront
  <2>1. CASE SearchEnds # "ok"
    <3>1. SearchEnds = "ok"
      <4>1. {BeforeBuddy, next[buddy]} \subseteq Nodes
        BY <1>1, <1>3, <1>5, FrontBuddy DEF Whole
      <4>2. QED
        BY <1>1, <1>2, <1>3, <4>1, Now DEF SearchEnds
    <3>2. QED
      BY <2>1, <3>1
  <2>2. CASE SearchEnds = "ok"
    <3>1. Harm(left = buddy /\ ~Empty(g), BuddyInFront \/ LinkedAlready)
      BY <2>2 DEF FreeMerge
    <3>2. QED
      BY <1>5, <3>1, HarmFacts
  <2>3. QED
    BY <2>1, <2>2
<1>6. CASE harm = "none" /\ ~BuddyInFront
  <2>1. Linked
    BY <1>6 DEF Whole
  <2>2. /\ SearchEnds = "ok" /\ nx \in [Nodes -> Links] /\ pv \in [Nodes -> Links]
        /\ AllLists(nx, L1) /\ AllBack(nx, pv, L1)
    BY <1>1, <1>3, <1>6, <2>1, BuddyOut
  <2>3. /\ hdr' = [hdr EXCEPT ![left] = Free(@, g)]
        /\ IF left = buddy THEN PutFirst(nx, pv, left, g, FALSE, TRUE)
           ELSE next' = nx /\ prev' = pv
        /\ Harm(left = buddy /\ ~Empty(g), BuddyInFront \/ LinkedAlready)
        /\ op' = [op EXCEPT !.at = left, !.order = g]
        /\ UNCHANGED <<brk, held, status, calls>>
    BY <1>3, <2>2 DEF FreeMerge, NextWithoutBuddy, PrevWithoutBuddy
  <2>4. ~LinkedAlready /\ (harm' = "none" /\ left = buddy => Empty(g))
    BY <2>3, HarmFacts
  <2>5. op.at \notin Lists[k] /\ \A j \in Orders : op.at \notin Lists[j]
    BY <1>1, <1>2, <2>4, FreeFacts
  <2>6. /\ e \in Bs /\ f \in Bs /\ f \in FreeOf(Lists) /\ e.at = op.at /\ f.at = buddy
        /\ At(op.at, k) /\ Loose(op, Lists) = {e} /\ Used(held, op, hdr) = Owned(held)
        /\ e.order = k /\ f.order = k
    BY <1>1, <1>2, <1>3, <2>5, FreeFacts, HeapFacts, BlockFacts
  <2>7. /\ buddy = Buddy(op.at, k) /\ buddy # op.at /\ At(left, g)
        /\ \/ left = op.at /\ buddy = left + Size[k]
           \/ left = buddy /\ op.at = left + Size[k]
    BY <1>2, <2>6, BuddyPair, SMTT(30) DEF buddy
  <2>8. left \in Units /\ left \in Nodes
    BY <1>2, <2>7, NodeFacts
  <2> HIDE DEF left, nx, pv
  <2>9. Tiling((Bs \ {e, f}) \cup {new}, brk)
    <3>1. Tiling(Bs, brk) /\ brk \in Nat
      BY <1>1, TypedFacts DEF Sound, SoundIn
    <3>2. {e, f} = {Block(left, k), Block(left + Size[k], k)}
      BY <2>7
    <3>3. Block(left, k) \in Bs /\ Block(left + Size[k], k) \in Bs
      BY <2>6, <3>2
    <3> HIDE DEF Bs, e, f
    <3>4. Tiling((Bs \ {Block(left, k), Block(left + Size[k], k)}) \cup {Block(left, k + 1)}, brk)
      BY <1>2, <2>7, <3>1, <3>3, TileMerge
    <3>5. QED
      BY <3>2, <3>4
  <2>10. /\ L1 \in ListSets /\ FreeOf(L1) = FreeOf(Lists) \ {f}
         /\ L2 \in ListSets /\ FreeOf(L2) = FreeOf(L1) \cup {new}
    <3>1. L1 \in ListSets /\ FreeOf(L1) = FreeOf(Lists) \ {f}
      BY <1>1, <1>2, FreeOfFacts
    <3> HIDE DEF L1
    <3>2. L2 \in ListSets /\ FreeOf(L2) = FreeOf(L1) \cup {new}
      <4>1. g \in Orders
        BY <1>2
      <4> HIDE DEF g
      <4>2. QED
        BY <2>8, <3>1, <4>1, FreeOfFacts
    <3>3. QED
      BY <3>1, <3>2
  <2>11. \A c \in Bs : (c.at = op.at => c = e) /\ (c.at = buddy => c = f)
    BY <1>1, <2>6, Now DEF Placed
  <2>12. \A j \in Orders : /\ L1[j] = IF j = k THEN Lists[k] \ {buddy} ELSE Lists[j]
                           /\ L2[j] = IF j = g THEN L1[g] \cup {left} ELSE L1[j]
                           /\ L1[j] \subseteq Lists[j]
                           /\ left \notin L1[j]
    <3>1. \A j \in Orders : buddy \in Lists[j] => j = k
      <4>1. \A j \in Orders : buddy \in Lists[j] => Block(buddy, j) = f
        BY <1>1, <2>11, HeapFacts, BlockFacts
      <4>2. QED
        BY <4>1, BlockFacts
    <3>2. \A j \in Orders : /\ L1[j] = IF j = k THEN Lists[k] \ {buddy} ELSE Lists[j]
                            /\ L2[j] = IF j = g THEN L1[g] \cup {left} ELSE L1[j]
      BY <1>1, <2>10 DEF ListSets
    <3> HIDE DEF L1, L2, g, k
    <3>3. QED
      BY <2>5, <2>7, <3>1, <3>2
  <2>13. /\ L \in ListSets /\ AllLists(next', L)
         /\ harm' = "none" => AllBack(next', prev', L)
    <3>1. CASE left = buddy
      <4>1. PutFirst(nx, pv, left, g, FALSE, TRUE) /\ L = L2
        BY <2>3, <3>1
      <4>2. FALSE \in BOOLEAN /\ TRUE \in BOOLEAN
        OBVIOUS
      <4>3. Disjoint(L1)
        <5>1. Disjoint(Lists)
          BY <1>1, Now DEF Placed
        <5>2. QED
          BY <2>12, <5>1 DEF Disjoint
      <4>4. harm' = "none" => nx[Head(g)] = Head(g)
        <5>1. ASSUME harm' = "none" PROVE nx[Head(g)] = Head(g)
          <6>1. Lists[g] = {}
            BY <1>1, <1>2, <2>4, <3>1, <5>1, Now
          <6>2. L1[g] = {}
            BY <1>2, <2>12, <6>1
          <6>3. IsList(nx, Head(g), L1[g]) /\ Head(g) \notin Units
            BY <1>2, <2>2, NodeFacts DEF AllLists
          <6>4. IsList(nx, Head(g), {})
            BY <6>2, <6>3
          <6>5. nx[Head(g)] \in {} \cup {Head(g)}
            BY <6>4 DEF IsList
          <6>6. QED
            BY <6>5
        <5>2. QED
          BY <5>1
      <4>5. g \in Orders /\ \A j \in Orders : left \notin L1[j]
        BY <1>2, <2>12
      <4> HIDE DEF g, L1
      <4>6. AllLists(next', L2) /\ (nx[Head(g)] = Head(g) => AllBack(next', prev', L2))
        BY <2>2, <2>8, <2>10, <4>1, <4>2, <4>3, <4>5, PutFirstLists
      <4>7. QED
        BY <2>10, <4>1, <4>4, <4>6
    <3>2. CASE left # buddy
      BY <2>2, <2>3, <2>10, <3>2
    <3>3. QED
      BY <3>1, <3>2
  <2>14. op'.call = "free" /\ op'.at = left /\ op'.order = g /\ op'.old = None
    <3>1. op \in Ops /\ op.old = None
      BY <1>1 DEF Typed, OpOK
    <3>2. QED
      BY <1>1, <2>3, <3>1 DEF Ops
  <2>15. /\ Used(held', op', hdr') = Owned(held)
         /\ Loose(op', L) \cup FreeOf(L) = FreeOf(L1) \cup {new}
    <3>1. Used(held', op', hdr') = Owned(held)
      <4>1. \A o, d : o.old = None /\ o.call \in {"none", "free"} => Used(held, o, d) = Owned(held)
        BY <1>1, FreeFacts
      <4>2. QED
        BY <2>3, <2>14, <4>1
    <3>2. CASE left = buddy
      <4>1. L = L2
        BY <3>2
      <4>2. left \in L2[g]
        <5>1. g \in Orders
          BY <1>2
        <5> HIDE DEF L1, L2, g
        <5>2. QED
          BY <2>12, <5>1
      <4>3. Loose(op', L) = {}
        BY <2>14, <4>1, <4>2 DEF Loose
      <4>4. QED
        BY <2>10, <3>1, <4>1, <4>3
    <3>3. CASE left # buddy
      <4>1. L = L1 /\ left \notin L1[g]
        BY <1>2, <2>12, <3>3
      <4>2. Loose(op', L) = {new}
        BY <2>14, <4>1 DEF Loose
      <4>3. QED
        BY <3>1, <4>1, <4>2
    <3>4. QED
      BY <3>2, <3>3
  <2>16. e \notin Owned(held) /\ f \notin Owned(held) /\ e \notin FreeOf(Lists)
    <3>1. hdr[buddy].alloc = 0
      BY <1>1 DEF BuddyFree
    <3>2. \A c \in Owned(held) : hdr[c.at].alloc = 1 /\ c.at # op.at
      BY <1>1, FreeFacts
    <3>3. e \notin FreeOf(Lists)
      BY <2>5, <2>6 DEF FreeOf
    <3>4. QED
      BY <2>6, <3>1, <3>2, <3>3
  <2>17. Blocks(L, held', op', hdr') = (Bs \ {e, f}) \cup {new}
    <3>1. Bs = Owned(held) \cup {e} \cup FreeOf(Lists)
      BY <2>6 DEF Blocks
    <3>2. Blocks(L, held', op', hdr') = Owned(held) \cup (FreeOf(L1) \cup {new})
      BY <2>15 DEF Blocks
    <3> HIDE DEF L, L1, Bs, e, f, new
    <3>3. QED
      BY <2>10, <2>16, <3>1, <3>2
  <2>18. \A c \in Bs \ {e, f} : hdr'[c.at] = hdr[c.at] /\ c.at # left
    <3>1. \A c \in Bs \ {e, f} : c.at \in Units /\ c.at # left
      BY <1>1, <2>7, <2>11, HeapFacts
    <3>2. hdr \in [Units -> Headers]
      BY <1>1, TypedFacts
    <3> HIDE DEF Bs, e, f, g
    <3>3. QED
      BY <2>3, <2>8, <3>1, <3>2
  <2>19. hdr'[left].alloc = 0 /\ hdr'[left].order = g
    <3>1. hdr \in [Units -> Headers] /\ g \in Orders
      BY <1>1, <1>2, TypedFacts
    <3> HIDE DEF g
    <3>2. hdr'[left] = Free(hdr[left], g) /\ hdr[left] \in Headers
      BY <2>3, <2>8, <3>1
    <3>3. QED
      BY <3>1, <3>2, HeaderTypes
  <2>20. FreeMarked(L, hdr')
    <3>1. \A c \in FreeOf(L) : c = new \/ (c \in FreeOf(Lists) /\ c # f)
      BY <2>10
    <3>2. new.at = left /\ new.order = g
      BY BlockFacts
    <3>3. \A c \in FreeOf(Lists) : c # f => hdr'[c.at].alloc = 0 /\ hdr'[c.at].order = c.order
      <4>1. \A c \in FreeOf(Lists) : c # f => hdr'[c.at] = hdr[c.at]
        BY <1>1, <2>16, <2>18, HeapFacts
      <4>2. QED
        BY <1>1, <4>1 DEF Sound, SoundIn, FreeMarked
    <3> HIDE DEF new, f, L
    <3>4. QED
      BY <2>19, <3>1, <3>2, <3>3 DEF FreeMarked
  <2>21. UsedMarked(held', op', hdr')
    <3>1. \A c \in Owned(held) : c \in Bs \ {e, f}
      BY <2>6, <2>16 DEF Blocks
    <3>2. \A c \in Owned(held) : hdr'[c.at].alloc = 1 /\ hdr'[c.at].order = c.order /\ Good(hdr'[c.at])
      BY <1>1, <2>18, <3>1, FreeFacts
    <3>3. QED
      BY <2>15, <3>2 DEF UsedMarked
  <2>22. Apart(held', op')
    <3>1. Apart(held, op)
      BY <1>1 DEF Sound, SoundIn
    <3>2. \A b \in held : b.at # left
      <4>1. \A b \in held : Block(b.at, Want(b.size)) \in Owned(held)
        BY DEF Owned
      <4>2. \A b \in held : Block(b.at, Want(b.size)) \in Bs \ {e, f}
        BY <2>6, <2>16, <4>1 DEF Blocks
      <4>3. QED
        BY <2>18, <4>2, BlockFacts
    <3>3. \A b \in held : b.at # None
      BY <1>1, HeldTypes, NodeFacts
    <3>4. QED
      BY <2>3, <2>14, <3>1, <3>2, <3>3 DEF Apart
  <2>23. Merged(L, op')
    <3>1. ASSUME NEW j \in Orders \ {Top}, NEW a \in L[j], Buddy(a, j) \in L[j]
          PROVE  Excused(L, op', a, j)
      <4>1. CASE a \in L1[j] /\ Buddy(a, j) \in L1[j]
        <5>1. a \in Lists[j] /\ Buddy(a, j) \in Lists[j]
          BY <2>12, <4>1
        <5>2. j = op.order /\ (op.at = a \/ op.at = Buddy(a, j))
          BY <1>1, <5>1, FreeFacts
        <5>3. QED
          BY <2>5, <5>1, <5>2
      <4>2. CASE ~(a \in L1[j] /\ Buddy(a, j) \in L1[j])
        <5>1. j = g /\ (a = left \/ Buddy(a, j) = left)
          BY <2>12, <3>1, <4>2
        <5>2. QED
          BY <2>14, <5>1 DEF Excused
      <4>3. QED
        BY <4>1, <4>2
    <3>2. QED
      BY <3>1 DEF Merged
  <2>24. Returning(op', hdr')
    BY <2>14, <2>19 DEF Returning
  <2>25. SoundIn(L, next', brk', hdr', held', op')
    BY <2>3, <2>9, <2>13, <2>17, <2>20, <2>21, <2>22, <2>23, <2>24 DEF SoundIn
  <2>26. status' = "ok"
    BY <2>3
  <2> HIDE DEF L
  <2>27. QED
    BY <1>1, <2>13, <2>25, <2>26, WholeAfter
<1>7. QED
  BY <1>4, <1>5, <1>6

-----------------------------------------------------------------------------
(* The step of bud_realloc that halves a block.                               *)

(* While bud_realloc shrinks a block it has that block in hand.               *)
LEMMA ShrinkFacts ==
  ASSUME Typed, Sound, op.call = "shrink"
  PROVE  /\ op.at \in Units /\ op.old = None /\ op.order - 1 \in Orders \ {Top} /\ op.order \in Orders
         /\ op.want <= op.order - 1 /\ op.want \in Orders /\ op.want = Want(op.size) /\ op.size \in Sizes
         /\ Used(held, op, hdr) = Owned(held) \cup {Block(op.at, op.order)}
         /\ Loose(op, Lists) = {}
         /\ \A c \in Owned(held) : /\ hdr[c.at].alloc = 1 /\ hdr[c.at].order = c.order
                                   /\ Good(hdr[c.at]) /\ c.at # op.at
         /\ hdr[op.at].alloc = 1 /\ hdr[op.at].order = op.order
         /\ NoPair(Lists) /\ \A b \in held : b.at # op.at
<1>1. /\ op.at \in Units /\ op.old = None /\ op.order \in Orders
      /\ op.want \in Orders /\ op.want < op.order /\ op.size \in Sizes
      /\ op.want = Want(op.size)
  BY TypedFacts DEF Typed, OpOK
<1>2. op.order - 1 \in Orders \ {Top} /\ op.want <= op.order - 1
  BY <1>1, OrdersAreNumbers
<1>3. /\ Used(held, op, hdr) = Owned(held) \cup {Block(op.at, op.order)}
      /\ Loose(op, Lists) = {}
  BY <1>1 DEF Used, Taken, Loose
<1>4. \A b \in held : b.at # op.at
  BY DEF Sound, SoundIn, Apart
<1>5. \A c \in Owned(held) : c.at # op.at
  BY <1>4, BlockFacts DEF Owned
<1>6. \A c \in Owned(held) : hdr[c.at].alloc = 1 /\ hdr[c.at].order = c.order /\ Good(hdr[c.at])
  BY <1>3, <1>5 DEF Sound, SoundIn, UsedMarked
<1>7. hdr[op.at].alloc = 1 /\ hdr[op.at].order = op.order
  <2>1. Block(op.at, op.order) \in Used(held, op, hdr)
    BY <1>3
  <2>2. QED
    BY <2>1, BlockFacts DEF Sound, SoundIn, UsedMarked
<1>8. NoPair(Lists)
  BY DEF Sound, SoundIn, Merged, Excused, NoPair
<1>9. QED
  BY <1>1, <1>2, <1>3, <1>4, <1>5, <1>6, <1>7, <1>8

(* Halving it keeps the lower half in hand and frees the upper one.           *)
LEMMA ShrinkWhole ==
  ASSUME Whole, Shrink, status = "ok", harm' # "lists"
  PROVE  /\ Whole'
         /\ Used(held', op', hdr') = Owned(held) \cup {Block(op.at, op.order - 1)}
         /\ op'.call # "malloc"
<1> DEFINE k == op.order - 1
           b2 == op.at + Size[k]
           h == [hdr EXCEPT ![op.at].order = k, ![b2] = Free(@, k)]
           Bs == Blocks(Lists, held, op, hdr)
           e == Block(op.at, op.order)
           low == Block(op.at, k)
           high == Block(b2, k)
           new == [id |-> calls, at |-> op.at, size |-> op.size]
           L == [Lists EXCEPT ![k] = @ \cup {b2}]
<1>1. Typed' /\ Typed /\ Sound /\ op.call = "shrink" /\ Lists \in ListSets
  BY ShrinkTypes, ListsAre DEF Whole, Shrink
<1>2. /\ op.at \in Units /\ k \in Orders \ {Top} /\ op.order \in Orders /\ op.old = None
      /\ op.want <= k /\ op.want \in Orders /\ op.order = k + 1
  BY <1>1, ShrinkFacts, OrdersAreNumbers
<1>3. Size[k] \in Nat \ {0} /\ Size[op.order] = Size[k] + Size[k]
  BY <1>2, SizeStep, SizeRecursion
<1>4. /\ e \in Bs /\ e.at = op.at /\ At(op.at, op.order) /\ op.at + Size[op.order] <= brk
      /\ e \in Used(held, op, hdr) /\ Tiling(Bs, brk) /\ brk \in Nat /\ brk <= N /\ N \in Nat
  <2>1. e \in Used(held, op, hdr)
    BY <1>1, ShrinkFacts
  <2>2. e \in Bs
    BY <2>1 DEF Blocks
  <2>3. e.at = op.at /\ e.order = op.order
    BY BlockFacts
  <2>4. At(e.at, e.order) /\ e.at + Size[e.order] <= brk
    BY <1>1, <2>2, HeapFacts
  <2>5. Tiling(Bs, brk) /\ brk \in Nat /\ brk <= N /\ N \in Nat
    BY <1>1, TypedFacts, HeapOfPairs, OrdersAreNumbers DEF Sound, SoundIn
  <2> HIDE DEF e, Bs
  <2>6. QED
    BY <2>1, <2>2, <2>3, <2>4, <2>5
<1>5. b2 \in Units /\ b2 # op.at /\ op.at < b2 /\ b2 < op.at + Size[op.order] /\ op.at \in Nat
  <2>1. op.at \in Nat
    BY <1>2, NodeFacts
  <2> HIDE DEF k
  <2>2. QED
    BY <1>3, <1>4, <2>1 DEF Units
<1>6. next[Head(k)] \in Nodes
  BY <1>1, <1>2, Now
<1>7. /\ PutFirst(next, prev, b2, k, TRUE, TRUE)
      /\ IF k > op.want
         THEN hdr' = h /\ op' = [op EXCEPT !.order = k] /\ UNCHANGED held
         ELSE /\ hdr' = [h EXCEPT ![op.at].padded = Padded(op.size, k), ![op.at].rsize = op.size]
              /\ held' = held \cup {new}
              /\ op' = Idle
      /\ Harm(FALSE, FALSE)
      /\ UNCHANGED <<brk, status, calls>>
  BY <1>5, <1>6 DEF Shrink
<1>8. Tiling((Bs \ {e}) \cup {low, high}, brk)
  <2>1. e = Block(op.at, k + 1)
    BY <1>2
  <2> HIDE DEF Bs, k
  <2>2. QED
    BY <1>2, <1>4, <2>1, TileSplit
<1>9. \A c \in Bs : c.at # b2 /\ (c.at = op.at => c = e)
  <2>1. \A c \in Bs : c.at \in Nat
    BY <1>1, HeapFacts, NodeFacts
  <2>2. Placed(Lists, brk, hdr, held, op)
    BY <1>1, Now
  <2>3. End(e) = op.at + Size[op.order]
    BY BlockFacts
  <2>4. \A c \in Bs : e.at <= c.at /\ c.at < End(e) => e = c
    BY <1>4, <2>2 DEF Placed
  <2> HIDE DEF Bs, e, b2, k
  <2>5. QED
    BY <1>3, <1>4, <1>5, <2>1, <2>3, <2>4
<1>10. \A j \in Orders : b2 \notin Lists[j] /\ op.at \notin Lists[j]
  <2>1. \A j \in Orders : \A a \in Lists[j] : Block(a, j) \in Bs
    BY <1>1, HeapFacts
  <2>2. \A j \in Orders : b2 \notin Lists[j]
    BY <1>9, <2>1, BlockFacts
  <2>3. \A j \in Orders : op.at \notin Lists[j]
    BY <1>1, <1>4, Now DEF Placed
  <2>4. QED
    BY <2>2, <2>3
<1>11. L \in ListSets /\ FreeOf(L) = FreeOf(Lists) \cup {high}
  <2>1. k \in Orders
    BY <1>2
  <2> HIDE DEF k, b2
  <2>2. QED
    BY <1>1, <1>5, <2>1, FreeOfFacts
<1>12. /\ AllLists(next', L)
       /\ harm' = "none" => AllBack(next', prev', L) /\ status' \in {"ok", "null"}
  <2>1. harm' = "none" => harm = "none"
    BY <1>7 DEF Harm
  <2>2. AllLists(next, Lists) /\ Disjoint(Lists) /\ next \in [Nodes -> Links] /\ prev \in [Nodes -> Links]
    BY <1>1, Now, TypedFacts DEF Placed
  <2>3. harm = "none" => AllBack(next, prev, Lists)
    BY DEF Whole, Linked
  <2>4. TRUE = TRUE /\ k \in Orders
    BY <1>2
  <2> HIDE DEF k, b2
  <2>5. /\ AllLists(next', L)
        /\ AllBack(next, prev, Lists) => AllBack(next', prev', L)
    BY <1>1, <1>5, <1>7, <1>10, <2>2, <2>4, PutFirstLists
  <2>6. status' = "ok"
    BY <1>7
  <2>7. QED
    BY <2>1, <2>3, <2>5, <2>6
(* The headers of the two halves and of all other blocks.                     *)
<1>13. /\ \A u \in Units \ {op.at, b2} : hdr'[u] = hdr[u]
       /\ hdr'[b2].alloc = 0 /\ hdr'[b2].order = k
       /\ hdr'[op.at].alloc = 1 /\ hdr'[op.at].order = k
       /\ ~(k > op.want) => Good(hdr'[op.at])
  <2>1. /\ hdr \in [Units -> Headers] /\ hdr[op.at] \in Headers /\ hdr[b2] \in Headers
        /\ hdr[op.at].alloc = 1 /\ Want(op.size) = op.want /\ op.size \in Sizes
    BY <1>1, <1>2, <1>5, ShrinkFacts, TypedFacts
  <2>2. /\ h = [[hdr EXCEPT ![op.at].order = k] EXCEPT ![b2] = Free(hdr[b2], k)]
        /\ k \in Orders
    BY <1>2
  <2>3. Free(hdr[b2], k).alloc = 0 /\ Free(hdr[b2], k).order = k
    BY <2>1, <2>2, HeaderTypes
  <2> DEFINE low1 == [hdr[op.at] EXCEPT !.order = k]
             low2 == [low1 EXCEPT !.padded = Padded(op.size, k), !.rsize = op.size]
  <2>4. low1.alloc = 1 /\ low1.order = k
    BY <2>1 DEF Headers
  <2>5. low2.alloc = 1 /\ low2.order = k /\ low2.padded = Padded(op.size, k) /\ low2.rsize = op.size
    <3>1. low1 = [alloc |-> hdr[op.at].alloc, order |-> k, padded |-> hdr[op.at].padded, rsize |-> hdr[op.at].rsize]
      BY <2>1 DEF Headers
    <3>2. QED
      BY <2>4, <3>1
  <2>6. k > op.want \/ k = op.want
    BY <1>2, OrdersAreNumbers
  <2> DEFINE f == Free(hdr[b2], k)
             p == Padded(op.size, k)
  <2>7. h = [u \in Units |-> IF u = op.at THEN low1 ELSE IF u = b2 THEN f ELSE hdr[u]]
    <3> HIDE DEF b2, k
    <3>1. QED
      BY <1>2, <1>5, <2>1
  <2>8. CASE k > op.want
    <3>1. hdr' = h
      BY <1>7, <2>8
    <3> HIDE DEF h, low1, f, b2, k
    <3>2. QED
      BY <1>2, <1>5, <2>3, <2>4, <2>7, <2>8, <3>1 DEF f
  <2>9. CASE ~(k > op.want)
    <3>1. hdr' = [h EXCEPT ![op.at].padded = p, ![op.at].rsize = op.size]
      BY <1>7, <2>9
    <3>2. hdr' = [u \in Units |-> IF u = op.at THEN low2 ELSE IF u = b2 THEN f ELSE hdr[u]]
      <4> HIDE DEF h, low1, f, b2, k, p
      <4>1. h[op.at] = low1
        BY <1>2, <2>7
      <4>2. QED
        BY <1>2, <1>5, <2>7, <3>1, <4>1 DEF low2, p
    <3>3. Good(low2)
      <4> HIDE DEF low2
      <4>1. QED
        BY <2>1, <2>5, <2>6, <2>9 DEF Good
    <3> HIDE DEF low2, f, b2, k
    <3>4. QED
      BY <1>2, <1>5, <2>3, <2>5, <3>2, <3>3 DEF f
  <2>10. QED
    BY <2>8, <2>9
(* The lower half is in use, by the call or by the program.                   *)
<1>14. /\ Used(held', op', hdr') = Owned(held) \cup {low}
       /\ Loose(op', L) = {}
       /\ \A b \in held' : b \in held \/ b = new
       /\ op'.call \in {"none", "shrink"} /\ op'.old = None
       /\ \/ op'.at = op.at /\ held' = held /\ op'.call = "shrink"
          \/ op'.at = None
  <2>1. CASE k > op.want
    <3>1. op' = [op EXCEPT !.order = k] /\ held' = held
      BY <1>7, <2>1
    <3>2. op \in Ops
      BY <1>1 DEF Typed, OpOK
    <3>3. op'.call = "shrink" /\ op'.at = op.at /\ op'.old = None /\ op'.order = k
      <4> HIDE DEF k
      <4>1. QED
        BY <1>1, <1>2, <3>1, <3>2 DEF Ops
    <3>4. Taken(op', hdr') = {low} /\ Loose(op', L) = {}
      BY <3>3 DEF Taken, Loose
    <3>5. QED
      BY <3>1, <3>3, <3>4 DEF Used
  <2>2. CASE ~(k > op.want)
    <3>1. op' = Idle /\ held' = held \cup {new} /\ Idle.call = "none" /\ Idle.old = None /\ Idle.at = None
      BY <1>7, <2>2 DEF Idle
    <3>2. Taken(op', hdr') = {} /\ Loose(op', L) = {}
      BY <3>1 DEF Taken, Loose
    <3>3. k = Want(op.size)
      BY <1>1, <1>2, <2>2, ShrinkFacts, OrdersAreNumbers
    <3>4. Owned(held') = Owned(held) \cup {low}
      <4>1. new.at = op.at /\ new.size = op.size
        OBVIOUS
      <4> HIDE DEF new, k
      <4>2. QED
        BY <3>1, <3>3, <4>1 DEF Owned
    <3>5. QED
      BY <3>1, <3>2, <3>4 DEF Used
  <2>3. QED
    BY <2>1, <2>2
<1>15. Blocks(L, held', op', hdr') = (Bs \ {e}) \cup {low, high}
  <2>1. Bs = (Owned(held) \cup {e}) \cup FreeOf(Lists)
    BY <1>1, ShrinkFacts DEF Blocks
  <2>2. e \notin Owned(held)
    BY <1>1, <1>4, ShrinkFacts
  <2>3. e \notin FreeOf(Lists)
    <3>1. e.at = op.at /\ e.order = op.order
      BY BlockFacts
    <3> HIDE DEF e
    <3>2. QED
      BY <1>2, <1>10, <3>1 DEF FreeOf
  <2>4. Blocks(L, held', op', hdr') = (Owned(held) \cup {low}) \cup (FreeOf(Lists) \cup {high})
    BY <1>11, <1>14 DEF Blocks
  <2> HIDE DEF e, low, high, Bs, L
  <2>5. QED
    BY <2>1, <2>2, <2>3, <2>4
<1>16. \A c \in Bs \ {e} : hdr'[c.at] = hdr[c.at]
  <2>1. \A c \in Bs : c.at \in Units
    BY <1>1, HeapFacts
  <2> HIDE DEF e, Bs, b2
  <2>2. QED
    BY <1>9, <1>13, <2>1
<1>17. FreeMarked(L, hdr')
  <2>1. high.at = b2 /\ high.order = k
    BY BlockFacts
  <2>2. \A c \in FreeOf(Lists) : c \in Bs \ {e}
    <3>1. \A c \in FreeOf(Lists) : c.at # op.at
      BY <1>10 DEF FreeOf, BlockSet
    <3>2. QED
      BY <1>1, <1>4, <3>1, HeapFacts
  <2>3. \A c \in FreeOf(Lists) : hdr'[c.at].alloc = 0 /\ hdr'[c.at].order = c.order
    BY <1>1, <1>16, <2>2 DEF Sound, SoundIn, FreeMarked
  <2> HIDE DEF high, L, b2, k
  <2>4. QED
    BY <1>11, <1>13, <2>1, <2>3 DEF FreeMarked
<1>18. UsedMarked(held', op', hdr')
  <2>1. low.at = op.at /\ low.order = k
    BY BlockFacts
  <2>2. \A c \in Owned(held) : c \in Bs \ {e}
    BY <1>1, <1>4, ShrinkFacts, HeapFacts
  <2>3. \A c \in Owned(held) : hdr'[c.at].alloc = 1 /\ hdr'[c.at].order = c.order /\ Good(hdr'[c.at])
    BY <1>1, <1>16, <2>2, ShrinkFacts
  <2>4. Good(hdr'[op.at]) \/ (op'.call = "shrink" /\ op'.at = op.at)
    <3>1. CASE k > op.want
      <4>1. op' = [op EXCEPT !.order = k] /\ op \in Ops
        BY <1>1, <1>7, <3>1 DEF Typed, OpOK
      <4>2. QED
        BY <1>1, <4>1 DEF Ops
    <3>2. QED
      BY <1>13, <3>1
  <2> HIDE DEF low, k
  <2>5. QED
    BY <1>13, <1>14, <2>1, <2>3, <2>4 DEF UsedMarked
<1>19. Apart(held', op')
  <2>1. Apart(held, op) /\ \A b \in held : b.at # op.at
    BY <1>1, ShrinkFacts DEF Sound, SoundIn
  <2>2. new.at = op.at /\ op.at # None
    BY <1>2, NodeFacts
  <2>3. \A b \in held : b.at # None
    BY <1>1, HeldTypes, NodeFacts
  <2> HIDE DEF new
  <2>4. QED
    BY <1>14, <2>1, <2>2, <2>3 DEF Apart
<1>20. Merged(L, op')
  <2>1. ASSUME NEW j \in Orders \ {Top}, NEW a \in L[j], Buddy(a, j) \in L[j] PROVE FALSE
    <3>1. NoPair(Lists)
      BY <1>1, ShrinkFacts
    <3>2. \A i \in Orders : L[i] = IF i = k THEN Lists[k] \cup {b2} ELSE Lists[i]
      <4> HIDE DEF k, b2
      <4>1. QED
        BY <1>1 DEF ListSets
    <3>3. a \notin Lists[j] \/ Buddy(a, j) \notin Lists[j]
      BY <3>1 DEF NoPair
    <3>4. j = k /\ (a = b2 \/ Buddy(a, j) = b2)
      BY <2>1, <3>2, <3>3
    <3>5. Buddy(b2, k) = op.at /\ Buddy(op.at, k) = b2
      <4> HIDE DEF k
      <4>1. QED
        BY <1>2, <1>4, HalvesAreBuddies
    <3>6. op.at # b2 /\ op.at \notin L[k]
      BY <1>2, <1>5, <1>10, <3>2
    <3>7. CASE a = b2
      BY <2>1, <3>4, <3>5, <3>6, <3>7
    <3>8. CASE a # b2
      <4>1. a \in Lists[k] /\ Buddy(a, k) = b2
        BY <2>1, <3>2, <3>4, <3>8
      <4>2. At(a, k)
        BY <1>1, <1>2, <4>1, HeapFacts, BlockFacts
      <4>3. Buddy(Buddy(a, k), k) = a
        <5>1. k \in Orders
          BY <1>2
        <5> HIDE DEF k
        <5>2. QED
          BY <4>2, <5>1, BuddyPair
      <4>4. QED
        BY <1>2, <1>10, <3>5, <4>1, <4>3
    <3>9. QED
      BY <3>7, <3>8
  <2>2. QED
    BY <2>1 DEF Merged
<1>21. SoundIn(L, next', brk', hdr', held', op')
  <2>1. brk' = brk /\ Returning(op', hdr')
    BY <1>7, <1>14 DEF Returning
  <2>2. QED
    BY <1>8, <1>12, <1>15, <1>17, <1>18, <1>19, <1>20, <2>1 DEF SoundIn
<1> HIDE DEF L
<1>22. QED
  BY <1>1, <1>11, <1>12, <1>14, <1>21, WholeAfter

-----------------------------------------------------------------------------
(* The invariant holds at first and after every step.                         *)

(* IInv by cases of harm.                                                     *)
LEMMA WholeIs == IInv <=> Typed /\ (harm # "lists" => Whole)
BY DEF IInv, Whole, Typed, TypeOK

(* The heap is empty at first, and so are all lists.                          *)
LEMMA InitWhole == Init => IInv
<1> SUFFICES ASSUME Init PROVE IInv
  OBVIOUS
<1> DEFINE L == [k \in Orders |-> {}]
<1>1. PICK v \in Fills : /\ next = [n \in Nodes |-> IF n \in Units THEN v ELSE n]
                         /\ prev = next
  BY DEF Init
<1>2. /\ Typed /\ brk = 0 /\ held = {} /\ op = Idle /\ status = "ok" /\ harm = "none"
  BY InitTypes DEF Init
<1>3. \A k \in Orders : next[Head(k)] = Head(k) /\ prev[Head(k)] = Head(k)
  BY <1>1, NodeFacts
<1>4. L \in ListSets /\ AllLists(next, L) /\ AllBack(next, prev, L)
  BY <1>3, EmptyList DEF ListSets, AllLists, AllBack, IsBack
<1>5. FreeOf(L) = {}
  BY DEF FreeOf, BlockSet
<1>6. Idle.call = "none" /\ Idle.old = None
  BY DEF Idle
<1>7. Used(held, op, hdr) = {} /\ Loose(op, L) = {} /\ Blocks(L, held, op, hdr) = {}
  BY <1>2, <1>5, <1>6, TakenIs DEF Used, Owned, Blocks
<1>8. Tiling(Blocks(L, held, op, hdr), brk)
  <2>1. Tiling({}, 0)
    BY DEF Tiling
  <2>2. QED
    BY <1>2, <1>7, <2>1
<1>9. SoundIn(L, next, brk, hdr, held, op)
  BY <1>2, <1>4, <1>5, <1>6, <1>7, <1>8 DEF SoundIn, FreeMarked, UsedMarked, Returning, Apart, Merged
<1>10. Lists = L
  <2>1. \A k \in Orders : Listed(k) = {}
    <3>1. \A k \in Orders : ListedIn(next, k) = {}
      BY <1>3, EmptyList, WalkOfList
    <3>2. QED
      BY <3>1, WalkIsWalk
  <2>2. QED
    BY <2>1 DEF Lists
<1>11. QED
  BY <1>2, <1>4, <1>9, <1>10 DEF IInv, Sound, Linked

(* A list that has been harmed is not said to be in order again.              *)
LEMMA HarmStays ==
  ASSUME [Next]_vars, harm = "lists"
  PROVE  harm' = "lists"
<1>1. \A p, l : Harm(p, l) => harm' = "lists"
  BY DEF Harm
<1>2. \A how : Stop(how) => harm' = "lists"
  BY DEF Stop
<1>3. CASE UNCHANGED vars
  BY <1>3 DEF vars
<1>4. CASE Next
  <2>1. ASSUME \/ \E r \in Sizes : StartMalloc(r)
               \/ \E b \in held : StartFree(b) \/ \E r \in Sizes : StartRealloc(b, r)
               \/ \E b \in held, v \in Fills : Write(b, v)
               \/ CheckFree
        PROVE  harm' = "lists"
    BY <1>2, <2>1 DEF StartMalloc, StartFree, StartRealloc, Write, CheckFree
  <2>2. ASSUME MoreCore PROVE harm' = "lists"
    BY <1>1, <1>2, <2>2 DEF MoreCore
  <2>3. ASSUME Split PROVE harm' = "lists"
    BY <1>1, <1>2, <2>3 DEF Split
  <2>4. ASSUME Take PROVE harm' = "lists"
    BY <1>1, <1>2, <2>4 DEF Take
  <2>5. ASSUME FreeAlone \/ FreeLargest \/ FreeLast PROVE harm' = "lists"
    BY <1>1, <1>2, <2>5 DEF FreeAlone, FreeLargest, FreeLast
  <2>6. ASSUME FreeMerge PROVE harm' = "lists"
    BY <1>1, <1>2, <2>6 DEF FreeMerge
  <2>7. ASSUME Shrink PROVE harm' = "lists"
    BY <1>1, <1>2, <2>7 DEF Shrink
  <2>8. QED
    BY <1>4, <2>1, <2>2, <2>3, <2>4, <2>5, <2>6, <2>7 DEF Next
<1>5. QED
  BY <1>3, <1>4

(* Every step keeps the invariant.                                            *)
LEMMA NextWhole == IInv /\ [Next]_vars => IInv'
<1> SUFFICES ASSUME IInv, [Next]_vars PROVE IInv'
  OBVIOUS
<1>1. Typed /\ Typed'
  BY NextTypes DEF IInv
<1>2. CASE UNCHANGED vars
  <2>1. Lists' = Lists
    <3>1. next' = next
      BY <1>2 DEF vars, heap
    <3>2. \A k \in Orders : Listed(k)' = Listed(k)
      BY <3>1, WalkIsWalk
    <3>3. QED
      BY <3>2 DEF Lists
  <2>2. QED
    BY <1>1, <1>2, <2>1 DEF vars, heap, IInv, Sound, Linked
<1>3. CASE harm' = "lists"
  BY <1>1, <1>3 DEF IInv
<1>4. CASE harm' # "lists" /\ Next
  <2>1. Whole /\ status = "ok" /\ harm' # "lists"
    BY <1>4, HarmStays, WholeIs DEF Next
  <2>2. Whole'
    <3>1. CASE \E r \in Sizes : StartMalloc(r)
      BY <2>1, <3>1, StartMallocWhole
    <3>2. CASE \E b \in held : StartFree(b)
      BY <2>1, <3>2, StartFreeWhole
    <3>3. CASE \E b \in held : \E r \in Sizes : StartRealloc(b, r)
      BY <2>1, <3>3, StartReallocWhole
    <3>4. CASE \E b \in held, v \in Fills : Write(b, v)
      BY <2>1, <3>4, WriteWhole
    <3>5. CASE MoreCore
      BY <2>1, <3>5, MoreCoreWhole
    <3>6. CASE Split
      BY <2>1, <3>6, SplitWhole
    <3>7. CASE Take
      BY <2>1, <3>7, TakeWhole
    <3>8. CASE CheckFree
      BY <2>1, <3>8, CheckFreeWhole
    <3>9. CASE FreeAlone
      BY <2>1, <3>9, FreeAloneWhole
    <3>10. CASE FreeLargest
      BY <2>1, <3>10, FreeLargestWhole
    <3>11. CASE FreeMerge
      BY <2>1, <3>11, FreeMergeWhole
    <3>12. CASE FreeLast
      BY <2>1, <3>12, FreeLastWhole
    <3>13. CASE Shrink
      BY <2>1, <3>13, ShrinkWhole
    <3>14. QED
      BY <1>4, <3>1, <3>2, <3>3, <3>4, <3>5, <3>6, <3>7, <3>8, <3>9, <3>10, <3>11, <3>12, <3>13 DEF Next
  <2>3. QED
    BY <1>1, <2>2, WholeIs DEF Whole, IInv
<1>5. QED
  BY <1>2, <1>3, <1>4

(* The lists, blocks and headers of Budmm are at every state of a behaviour   *)
(* what the steps of bud_malloc, bud_realloc and bud_free need them to be.    *)
THEOREM Invariant == Spec => []IInv
<1>1. Init => IInv
  BY InitWhole
<1>2. IInv /\ [Next]_vars => IInv'
  BY NextWhole
<1>3. QED
  BY <1>1, <1>2, PTL DEF Spec

-----------------------------------------------------------------------------
(* What the invariant says of the heap.                                       *)

(* The parts of HeapOK.                                                       *)
LEMMA ListsInOrder ==
  ASSUME Typed, Sound
  PROVE  ListsOK
<1>1. ASSUME NEW k \in Orders
      PROVE  /\ WalkEnds(k) = "ok"
             /\ \A a \in Listed(k) : hdr[a].alloc = 0 /\ hdr[a].order = k /\ a % Size[k] = 0
  <2>1. WalkEnds(k) = "ok" /\ Listed(k) = Lists[k]
    BY Now
  <2>2. ASSUME NEW a \in Lists[k] PROVE hdr[a].alloc = 0 /\ hdr[a].order = k /\ a % Size[k] = 0
    <3>1. hdr[a].alloc = 0 /\ hdr[a].order = k
      BY Now DEF Placed
    <3>2. At(a, k)
      BY HeapFacts, BlockFacts
    <3>3. QED
      BY <3>1, <3>2 DEF At
  <2>3. QED
    BY <2>1, <2>2
<1>2. QED
  BY <1>1 DEF ListsOK

LEMMA LinksInOrder ==
  ASSUME Typed, Sound, Linked
  PROVE  LinksOK
<1>1. \A k \in Orders : Listed(k) = Lists[k]
  BY Now
<1>2. QED
  BY <1>1 DEF Linked, AllBack, IsBack, LinksOK

LEMMA NotInTwo ==
  ASSUME Typed, Sound
  PROVE  Tiled
<1> DEFINE Bs == Blocks(Lists, held, op, hdr)
<1>1. InUse \cup Freeing \cup FreeBlocks = Bs
  BY BlocksAre
<1>2. Tiling(Bs, brk) /\ brk \in Nat
  BY TypedFacts DEF Sound, SoundIn
<1>3. \A b \in Bs : /\ b.at \in Nat /\ Size[b.order] \in Nat /\ b.at + Size[b.order] <= brk
                    /\ End(b) = b.at + Size[b.order]
                    /\ \A u : u \in Span(b.at, b.order) <=> u \in Nat /\ b.at <= u /\ u < End(b)
  <2>1. ASSUME NEW b \in Bs
        PROVE  /\ b.at \in Nat /\ Size[b.order] \in Nat /\ b.at + Size[b.order] <= brk
               /\ End(b) = b.at + Size[b.order]
               /\ \A u : u \in Span(b.at, b.order) <=> u \in Nat /\ b.at <= u /\ u < End(b)
    <3>1. b.at \in Nat /\ b.order \in Orders /\ b.at + Size[b.order] <= brk
      BY HeapFacts, NodeFacts
    <3>2. Size[b.order] \in Nat
      BY <3>1, SizeRecursion
    <3>3. QED
      BY <3>1, <3>2 DEF End, Span
  <2>2. QED
    BY <2>1
<1> HIDE DEF Bs
<1>4. ASSUME NEW u \in 0 .. (brk - 1)
      PROVE  Cardinality({b \in Bs : u \in Span(b.at, b.order)}) = 1
  <2>1. u \in Nat /\ u < brk
    BY <1>2
  <2>2. PICK b \in Bs : b.at <= u /\ u < End(b)
    BY <1>2, <2>1 DEF Tiling
  <2>3. ASSUME NEW c \in Bs, c.at <= u, u < End(c) PROVE c = b
    <3>1. CASE b.at <= c.at
      <4>1. c.at < End(b)
        BY <1>3, <2>1, <2>2, <2>3
      <4>2. QED
        BY <1>2, <3>1, <4>1, TileAt
    <3>2. CASE c.at <= b.at
      <4>1. b.at < End(c)
        BY <1>3, <2>1, <2>2, <2>3
      <4>2. QED
        BY <1>2, <3>2, <4>1, TileAt
    <3>3. QED
      BY <1>3, <3>1, <3>2
  <2>4. {c \in Bs : u \in Span(c.at, c.order)} = {b}
    BY <1>3, <2>1, <2>2, <2>3
  <2>5. QED
    BY <2>4, FS_Singleton
<1>5. UNION {Span(b.at, b.order) : b \in Bs} \subseteq 0 .. (brk - 1)
  <2>1. \A b \in Bs : \A u : u \in Span(b.at, b.order) => u \in 0 .. (brk - 1)
    BY <1>2, <1>3
  <2>2. QED
    BY <2>1
<1>6. Cardinality(held) = Cardinality({b.at : b \in held})
  <2> DEFINE T == {b.at : b \in held}
             f == [b \in held |-> b.at]
  <2>1. f \in [held -> T] /\ \A t \in T : \E b \in held : f[b] = t
    OBVIOUS
  <2>2. \A b, c \in held : f[b] = f[c] => b = c
    BY DEF Sound, SoundIn, Apart
  <2>3. f \in Surjection(held, T) /\ f \in Injection(held, T)
    BY <2>1, <2>2 DEF Surjection, Injection, IsInjective
  <2>4. IsFiniteSet(held)
    BY DEF Typed
  <2> HIDE DEF T, f
  <2>5. Cardinality(T) = Cardinality(held)
    BY <2>3, <2>4, FS_Surjection
  <2>6. QED
    BY <2>5 DEF T
<1>7. QED
  BY <1>1, <1>4, <1>5, <1>6 DEF Tiled

LEMMA HeadersInOrder ==
  ASSUME Typed, Sound
  PROVE  UsedOK
<1>1. InUse = Used(held, op, hdr)
  BY UsedIs
<1>2. ASSUME NEW b \in Used(held, op, hdr)
      PROVE  /\ hdr[b.at].order = b.order
             /\ ~HeaderBad(hdr[b.at]) \/ (op.call = "shrink" /\ b.at = op.at)
  <2>1. /\ hdr[b.at].alloc = 1 /\ hdr[b.at].order = b.order
        /\ Good(hdr[b.at]) \/ (op.call = "shrink" /\ b.at = op.at)
    BY DEF Sound, SoundIn, UsedMarked
  <2>2. hdr[b.at] \in Headers
    BY HeapFacts, TypedFacts
  <2>3. QED
    BY <2>1, <2>2, GoodHeader
<1>3. QED
  BY <1>1, <1>2 DEF UsedOK

(* HeapIntact of every behaviour: until bud_free links a block wrongly, the   *)
(* lists are in order in both directions, every unit obtained from bud_sbrk is *)
(* in exactly one block, and no call aborts, hangs or follows a wild link.    *)
THEOREM HeapStaysIntact == Spec => []HeapIntact
<1>1. IInv => HeapIntact
  BY ListsInOrder, LinksInOrder, NotInTwo, HeadersInOrder DEF IInv, HeapIntact, HeapOK
<1>2. QED
  BY <1>1, Invariant, PTL

(* ListsIntact of every behaviour: a step of bud_free that leaves a prev wrong *)
(* leaves all lists whole along next and every unit in one block.             *)
THEOREM ListsStayIntact == Spec => []ListsIntact
<1>1. IInv => ListsIntact
  BY ListsInOrder, NotInTwo, HeadersInOrder DEF IInv, ListsIntact
<1>2. QED
  BY <1>1, Invariant, PTL

(* Coalesced of every behaviour: between calls no free block below the largest *)
(* order has a free buddy, in spite of the test for NULL links in bud_free.   *)
THEOREM StaysCoalesced == Spec => []Coalesced
<1>1. ASSUME IInv PROVE Coalesced
  <2>1. ASSUME op = Idle, harm # "lists", NEW b \in FreeBlocks, b.order < Top
        PROVE  [b EXCEPT !.at = Buddy(b.at, b.order)] \notin FreeBlocks
    <3>1. NoPair(Lists)
      BY <1>1, <2>1, IdleFacts DEF IInv
    <3>2. FreeBlocks = FreeOf(Lists)
      BY ListsAre
    <3>3. b \in BlockSet /\ b.at \in Lists[b.order]
      BY <2>1, <3>2 DEF FreeOf
    <3>4. b.order \in Orders \ {Top}
      BY <2>1, <3>3, OrdersAreNumbers DEF BlockSet
    <3>5. Buddy(b.at, b.order) \notin Lists[b.order]
      BY <3>1, <3>3, <3>4 DEF NoPair
    <3> DEFINE c == [b EXCEPT !.at = Buddy(b.at, b.order)]
    <3>6. c.at = Buddy(b.at, b.order) /\ c.order = b.order
      BY <3>3 DEF BlockSet
    <3> HIDE DEF c
    <3>7. c \notin FreeOf(Lists)
      BY <3>5, <3>6 DEF FreeOf
    <3>8. QED
      BY <3>2, <3>7 DEF c
  <2>2. QED
    BY <2>1 DEF Coalesced
<1>2. QED
  BY <1>1, Invariant, PTL

(* Until a list is harmed, no two regions the program owns overlap: what the  *)
(* harm costs is all that budmm.h:96-97 lacks.                                *)
THEOREM BlocksStayDisjoint == Spec => [](harm # "lists" => BlocksDisjoint)
<1>1. ASSUME IInv, harm # "lists", NEW b \in held, NEW c \in held, b # c
      PROVE  Span(b.at, Want(b.size)) \cap Span(c.at, Want(c.size)) = {}
  <2> DEFINE d == Block(b.at, Want(b.size))
             e == Block(c.at, Want(c.size))
  <2>1. Typed /\ Sound
    BY <1>1 DEF IInv
  <2>2. b.at # c.at
    BY <1>1, <2>1 DEF Sound, SoundIn, Apart
  <2>3. d \in Blocks(Lists, held, op, hdr) /\ e \in Blocks(Lists, held, op, hdr)
    BY DEF Blocks, Used, Owned
  <2>4. d.at = b.at /\ d.order = Want(b.size) /\ e.at = c.at /\ e.order = Want(c.size)
    BY BlockFacts
  <2> HIDE DEF d, e
  <2>5. Before(d, e) \/ Before(e, d)
    BY <2>1, <2>2, <2>3, <2>4 DEF Sound, SoundIn, Tiling
  <2>6. /\ b.at \in Nat /\ Size[Want(b.size)] \in Nat
        /\ c.at \in Nat /\ Size[Want(c.size)] \in Nat
    <3>1. \A x \in held : x.at \in Units /\ Want(x.size) \in Orders
      BY <2>1, HeldTypes, SizesAreNumbers
    <3>2. QED
      BY <1>1, <3>1, NodeFacts, SizeRecursion
  <2>7. \/ b.at + Size[Want(b.size)] <= c.at
        \/ c.at + Size[Want(c.size)] <= b.at
    BY <2>4, <2>5 DEF Before, End
  <2>8. QED
    BY <2>6, <2>7 DEF Span
<1>2. IInv => (harm # "lists" => BlocksDisjoint)
  BY <1>1 DEF BlocksDisjoint
<1>3. QED
  BY <1>2, Invariant, PTL

-----------------------------------------------------------------------------
(* The promise of Allocator.                                                  *)

(* The request as Allocator sees it, and the units of a block.                *)
Wanted(o) == IF o.call = "malloc" THEN o.want ELSE None
Region(b) == b.at .. (b.at + Size[b.order] - 1)

(* Nothing is left when bud_malloc refuses: a region that no block in use     *)
(* meets would be cut up into free blocks smaller than it, and the smallest of *)
(* these would have a free buddy.                                             *)
LEMMA NothingLeft ==
  ASSUME Typed, Sound, op.call = "malloc", Candidates = {}, ~Room,
         NEW a \in Nat, a % Size[op.want] = 0,
         Region(Block(a, op.want)) \subseteq 0 .. (N - 1),
         \A b \in Used(held, op, hdr) : Region(b) \cap Region(Block(a, op.want)) = {}
  PROVE  FALSE
<1> DEFINE k == op.want
           Bs == Blocks(Lists, held, op, hdr)
           end == a + Size[k]
           J == {j \in Orders : \E c \in FreeOf(Lists) : c.order = j /\ a <= c.at /\ c.at + Size[j] <= end}
<1>1. /\ k \in Orders /\ At(a, k) /\ Size[k] \in Nat \ {0} /\ brk \in Nat /\ brk = N /\ At(brk, Top)
      /\ Tiling(Bs, brk)
  BY TypedFacts, SizeRecursion, NoRoom DEF At, Sound, SoundIn
<1>2. end <= brk /\ end \in Nat /\ \A u \in Nat : a <= u /\ u < end <=> u \in Region(Block(a, k))
  <2>1. a + (Size[k] - 1) = end - 1
    <3> HIDE DEF k
    <3>1. QED
      BY <1>1
  <2>2. Region(Block(a, k)) = a .. (end - 1)
    BY <2>1 DEF Region, Block
  <2> HIDE DEF k
  <2>3. end - 1 \in a .. (end - 1) /\ end - 1 \in Nat
    BY <1>1
  <2>4. a .. (end - 1) \subseteq 0 .. (N - 1)
    BY <2>2 DEF k
  <2>5. QED
    BY <1>1, <2>2, <2>3, <2>4
<1>3. \A j \in Orders : k <= j => Lists[j] = {}
  BY MallocFacts
(* A block that meets the region is free and lies in it.                      *)
<1>4. ASSUME NEW c \in Bs, NEW u \in Nat, c.at <= u, u < End(c), a <= u, u < end
      PROVE  c \in FreeOf(Lists) /\ a <= c.at /\ c.at + Size[c.order] <= end /\ c.order < k
  <2>1. c.at \in Nat /\ c.order \in Orders /\ At(c.at, c.order) /\ End(c) = c.at + Size[c.order]
        /\ Size[c.order] \in Nat \ {0}
    BY HeapFacts, NodeFacts, SizeRecursion DEF End
  <2>2. u \in Region(c)
    BY <1>4, <2>1 DEF Region
  <2>3. u \in Region(Block(a, k))
    BY <1>2, <1>4
  <2>4. c \notin Used(held, op, hdr)
    BY <2>2, <2>3
  <2>5. c \in FreeOf(Lists)
    BY <2>4, MallocFacts DEF Blocks
  <2>6. c.order < k
    <3>1. c.at \in Lists[c.order]
      BY <2>5 DEF FreeOf
    <3>2. ~(k <= c.order)
      BY <1>3, <2>1, <3>1
    <3>3. QED
      BY <1>1, <2>1, <3>2, OrdersAreNumbers
  <2>7. \/ c.at + Size[c.order] <= a
        \/ a + Size[k] <= c.at
        \/ a <= c.at /\ c.at + Size[c.order] <= a + Size[k]
    <3>1. c.order <= k
      BY <1>1, <2>1, <2>6, OrdersAreNumbers
    <3> HIDE DEF k
    <3>2. QED
      BY <1>1, <2>1, <3>1, Nested
  <2> HIDE DEF k
  <2>8. QED
    BY <1>1, <1>4, <2>1, <2>5, <2>6, <2>7
<1>5. J # {} /\ J \subseteq Nat
  <2>1. a < end /\ a < brk
    BY <1>1, <1>2
  <2>2. PICK c \in Bs : c.at <= a /\ a < End(c)
    BY <1>1, <2>1 DEF Tiling
  <2>3. c \in FreeOf(Lists) /\ a <= c.at /\ c.at + Size[c.order] <= end /\ c.order \in Orders
    BY <1>4, <2>1, <2>2, HeapFacts
  <2>4. QED
    BY <2>3, OrdersAreNumbers
<1>6. PICK j \in J : \A i \in J : j <= i
  <2> HIDE DEF J
  <2>1. QED
    BY <1>5, LeastOf
<1>7. PICK c \in FreeOf(Lists) : c.order = j /\ a <= c.at /\ c.at + Size[j] <= end
  BY <1>6
<1>8. /\ c \in Bs /\ c.at \in Nat /\ j \in Orders /\ At(c.at, j) /\ Size[j] \in Nat \ {0}
      /\ c = Block(c.at, j) /\ End(c) = c.at + Size[j] /\ c.at \in Lists[j]
  <2>1. c \in Bs /\ c.order \in Orders /\ c.at \in Nat /\ At(c.at, c.order) /\ c = Block(c.at, c.order)
    BY HeapFacts, NodeFacts
  <2>2. c.at \in Lists[j]
    BY <1>7 DEF FreeOf
  <2>3. QED
    BY <1>7, <2>1, <2>2, SizeRecursion DEF End
<1>9. j < k /\ j \in Orders \ {Top} /\ j + 1 \in Orders /\ j + 1 <= k /\ Size[j + 1] = Size[j] + Size[j]
  <2>1. c.at < End(c) /\ c.at < end
    <3> HIDE DEF k
    <3>1. QED
      BY <1>1, <1>2, <1>7, <1>8
  <2>2. j < k
    BY <1>4, <1>7, <1>8, <2>1
  <2>3. j # Top /\ j + 1 \in Orders /\ j + 1 <= k
    BY <1>1, <1>8, <2>2, OrdersAreNumbers
  <2>4. QED
    BY <1>8, <2>2, <2>3, SizeStep
<1> DEFINE b == Buddy(c.at, j)
           m == Min({c.at, b})
(* The buddy lies in the region as well.                                      *)
<1>10. a <= b /\ b + Size[j] <= end /\ b \in Nat
  <2>1. /\ At(b, j) /\ At(m, j + 1)
        /\ \/ b = c.at + Size[j] /\ m = c.at
           \/ c.at = b + Size[j] /\ m = b
    BY <1>8, <1>9, BuddyPair
  <2>2. b \in Nat /\ m \in Nat
    BY <2>1 DEF At
  <2> HIDE DEF b, m
  <2>3. \/ m + Size[j + 1] <= a
        \/ a + Size[k] <= m
        \/ a <= m /\ m + Size[j + 1] <= a + Size[k]
    <3>1. k \in Orders /\ At(a, k) /\ j + 1 \in Orders /\ j + 1 <= k
      BY <1>1, <1>9
    <3> HIDE DEF k
    <3>2. QED
      BY <2>1, <3>1, Nested
  <2>4. Size[k] \in Nat /\ end = a + Size[k] /\ c.at \in Nat /\ Size[j] \in Nat \ {0} /\ Size[j + 1] = Size[j] + Size[j]
    BY <1>1, <1>8, <1>9
  <2> HIDE DEF end, k
  <2>5. QED
    BY <1>7, <2>1, <2>2, <2>3, <2>4
<1>11. PICK d \in Bs : d.at = b /\ d.order <= j
  <2>1. Block(c.at, j) \in Bs
    BY <1>8
  <2> HIDE DEF Bs
  <2>2. QED
    BY <1>1, <1>9, <2>1, BuddyIsBlock
<1>12. d \in FreeOf(Lists) /\ d.at + Size[d.order] <= end /\ d.order \in Orders
  <2>1. End(d) = d.at + Size[d.order] /\ Size[d.order] \in Nat \ {0} /\ d.order \in Orders
    BY HeapFacts, SizeRecursion DEF End
  <2> HIDE DEF b, k
  <2>2. d.at <= d.at /\ d.at < End(d) /\ a <= d.at /\ d.at < end /\ d.at \in Nat
    BY <1>2, <1>8, <1>10, <1>11, <2>1
  <2>3. QED
    BY <1>4, <2>1, <2>2
<1>13. d.order = j
  <2>1. d.order \in J
    BY <1>10, <1>11, <1>12
  <2> HIDE DEF J
  <2>2. j <= d.order
    BY <1>6, <2>1
  <2>3. QED
    BY <1>8, <1>11, <1>12, <2>2, OrdersAreNumbers
<1>14. b \in Lists[j]
  BY <1>11, <1>12, <1>13 DEF FreeOf
<1>15. Excused(Lists, op, c.at, j)
  BY <1>8, <1>9, <1>14 DEF Sound, SoundIn, Merged
<1>16. k <= j
  BY <1>15 DEF Excused
<1>17. QED
  BY <1>1, <1>8, <1>9, <1>16, OrdersAreNumbers

(* The block bud_malloc takes meets no block in use.                          *)
LEMMA TakenIsLeft ==
  ASSUME Typed, Sound, op.call = "malloc", Lowest(op.want) \in Lists[op.want]
  PROVE  /\ Lowest(op.want) \in 0 .. (N - 1) /\ Lowest(op.want) % Size[op.want] = 0
         /\ Region(Block(Lowest(op.want), op.want)) \subseteq 0 .. (N - 1)
         /\ \A b \in Used(held, op, hdr) : Region(b) \cap Region(Block(Lowest(op.want), op.want)) = {}
<1> DEFINE k == op.want
           a == Lowest(k)
           e == Block(a, k)
           Bs == Blocks(Lists, held, op, hdr)
<1>1. k \in Orders /\ Size[k] \in Nat \ {0} /\ brk \in Nat /\ brk <= N /\ N \in Nat /\ Tiling(Bs, brk)
  BY TypedFacts, SizeRecursion, HeapOfPairs DEF Sound, SoundIn
<1>2. /\ e \in Bs /\ a \in Nat /\ At(a, k) /\ a + Size[k] <= brk /\ e.at = a /\ e.order = k
      /\ End(e) = a + Size[k]
  BY <1>1, HeapFacts, NodeFacts, BlockFacts
<1>3. hdr[a].alloc = 0
  BY <1>1, Now DEF Placed
<1> HIDE DEF k, a, e, Bs
<1>4. a \in 0 .. (N - 1) /\ a % Size[k] = 0
  BY <1>1, <1>2 DEF At
<1>5. Region(e) = a .. (a + Size[k] - 1) /\ Region(e) \subseteq 0 .. (N - 1)
  BY <1>1, <1>2 DEF Region
<1>6. ASSUME NEW b \in Used(held, op, hdr) PROVE Region(b) \cap Region(e) = {}
  <2>1. b \in Bs /\ hdr[b.at].alloc = 1
    BY HeapFacts, MallocFacts DEF Bs
  <2>2. b # e
    BY <1>2, <1>3, <2>1
  <2>3. Before(b, e) \/ Before(e, b)
    BY <1>1, <1>2, <2>1, <2>2 DEF Tiling
  <2>4. b.at \in Nat /\ Size[b.order] \in Nat /\ End(b) = b.at + Size[b.order]
    BY <2>1, HeapFacts, NodeFacts, SizeRecursion DEF End, Bs
  <2>5. QED
    BY <1>1, <1>2, <1>5, <2>3, <2>4 DEF Before, Region
<1>7. QED
  BY <1>4, <1>5, <1>6 DEF k, a, e

(* What a step of Budmm is to the promise.  While no list is harmed, the      *)
(* regions are those of Used and the history says nothing.                    *)
Kept == [Abstract!ANext \/ (harm = "lists")']_(Abstract!avars)

(* The order of a request is less than the number of units in the heap.       *)
LEMMA WantIsNotNone == \A k \in Orders : k # None
<1> DEFINE Bad == {i \in Orders : ~(i < Size[i])}
<1>1. Bad = {}
  <2>1. ASSUME Bad # {} PROVE FALSE
    <3>1. Bad \subseteq Nat
      BY OrdersAreNumbers
    <3>2. PICK i \in Bad : \A m \in Bad : i <= m
      <4> HIDE DEF Bad
      <4>1. QED
        BY <2>1, <3>1, LeastOf
    <3>3. i \in Orders /\ i \in Nat /\ ~(i < Size[i])
      BY <3>1, <3>2
    <3>4. i # 0
      BY <3>3, SizeRecursion
    <3>5. i - 1 \in Orders /\ i - 1 \notin Bad /\ Size[i] = 2 * Size[i - 1]
      <4>1. i - 1 \in Orders /\ i - 1 < i /\ Size[i] = 2 * Size[i - 1]
        BY <3>3, <3>4, OrdersAreNumbers, SizeRecursion
      <4> HIDE DEF Bad
      <4>2. QED
        BY <3>1, <3>2, <3>3, <4>1
    <3>6. i - 1 < Size[i - 1] /\ Size[i - 1] \in Nat
      BY <3>5, SizeRecursion
    <3>7. QED
      BY <3>3, <3>4, <3>5, <3>6
  <2>2. QED
    BY <2>1
<1>2. ASSUME NEW k \in Orders PROVE k # None
  <2>1. k < Size[k] /\ k \in Nat /\ Size[k] \in Nat \ {0} /\ N \in Nat \ {0}
    BY <1>1, OrdersAreNumbers, SizeRecursion, HeapOfPairs
  <2>2. At(0, k) /\ At(N, k)
    BY <2>1, HeapOfPairs DEF At
  <2>3. 0 + Size[k] <= N
    BY <2>1, <2>2, AtApart
  <2>4. QED
    BY <2>1, <2>3 DEF None
<1>3. QED
  BY <1>2

(* A step that changes nothing the caller sees is a stutter of Allocator.     *)
LEMMA Untouched ==
  ASSUME harm # "lists", harm' # "lists",
         Used(held', op', hdr') = Used(held, op, hdr), Wanted(op') = Wanted(op)
  PROVE  Kept
BY UsedIs DEF Kept, Abstract!avars, Wanted

LEMMA StopKeeps ==
  ASSUME NEW how, Stop(how)
  PROVE  Kept
<1>1. UNCHANGED <<held, op, hdr, harm>>
  BY DEF Stop, heap
<1>2. QED
  BY <1>1, UsedIs DEF Kept, Abstract!avars

(* The start of a call: the regions stay, a new one may be asked for.         *)
LEMMA StartKeeps ==
  ASSUME harm # "lists", harm' # "lists", Typed', op = Idle,
         Used(held', op', hdr') = Used(held, op, hdr)
  PROVE  Kept
<1>1. Wanted(op) = None
  BY DEF Wanted, Idle
<1>2. CASE op'.call = "malloc"
  <2>1. op'.want \in 0 .. Top
    BY DEF Typed, OpOK, Ops, Orders
  <2>2. Wanted(op') = op'.want
    BY <1>2 DEF Wanted
  <2>3. Abstract!Ask
    BY <1>1, <2>1, <2>2, UsedIs DEF Abstract!Ask, Wanted
  <2>4. QED
    BY <2>3 DEF Kept, Abstract!ANext
<1>3. CASE op'.call # "malloc"
  BY <1>1, <1>3, Untouched DEF Wanted
<1>4. QED
  BY <1>2, <1>3

(* Refusing is right, and growing the heap is not seen.                       *)
LEMMA MoreCoreKeeps ==
  ASSUME Whole, MoreCore, harm # "lists", harm' # "lists"
  PROVE  Kept
<1>1. /\ Typed /\ Sound /\ op.call = "malloc" /\ Candidates = {} /\ op.want \in Orders
      /\ Wanted(op) = op.want /\ op.want # None
  <2>1. op.want \in Orders
    BY TypedFacts DEF Whole
  <2>2. op.want # None
    BY <2>1, WantIsNotNone
  <2>3. QED
    BY <2>1, <2>2 DEF Whole, MoreCore, Wanted
<1>2. CASE Room
  <2>1. held' = held /\ op' = op
    BY <1>2 DEF MoreCore
  <2>2. Used(held', op', hdr') = Used(held, op, hdr)
    BY <1>1, <2>1, MallocFacts
  <2>3. QED
    BY <2>1, <2>2, Untouched
<1>3. CASE ~Room /\ op.old = None
  <2>1. op' = Idle /\ UNCHANGED <<heap, held, status, calls, harm>>
    BY <1>3 DEF MoreCore
  <2>2. Used(held', op', hdr') = Used(held, op, hdr) /\ Wanted(op') = None
    <3>1. Taken(op, hdr) = {} /\ Taken(op', hdr') = {} /\ Idle.call = "none"
      BY <1>1, <1>3, <2>1, TakenIs DEF Idle
    <3>2. QED
      BY <2>1, <3>1 DEF Used, Wanted
  <2>3. Abstract!Left(op.want) = {}
    <3>1. ASSUME NEW a \in Abstract!Left(op.want) PROVE FALSE
      <4>1. /\ a \in 0 .. (N - 1) /\ a % Size[op.want] = 0
            /\ Region(Block(a, op.want)) \subseteq 0 .. (N - 1)
            /\ \A b \in InUse : Region(b) \cap Region(Block(a, op.want)) = {}
        BY <3>1 DEF Abstract!Left, Abstract!Region, Region, Block
      <4>2. a \in Nat
        BY <4>1
      <4>3. QED
        BY <1>1, <1>3, <4>1, <4>2, UsedIs, NothingLeft
    <3>2. QED
      BY <3>1
  <2>4. Abstract!Refuse
    BY <1>1, <2>2, <2>3, UsedIs DEF Abstract!Refuse, Wanted
  <2>5. QED
    BY <2>1, <2>4 DEF Kept, Abstract!ANext
<1>4. CASE ~Room /\ op.old # None
  BY <1>4, StopKeeps DEF MoreCore
<1>5. QED
  BY <1>2, <1>3, <1>4

(* Splitting is not seen.                                                     *)
LEMMA SplitKeeps ==
  ASSUME Whole, Split, harm # "lists", harm' # "lists"
  PROVE  Kept
<1>1. Typed /\ Sound /\ op.call = "malloc" /\ held' = held /\ op' = op
  BY DEF Whole, Split, Stop
<1>2. Used(held', op', hdr') = Used(held, op, hdr)
  BY <1>1, MallocFacts
<1>3. QED
  BY <1>1, <1>2, Untouched

(* Taking a block grants it; the old block of a growing bud_realloc stays in  *)
(* use until bud_free has looked at it.                                       *)
LEMMA TakeKeeps ==
  ASSUME Whole, Take, status = "ok", harm # "lists", harm' # "lists"
  PROVE  Kept
<1>1. Typed /\ Sound /\ op.call = "malloc" /\ op.want \in Orders /\ op.want # None
  BY TypedFacts, WantIsNotNone DEF Whole, Take
<1>2. CASE status' = "ok"
  <2> DEFINE a == Lowest(op.want)
  <2>1. Granted
    BY <1>2, TakeWhole
  <2>2. /\ a \in 0 .. (N - 1) /\ a % Size[op.want] = 0
        /\ Region(Block(a, op.want)) \subseteq 0 .. (N - 1)
        /\ \A b \in InUse : Region(b) \cap Region(Block(a, op.want)) = {}
    BY <1>1, <2>1, TakenIsLeft, UsedIs DEF Granted
  <2>3. InUse' = InUse \cup {Block(a, op.want)} /\ op'.call # "malloc"
    BY <2>1, UsedIs DEF Granted
  <2> HIDE DEF a
  <2>4. a \in Abstract!Left(op.want)
    BY <2>2 DEF Abstract!Left, Abstract!Region, Region, Block
  <2>5. Abstract!Grant
    BY <1>1, <2>3, <2>4 DEF Abstract!Grant, Block
  <2>6. QED
    BY <2>5 DEF Kept, Abstract!ANext
<1>3. CASE status' # "ok"
  <2>1. \E how \in {"hang", "wild"} : Stop(how)
    BY <1>3, EndsTypes DEF Take
  <2>2. QED
    BY <2>1, StopKeeps
<1>4. QED
  BY <1>2, <1>3

(* The block goes back when bud_free accepts it.                              *)
LEMMA CheckFreeKeeps ==
  ASSUME Whole, CheckFree, harm # "lists", harm' # "lists"
  PROVE  Kept
<1> DEFINE e == Block(op.at, hdr[op.at].order)
<1>1. /\ Typed /\ Sound /\ op.call = "check" /\ op.old = None /\ op \in Ops
  BY DEF Whole, CheckFree, Typed, OpOK
<1>2. CASE HeaderBad(hdr[op.at])
  BY <1>2, StopKeeps DEF CheckFree
<1>3. CASE ~HeaderBad(hdr[op.at])
  <2>1. held' = held /\ op' = [op EXCEPT !.call = "free", !.order = hdr[op.at].order] /\ harm' = harm
    BY <1>3 DEF CheckFree
  <2>2. op'.call = "free" /\ op'.old = None
    BY <1>1, <2>1 DEF Ops
  <2>3. Used(held, op, hdr) = Owned(held) \cup {e} /\ Used(held', op', hdr') = Owned(held)
    BY <1>1, <2>1, <2>2, TakenIs DEF Used
  <2>4. e \notin Owned(held)
    <3>1. \A b \in held : b.at # op.at
      BY <1>1 DEF Sound, SoundIn, Apart
    <3>2. QED
      BY <3>1, BlockFacts DEF Owned
  <2>5. e \in InUse /\ InUse' = InUse \ {e}
    BY <2>3, <2>4, UsedIs
  <2> HIDE DEF e
  <2>6. Abstract!TakeBack
    BY <1>1, <2>2, <2>5 DEF Abstract!TakeBack
  <2>7. QED
    BY <2>1, <2>6 DEF Kept, Abstract!ANext
<1>4. QED
  BY <1>2, <1>3

(* The steps of bud_free that follow move blocks that are no longer in use.   *)
LEMMA FreeKeeps ==
  ASSUME Whole, FreeAlone \/ FreeLargest \/ FreeMerge \/ FreeLast, harm # "lists", harm' # "lists"
  PROVE  Kept
<1>1. Typed /\ Sound /\ op.call = "free" /\ op.old = None /\ op \in Ops
  BY DEF Whole, FreeAlone, FreeLargest, FreeMerge, FreeLast, Typed, OpOK
<1>2. \/ \E how : Stop(how)
      \/ held' = held /\ op' = Idle
      \/ held' = held /\ \E a, k : op' = [op EXCEPT !.at = a, !.order = k]
  BY DEF FreeAlone, FreeLargest, FreeMerge, FreeLast, Done
<1>3. CASE \E how : Stop(how)
  BY <1>3, StopKeeps
<1>4. CASE held' = held /\ op'.call \in {"none", "free"} /\ op'.old = None
  <2>1. Used(held', op', hdr') = Used(held, op, hdr)
    BY <1>1, <1>4, FreeFacts
  <2>2. Wanted(op') = Wanted(op)
    BY <1>1, <1>4 DEF Wanted
  <2>3. QED
    BY <2>1, <2>2, Untouched
<1>5. CASE held' = held /\ op' = Idle
  <2>1. op'.call = "none" /\ op'.old = None
    BY <1>5 DEF Idle
  <2>2. QED
    BY <1>4, <1>5, <2>1
<1>6. CASE held' = held /\ \E a, k : op' = [op EXCEPT !.at = a, !.order = k]
  <2>1. op'.call = "free" /\ op'.old = None
    BY <1>1, <1>6 DEF Ops
  <2>2. QED
    BY <1>4, <1>6, <2>1
<1>7. QED
  BY <1>2, <1>3, <1>5, <1>6

(* Halving cuts the region down.                                              *)
LEMMA ShrinkKeeps ==
  ASSUME Whole, Shrink, status = "ok", harm # "lists", harm' # "lists"
  PROVE  Kept
<1> DEFINE k == op.order - 1
           b == Block(op.at, op.order)
           c == Block(op.at, k)
<1>0. Typed /\ Sound /\ op.call = "shrink"
  BY DEF Whole, Shrink
<1>1. /\ Typed /\ Sound /\ op.call = "shrink" /\ op.order \in Orders /\ k \in Orders \ {Top} /\ op.at \in Units
      /\ op.order = k + 1
  <2>1. op.order \in Orders /\ k \in Orders \ {Top} /\ op.at \in Units
    BY <1>0, ShrinkFacts
  <2>2. op.order = k + 1
    BY <2>1, OrdersAreNumbers
  <2>3. QED
    BY <1>0, <2>1, <2>2
<1>2. InUse = Owned(held) \cup {b} /\ b \notin Owned(held)
  BY <1>1, ShrinkFacts, UsedIs, BlockFacts
<1>3. InUse' = Owned(held) \cup {c} /\ op'.call # "malloc"
  BY ShrinkWhole, UsedIs
<1>4. InUse' = (InUse \ {b}) \cup {c} /\ b \in InUse
  BY <1>2, <1>3
<1>5. /\ c = [at |-> b.at, order |-> k] /\ b.at = op.at /\ b.order = op.order
      /\ c.at = op.at /\ c.order = k
  BY DEF Block
<1>6. k \in 0 .. (b.order - 1)
  BY <1>1, <1>5, OrdersAreNumbers
<1>7. Region(c) \subseteq Region(b)
  <2>1. Size[k] \in Nat /\ Size[op.order] = 2 * Size[k] /\ op.at \in Nat
    BY <1>1, SizeStep, SizeRecursion, NodeFacts
  <2>2. Region(c) = op.at .. (op.at + Size[k] - 1) /\ Region(b) = op.at .. (op.at + Size[op.order] - 1)
    BY <1>5 DEF Region
  <2> HIDE DEF b, c, k
  <2>3. QED
    BY <2>1, <2>2
<1> HIDE DEF b, c, k
<1>8. Abstract!CutDown
  BY <1>1, <1>3, <1>4, <1>5, <1>6, <1>7 DEF Abstract!CutDown, Abstract!Region, Region
<1>9. QED
  BY <1>8 DEF Kept, Abstract!ANext

(* Every step maps to a step of Allocator or to a stutter.                    *)
LEMMA NextKeeps == IInv /\ [Next]_vars => Kept
<1> SUFFICES ASSUME IInv, [Next]_vars PROVE Kept
  OBVIOUS
<1>1. CASE harm' = "lists"
  BY <1>1 DEF Kept
<1>2. CASE UNCHANGED vars
  BY <1>2, UsedIs DEF vars, heap, Kept, Abstract!avars
<1>3. CASE harm' # "lists" /\ Next
  <2>1. /\ Whole /\ status = "ok" /\ harm' # "lists" /\ harm # "lists" /\ Typed' /\ Typed
    BY <1>3, HarmStays, WholeIs, NextTypes DEF Next, IInv
  <2>2. CASE \E r \in Sizes : StartMalloc(r)
    <3>1. op = Idle /\ held' = held /\ op'.old = None /\ op'.call = "malloc"
      BY <2>2 DEF StartMalloc, Idle
    <3>2. Used(held', op', hdr') = Used(held, op, hdr)
      BY <3>1, TakenIs DEF Used
    <3>3. QED
      BY <2>1, <3>1, <3>2, StartKeeps
  <2>3. CASE \E b \in held : StartFree(b)
    <3>1. op = Idle
      BY <2>3 DEF StartFree
    <3>2. QED
      BY <2>1, <2>3, <3>1, StartFreeWhole, StartKeeps
  <2>4. CASE \E b \in held : \E r \in Sizes : StartRealloc(b, r)
    <3>1. op = Idle
      BY <2>4 DEF StartRealloc
    <3>2. QED
      BY <2>1, <2>4, <3>1, StartReallocWhole, StartKeeps
  <2>5. CASE \E b \in held, v \in Fills : Write(b, v)
    <3>1. op = Idle /\ op' = Idle /\ held' = held
      BY <2>5 DEF Write
    <3>2. Used(held', op', hdr') = Used(held, op, hdr)
      BY <3>1, TakenIs DEF Used
    <3>3. QED
      BY <2>1, <3>1, <3>2, Untouched
  <2>6. CASE MoreCore
    BY <2>1, <2>6, MoreCoreKeeps
  <2>7. CASE Split
    BY <2>1, <2>7, SplitKeeps
  <2>8. CASE Take
    BY <2>1, <2>8, TakeKeeps
  <2>9. CASE CheckFree
    BY <2>1, <2>9, CheckFreeKeeps
  <2>10. CASE FreeAlone \/ FreeLargest \/ FreeMerge \/ FreeLast
    BY <2>1, <2>10, FreeKeeps
  <2>11. CASE Shrink
    BY <2>1, <2>11, ShrinkKeeps
  <2>12. QED
    BY <1>3, <2>2, <2>3, <2>4, <2>5, <2>6, <2>7, <2>8, <2>9, <2>10, <2>11 DEF Next
<1>4. QED
  BY <1>1, <1>2, <1>3

(* Until a list is harmed Budmm implements Allocator: what bud_malloc returns *)
(* lies in the heap, aligned and apart from all that is in use, ENOMEM means  *)
(* that no region of the size is left, and only regions in use are taken back. *)
THEOREM PromiseIsKept == Spec => KeepsPromise
<1>1. Init => Abstract!AInit
  <2>1. ASSUME Init PROVE InUse = {} /\ op.call = "none" /\ harm = "none"
    <3>1. op = Idle /\ held = {} /\ harm = "none" /\ Idle.call = "none"
      BY <2>1 DEF Init, Idle
    <3>2. Used(held, op, hdr) = {}
      BY <3>1, TakenIs DEF Used, Owned
    <3>3. QED
      BY <3>1, <3>2, UsedIs
  <2>2. QED
    BY <2>1 DEF Abstract!AInit
<1>2. IInv /\ [Next]_vars => [Abstract!ANext \/ (harm = "lists")']_(Abstract!avars)
  BY NextKeeps DEF Kept
<1>3. QED
  BY <1>1, <1>2, Invariant, PTL DEF Spec, KeepsPromise, Abstract!ASpec
=============================================================================
