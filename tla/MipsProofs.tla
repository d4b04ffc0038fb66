----------------------------- MODULE MipsProofs -----------------------------
(******************************************************************************)
(* Proofs about MipsCodec, for every word, every argument and every address:  *)
(* decode inverts encode, and encode inverts decode; and about MipsMain, for  *)
(* any command lines, any lines and words of input and any number of them.    *)
(*                                                                            *)
(* The arithmetic of the codec is by induction over the 32 places of a word;  *)
(* then each field is shown to come back from where it is written, and no two *)
(* fields of an instruction to overlap, so that a word is taken apart into    *)
(* what it was put together from.                                             *)
(******************************************************************************)
EXTENDS MipsMain, TLAPS

-----------------------------------------------------------------------------
(* The codec. *)

(* Induction over the positions of a word, spelled out: the library's       *)
(* theorem takes an operator as a parameter.                                *)
LEMMA BitInduction ==
  ASSUME NEW S, 0 \in S, \A i \in Bits : i \in S => i + 1 \in S
  PROVE  \A i \in Bits : i \in S
<1>1. \A i \in 0 .. 31 : i \in S => i + 1 \in S
  BY DEF Bits
<1>2. /\ 1 \in S /\ 2 \in S /\ 3 \in S /\ 4 \in S /\ 5 \in S /\ 6 \in S /\ 7 \in S /\ 8 \in S
  BY <1>1
<1>3. /\ 9 \in S /\ 10 \in S /\ 11 \in S /\ 12 \in S /\ 13 \in S /\ 14 \in S /\ 15 \in S /\ 16 \in S
  BY <1>1, <1>2
<1>4. /\ 17 \in S /\ 18 \in S /\ 19 \in S /\ 20 \in S /\ 21 \in S /\ 22 \in S /\ 23 \in S /\ 24 \in S
  BY <1>1, <1>3
<1>5. /\ 25 \in S /\ 26 \in S /\ 27 \in S /\ 28 \in S /\ 29 \in S /\ 30 \in S /\ 31 \in S
  BY <1>1, <1>4
<1>6. QED
  BY <1>2, <1>3, <1>4, <1>5 DEF Bits

(* A full adder's carry out of place i, from the carry into it. *)
LEMMA CarryStep ==
  ASSUME NEW v, NEW w, NEW i \in Bits
  PROVE  Carry(v, w, i + 1) <=> (i \in v /\ i \in w) \/ (Carry(v, w, i) /\ (i \in v \/ i \in w))
BY DEF Carry, Bits

(* A full subtractor's borrow out of place i, from the borrow into it. *)
LEMMA BorrowStep ==
  ASSUME NEW v, NEW w, NEW i \in Bits
  PROVE  Borrow(v, w, i + 1) <=> (i \in w /\ i \notin v) \/ (Borrow(v, w, i) /\ (i \in v => i \in w))
BY DEF Borrow, Bits

(* Nothing is carried or borrowed into the lowest place. *)
LEMMA NoneBelow == \A v, w : ~ Carry(v, w, 0) /\ ~ Borrow(v, w, 0)
BY DEF Carry, Borrow

(* The additions of decode undo the subtractions of encode: unsigned int    *)
(* wraps in both.                                                           *)
LEMMA PlusMinus ==
  ASSUME NEW v \in Word, NEW a \in Word
  PROVE  Plus(Minus(v, a), a) = v
<1> DEFINE m == Minus(v, a)
           S == {i \in Nat : Carry(m, a, i) <=> Borrow(v, a, i)}
<1>1. \A i \in Bits : i \in m <=> Odd3(i \in v, i \in a, Borrow(v, a, i))
  BY DEF Minus
<1>2. 0 \in S
  BY NoneBelow
<1>3. ASSUME NEW i \in Bits, i \in S PROVE i + 1 \in S
  <2>1. Carry(m, a, i + 1) <=> (i \in m /\ i \in a) \/ (Carry(m, a, i) /\ (i \in m \/ i \in a))
    BY CarryStep
  <2>2. Borrow(v, a, i + 1) <=> (i \in a /\ i \notin v) \/ (Borrow(v, a, i) /\ (i \in v => i \in a))
    BY BorrowStep
  <2>3. i + 1 \in Nat
    BY DEF Bits
  <2>4. Carry(m, a, i) <=> Borrow(v, a, i)
    BY <1>3
  <2>5. i \in m <=> Odd3(i \in v, i \in a, Borrow(v, a, i))
    BY <1>1
  <2> HIDE DEF m
  <2>6. QED
    BY <2>1, <2>2, <2>3, <2>4, <2>5 DEF Odd3
<1>4. \A i \in Bits : i \in S
  <2> HIDE DEF S
  <2>1. QED BY <1>2, <1>3, BitInduction
<1>5. ASSUME NEW i \in Bits PROVE i \in Plus(m, a) <=> i \in v
  <2>1. i \in Plus(m, a) <=> Odd3(i \in m, i \in a, Carry(m, a, i))
    BY DEF Plus
  <2>2. Carry(m, a, i) <=> Borrow(v, a, i)
    BY <1>4
  <2>3. i \in m <=> Odd3(i \in v, i \in a, Borrow(v, a, i))
    BY <1>1
  <2> HIDE DEF m
  <2>4. QED
    BY <2>1, <2>2, <2>3 DEF Odd3
<1>6. Plus(m, a) \subseteq Bits /\ v \subseteq Bits
  BY DEF Plus, Word
<1>7. QED
  BY <1>5, <1>6

(* Two numbers may be added in either order: decode adds the address        *)
(* before 4, encode subtracts it before 4.                                  *)
LEMMA PlusSwap ==
  ASSUME NEW x, NEW y, NEW z
  PROVE  Plus(Plus(x, y), z) = Plus(Plus(x, z), y)
<1> DEFINE p == Plus(x, y)
           q == Plus(x, z)
           One(b) == IF b THEN 1 ELSE 0
           Same(i) == One(Carry(x, y, i)) + One(Carry(p, z, i))
                        = One(Carry(x, z, i)) + One(Carry(q, y, i))
           S == {i \in Nat : Same(i)}
<1>1. ASSUME NEW i \in Bits
      PROVE  /\ i \in p <=> Odd3(i \in x, i \in y, Carry(x, y, i))
             /\ i \in q <=> Odd3(i \in x, i \in z, Carry(x, z, i))
  BY DEF Plus
<1>2. 0 \in S
  BY NoneBelow
<1>3. ASSUME NEW i \in Bits, i \in S PROVE i + 1 \in S
  <2>1. Carry(x, y, i + 1) <=> (i \in x /\ i \in y) \/ (Carry(x, y, i) /\ (i \in x \/ i \in y))
    BY CarryStep
  <2>2. Carry(p, z, i + 1) <=> (i \in p /\ i \in z) \/ (Carry(p, z, i) /\ (i \in p \/ i \in z))
    BY CarryStep
  <2>3. Carry(x, z, i + 1) <=> (i \in x /\ i \in z) \/ (Carry(x, z, i) /\ (i \in x \/ i \in z))
    BY CarryStep
  <2>4. Carry(q, y, i + 1) <=> (i \in q /\ i \in y) \/ (Carry(q, y, i) /\ (i \in q \/ i \in y))
    BY CarryStep
  <2>5. i + 1 \in Nat
    BY DEF Bits
  <2>6. Same(i)
    BY <1>3
  <2> HIDE DEF p, q
  <2>7. Same(i + 1)
    BY <1>1, <2>1, <2>2, <2>3, <2>4, <2>6, SMTT(30) DEF Odd3
  <2>8. QED
    BY <2>5, <2>7
<1>4. \A i \in Bits : i \in S
  <2> HIDE DEF S
  <2>1. QED BY <1>2, <1>3, BitInduction
<1>5. ASSUME NEW i \in Bits PROVE i \in Plus(p, z) <=> i \in Plus(q, y)
  <2>1. /\ i \in Plus(p, z) <=> Odd3(i \in p, i \in z, Carry(p, z, i))
        /\ i \in Plus(q, y) <=> Odd3(i \in q, i \in y, Carry(q, y, i))
    BY DEF Plus
  <2>2. Same(i)
    BY <1>4
  <2> HIDE DEF p, q
  <2>3. QED
    BY <1>1, <2>1, <2>2 DEF Odd3
<1>6. Plus(p, z) \subseteq Bits /\ Plus(q, y) \subseteq Bits
  BY DEF Plus
<1>7. QED
  BY <1>5, <1>6

(* Numbers without a common one bit add up to their union, as the two       *)
(* parts of a jump target do.                                               *)
LEMMA PlusDisjoint ==
  ASSUME NEW v \in Word, NEW w \in Word, v \cap w = {}
  PROVE  Plus(v, w) = v \cup w
BY DEF Plus, Carry, Odd3, Word

(* What fits a field of k + 1 bits at place n stays there when it is        *)
(* shifted up, and comes back when it is shifted down.                      *)
LEMMA FieldBack ==
  ASSUME NEW v, NEW n \in 1 .. 31, NEW k \in Nat, n + k <= 31, v \subseteq 0 .. k
  PROVE  /\ Shl(v, n) \subseteq n .. n + k
         /\ Shr(Shl(v, n), n) = v
<1>1. Shl(v, n) = {b + n : b \in v}
  BY DEF Shl, Bits
<1>2. Shl(v, n) \subseteq n .. n + k
  BY <1>1
<1>3. Shr(Shl(v, n), n) \subseteq v
  BY <1>1 DEF Shr
<1>4. ASSUME NEW b \in v PROVE b \in Shr(Shl(v, n), n)
  <2>1. b + n \in Shl(v, n) /\ b = (b + n) - n /\ b \in Bits
    BY <1>1 DEF Bits
  <2>2. QED
    BY <2>1 DEF Shr
<1>5. QED
  BY <1>2, <1>3, <1>4

(* The bits of a word that belong to the opcode, and to a source of an argument. *)
OpField(op) ==
  26 .. 31 \cup (IF op \in DOMAIN bcondTable THEN 16 .. 20
                 ELSE IF op \in Special THEN 0 .. 5 ELSE {})

FieldOf(op, s) ==
  CASE s = "RS" -> 21 .. 25
    [] s = "RT" -> 16 .. 20
    [] s = "RD" -> 11 .. 15
    [] s = "EXTRA" /\ op = "BREAK" -> 6 .. 25
    [] s = "EXTRA" /\ op # "BREAK" /\ instrTable(op).type = "RTYP" -> 6 .. 10
    [] s = "EXTRA" /\ op # "BREAK" /\ instrTable(op).type = "ITYP" -> 0 .. 15
    [] s = "EXTRA" /\ op # "BREAK" /\ instrTable(op).type = "JTYP" -> 0 .. 25
    [] OTHER -> {}

(* A six-bit field is an index of a table of 64 rows. *)
LEMMA Num6Range == \A f \in Field6 : Num6(f) \in 0 .. 63
BY DEF Num6

(* The forms of instrTable: which sources an instruction takes its          *)
(* arguments from, by its type.                                             *)
LEMMA Forms ==
  ASSUME NEW op
  PROVE  LET info == instrTable(op) IN
    \/ /\ info.type = "RTYP" /\ op # "BREAK"
       /\ info.srcs \in {
         <<"RD", "RS", "RT">>, <<"RD", "RT", "EXTRA">>, <<"RD", "RT", "RS">>,
         <<"RS", "RT", "NSRC">>, <<"RD", "RS", "NSRC">>, <<"RS", "NSRC", "NSRC">>,
         <<"RD", "NSRC", "NSRC">>, <<"NSRC", "NSRC", "NSRC">>}
    \/ info.type = "RTYP" /\ info.srcs = <<"EXTRA", "NSRC", "NSRC">> /\ op = "BREAK"
    \/ /\ info.type = "ITYP" /\ op # "BREAK"
       /\ info.srcs \in {
         <<"RT", "RS", "EXTRA">>, <<"RS", "RT", "EXTRA">>, <<"RS", "EXTRA", "NSRC">>,
         <<"RT", "EXTRA", "RS">>, <<"RT", "EXTRA", "NSRC">>}
    \/ info.type = "JTYP" /\ info.srcs = <<"EXTRA", "NSRC", "NSRC">> /\ op # "BREAK"
    \/ info.type = "NTYP" /\ info.srcs = <<"NSRC", "NSRC", "NSRC">> /\ op # "BREAK"
<1>1. \/ op = "BREAK" /\ instrTable(op) = Info("RTYP", "EXTRA", "NSRC", "NSRC")
      \/ /\ op # "BREAK"
         /\ instrTable(op) \in
              {Info("RTYP", "RD", "RS", "RT"), Info("RTYP", "RD", "RT", "EXTRA"),
               Info("RTYP", "RD", "RT", "RS"), Info("RTYP", "RS", "RT", "NSRC"),
               Info("RTYP", "RD", "RS", "NSRC"), Info("RTYP", "RS", "NSRC", "NSRC"),
               Info("RTYP", "RD", "NSRC", "NSRC"), Info("RTYP", "NSRC", "NSRC", "NSRC"),
               Info("ITYP", "RT", "RS", "EXTRA"), Info("ITYP", "RS", "RT", "EXTRA"),
               Info("ITYP", "RS", "EXTRA", "NSRC"), Info("ITYP", "RT", "EXTRA", "RS"),
               Info("ITYP", "RT", "EXTRA", "NSRC"), Info("JTYP", "EXTRA", "NSRC", "NSRC"),
               Info("NTYP", "NSRC", "NSRC", "NSRC")}
  BY DEF instrTable
<1>2. QED
  BY <1>1 DEF Info

(* specialTable holds register instructions only. *)
LEMMA SpecialRows ==
  \A n \in 1 .. 48 : instrTable(specialRows[n]).type \in {"RTYP", "NTYP"}
BY DEF specialRows, instrTable, Info

(* opcodeTable holds immediate and jump instructions only. *)
LEMMA OpcodeRows ==
  \A n \in 1 .. 64 : instrTable(opcodeRows[n]).type \in {"ITYP", "JTYP", "NTYP"}
BY DEF opcodeRows, instrTable, Info

(* The BCOND instructions: a register, an offset, and bits 20 to 16 for     *)
(* the rest of the opcode.                                                  *)
LEMMA BcondRows ==
  \A op \in DOMAIN bcondTable : /\ instrTable(op).type = "ITYP"
                                /\ instrTable(op).srcs = <<"RS", "EXTRA", "NSRC">>
                                /\ bcondTable[op] \subseteq 16 .. 20
                                /\ op # "BREAK"
BY DEF bcondTable, instrTable, Info

(* The type of an instruction says which table encode finds it in. *)
LEMMA Types ==
  ASSUME NEW op \in Encodable
  PROVE  /\ op \in Special => instrTable(op).type = "RTYP"
         /\ op \notin Special => instrTable(op).type \in {"ITYP", "JTYP"}
<1>1. instrTable(op).type # "NTYP" /\ op \in Mnemonics
  BY DEF Encodable
<1>2. ASSUME op \in Special PROVE instrTable(op).type \in {"RTYP", "NTYP"}
  <2>1. PICK f \in Field6 : op = specialTable[f]
    BY <1>2 DEF Special
  <2>2. op = (IF Num6(f) < Len(specialRows) THEN specialRows[Num6(f) + 1] ELSE "ILLEGL")
    BY <2>1 DEF specialTable
  <2>3. Len(specialRows) = 48
    BY DEF specialRows
  <2>4. CASE Num6(f) < 48
    <3>1. Num6(f) + 1 \in 1 .. 48
      BY <2>4, Num6Range
    <3>2. QED
      BY <2>2, <2>3, <2>4, <3>1, SpecialRows
  <2>5. CASE ~ (Num6(f) < 48)
    <3>1. instrTable("ILLEGL").type = "NTYP"
      BY DEF instrTable, Info
    <3>2. QED
      BY <2>2, <2>3, <2>5, <3>1
  <2>6. QED
    BY <2>4, <2>5
<1>3. ASSUME op \notin Special PROVE instrTable(op).type \in {"ITYP", "JTYP", "NTYP"}
  <2>1. CASE op \in DOMAIN bcondTable
    BY <2>1, BcondRows
  <2>2. CASE op \in {opcodeTable[f] : f \in Field6}
    <3>1. PICK f \in Field6 : op = opcodeTable[f]
      BY <2>2
    <3>2. op = opcodeRows[Num6(f) + 1] /\ Num6(f) + 1 \in 1 .. 64
      BY <3>1, Num6Range DEF opcodeTable
    <3>3. QED
      BY <3>2, OpcodeRows
  <2>3. QED
    BY <1>1, <1>3, <2>1, <2>2 DEF Mnemonics, Special
<1>4. QED
  BY <1>1, <1>2, <1>3

(* No field of an instruction overlaps another or the opcode (encode's      *)
(* shifts, hw1.c:291-451).                                                  *)
LEMMA Layout ==
  ASSUME NEW op \in Encodable, NEW i \in 1 .. 3
  PROVE  LET s == instrTable(op).srcs IN
         /\ FieldOf(op, s[i]) \cap OpField(op) = {}
         /\ \A j \in 1 .. 3 \ {i} : FieldOf(op, s[i]) \cap FieldOf(op, s[j]) = {}
<1> DEFINE s == instrTable(op).srcs
<1> USE DEF FieldOf, OpField
<1>0. i = 1 \/ i = 2 \/ i = 3
  OBVIOUS
<1>1. CASE op \in Special
  <2>1. instrTable(op).type = "RTYP" /\ op \notin DOMAIN bcondTable
    BY <1>1, Types, BcondRows
  <2>2. CASE op = "BREAK"
    <3>1. s = <<"EXTRA", "NSRC", "NSRC">>
      BY <2>1, <2>2, Forms
    <3>2. QED
      BY <1>0, <1>1, <2>1, <2>2, <3>1
  <2>3. CASE op # "BREAK"
    <3>1. s \in {
         <<"RD", "RS", "RT">>, <<"RD", "RT", "EXTRA">>, <<"RD", "RT", "RS">>,
         <<"RS", "RT", "NSRC">>, <<"RD", "RS", "NSRC">>, <<"RS", "NSRC", "NSRC">>,
         <<"RD", "NSRC", "NSRC">>, <<"NSRC", "NSRC", "NSRC">>}
      BY <2>1, <2>3, Forms
    <3>2. QED
      BY <1>0, <1>1, <2>1, <2>3, <3>1
  <2>4. QED
    BY <2>2, <2>3
<1>2. CASE op \notin Special
  <2>1. instrTable(op).type \in {"ITYP", "JTYP"} /\ op # "BREAK"
    BY <1>2, Types, Forms
  <2>2. CASE op \in DOMAIN bcondTable
    BY <1>0, <1>2, <2>1, <2>2, BcondRows
  <2>3. CASE op \notin DOMAIN bcondTable /\ instrTable(op).type = "ITYP"
    <3>1. s \in {
         <<"RT", "RS", "EXTRA">>, <<"RS", "RT", "EXTRA">>, <<"RS", "EXTRA", "NSRC">>,
         <<"RT", "EXTRA", "RS">>, <<"RT", "EXTRA", "NSRC">>}
      BY <2>3, Forms
    <3>2. QED
      BY <1>0, <1>2, <2>1, <2>3, <3>1
  <2>4. CASE op \notin DOMAIN bcondTable /\ instrTable(op).type = "JTYP"
    <3>1. s = <<"EXTRA", "NSRC", "NSRC">>
      BY <2>4, Forms
    <3>2. QED
      BY <1>0, <1>2, <2>1, <2>4, <3>1
  <2>5. QED
    BY <2>1, <2>2, <2>3, <2>4
<1>3. QED
  BY <1>1, <1>2

(* The six bits of an opcode lie above all others. *)
LEMMA ShlPlace ==
  ASSUME NEW f, f \subseteq 0 .. 5
  PROVE  Shl(f, 26) \subseteq 26 .. 31 /\ Shr(Shl(f, 26), 26) = f
<1>1. /\ 26 \in 1 .. 31 /\ 5 \in Nat /\ 26 + 5 <= 31 /\ 26 + 5 = 31
  OBVIOUS
<1>2. QED
  BY <1>1, FieldBack

(* Shifting down by 26 leaves the opcode field only (decode,                *)
(* hw1.c:476-520).                                                          *)
LEMMA ShrPlace ==
  ASSUME NEW w \in Word
  PROVE  Shr(w, 26) = Shr(w \cap 26 .. 31, 26)
<1>1. \A b \in w : b - 26 \in Bits => b \in 26 .. 31
  BY DEF Word, Bits
<1>2. QED
  BY <1>1 DEF Shr

(* What encode begins with stays inside the opcode's bits. *)
LEMMA OpBitsPlace ==
  ASSUME NEW op \in Encodable
  PROVE  OpBits[op] \subseteq OpField(op)
<1>1. CASE op \in DOMAIN bcondTable
  <2>1. OpBits[op] = {26} \cup bcondTable[op]
    BY <1>1 DEF OpBits
  <2>2. QED
    BY <1>1, <2>1, BcondRows DEF OpField
<1>2. CASE op \notin DOMAIN bcondTable /\ op \in Special
  <2>1. OpBits[op] = CHOOSE f \in Field6 : specialTable[f] = op
    BY <1>2 DEF OpBits
  <2>2. \E f \in Field6 : specialTable[f] = op
    BY <1>2 DEF Special
  <2>3. QED
    BY <1>2, <2>1, <2>2 DEF OpField, Field6
<1>3. CASE op \notin DOMAIN bcondTable /\ op \notin Special
  <2>1. OpBits[op] = Shl(CHOOSE g \in Field6 : opcodeTable[g] = op, 26)
    BY <1>3 DEF OpBits
  <2>2. \E f \in Field6 : opcodeTable[f] = op
    BY <1>3 DEF Encodable, Mnemonics, Special
  <2>3. (CHOOSE g \in Field6 : opcodeTable[g] = op) \subseteq 0 .. 5
    BY <2>2 DEF Field6
  <2> DEFINE f == CHOOSE g \in Field6 : opcodeTable[g] = op
  <2> HIDE DEF f
  <2>4. Shl(f, 26) \subseteq 26 .. 31
    BY <2>3, ShlPlace DEF f
  <2>5. QED
    BY <2>1, <2>4 DEF OpField, f
<1>4. QED
  BY <1>1, <1>2, <1>3

(* The first two rows of opcodeTable refer to the other tables. *)
LEMMA FirstOpcodes == opcodeTable[{}] = "SPECIAL" /\ opcodeTable[{0}] = "BCOND"
BY DEF opcodeTable, Num6, Field6, opcodeRows

(* decode reads the opcode that encode wrote, whatever the arguments are. *)
LEMMA OpcodeBack ==
  ASSUME NEW op \in Encodable, NEW w \in Word, w \cap OpField(op) = OpBits[op]
  PROVE  OpOf(w) = op
<1>0. w \cap 26 .. 31 = OpBits[op] \cap 26 .. 31
  BY DEF OpField
<1>1. CASE op \in DOMAIN bcondTable
  <2>1. OpBits[op] = {26} \cup bcondTable[op]
    BY <1>1 DEF OpBits
  <2>2. w \cap 26 .. 31 = {26}
    BY <1>0, <1>1, <2>1, BcondRows
  <2>3. Shr(w, 26) = {0}
    <3>1. Shr(w \cap 26 .. 31, 26) = {0}
      BY <2>2 DEF Shr, Bits
    <3>2. QED
      BY <3>1, ShrPlace
  <2>4. w \cap 16 .. 20 = bcondTable[op]
    BY <1>1, <2>1, BcondRows DEF OpField
  <2>5. \A b, c \in DOMAIN bcondTable : bcondTable[b] = bcondTable[c] => b = c
    BY DEF bcondTable
  <2>6. (CHOOSE b \in DOMAIN bcondTable : bcondTable[b] = w \cap 16 .. 20) = op
    BY <1>1, <2>4, <2>5
  <2>7. QED
    BY <1>1, <2>3, <2>4, <2>6, FirstOpcodes DEF OpOf
<1>2. CASE op \notin DOMAIN bcondTable /\ op \in Special
  <2>1. OpBits[op] = CHOOSE f \in Field6 : specialTable[f] = op
    BY <1>2 DEF OpBits
  <2>2. \E f \in Field6 : specialTable[f] = op
    BY <1>2 DEF Special
  <2>3. OpBits[op] \in Field6 /\ specialTable[OpBits[op]] = op
    BY <2>1, <2>2
  <2>4. w \cap 0 .. 5 = OpBits[op] /\ w \cap 26 .. 31 = {}
    BY <1>2, <2>3 DEF OpField, Field6
  <2>5. Shr(w, 26) = {}
    <3>1. Shr(w \cap 26 .. 31, 26) = {}
      BY <2>4 DEF Shr
    <3>2. QED
      BY <3>1, ShrPlace
  <2>6. QED
    BY <2>3, <2>4, <2>5, FirstOpcodes DEF OpOf
<1>3. CASE op \notin DOMAIN bcondTable /\ op \notin Special
  <2> DEFINE f == CHOOSE g \in Field6 : opcodeTable[g] = op
  <2>1. OpBits[op] = Shl(f, 26)
    BY <1>3 DEF OpBits
  <2>2. \E g \in Field6 : opcodeTable[g] = op
    BY <1>3 DEF Encodable, Mnemonics, Special
  <2>3. f \in Field6 /\ opcodeTable[f] = op /\ f \subseteq 0 .. 5
    BY <2>2 DEF Field6
  <2> HIDE DEF f
  <2>4. w \cap 26 .. 31 = Shl(f, 26)
    <3>1. Shl(f, 26) \subseteq 26 .. 31
      BY <2>3, ShlPlace
    <3>2. QED
      BY <1>0, <2>1, <3>1
  <2>5. Shr(w, 26) = Shr(Shl(f, 26), 26)
    BY <2>4, ShrPlace
  <2>6. opcodeTable[Shr(w, 26)] = op
    <3>1. Shr(Shl(f, 26), 26) = f
      BY <2>3, ShlPlace
    <3>2. QED
      BY <2>3, <2>5, <3>1
  <2>7. op # "SPECIAL" /\ op # "BCOND"
    BY DEF Encodable, instrTable, Info
  <2>8. QED
    BY <2>6, <2>7 DEF OpOf
<1>4. QED
  BY <1>1, <1>2, <1>3

(* Five-bit numbers come back from the four places they are written to. *)
LEMMA RegisterBack ==
  ASSUME NEW v, v \subseteq 0 .. 4
  PROVE  /\ Shl(v, 6) \subseteq 6 .. 10 /\ Shr(Shl(v, 6), 6) = v
         /\ Shl(v, 11) \subseteq 11 .. 15 /\ Shr(Shl(v, 11), 11) = v
         /\ Shl(v, 16) \subseteq 16 .. 20 /\ Shr(Shl(v, 16), 16) = v
         /\ Shl(v, 21) \subseteq 21 .. 25 /\ Shr(Shl(v, 21), 21) = v
<1>1. \A n \in 1 .. 27 : /\ Shl(v, n) \subseteq n .. n + 4
                         /\ Shr(Shl(v, n), n) = v
  <2>1. \A n \in 1 .. 27 : n \in 1 .. 31 /\ 4 \in Nat /\ n + 4 <= 31
    OBVIOUS
  <2>2. QED
    BY <2>1, FieldBack
<1>2. /\ 6 \in 1 .. 27 /\ 6 + 4 = 10 /\ 11 \in 1 .. 27 /\ 11 + 4 = 15
      /\ 16 \in 1 .. 27 /\ 16 + 4 = 20 /\ 21 \in 1 .. 27 /\ 21 + 4 = 25
  OBVIOUS
<1>3. QED
  BY <1>1, <1>2

(* The 20-bit code of BREAK comes back. *)
LEMMA CodeBack ==
  ASSUME NEW v, v \subseteq 0 .. 19
  PROVE  /\ Shl(v, 6) \subseteq 6 .. 25
         /\ Shr(Shl(v, 6), 6) = v
<1>1. 6 \in 1 .. 31 /\ 19 \in Nat /\ 6 + 19 <= 31 /\ 6 + 19 = 25
  OBVIOUS
<1>2. QED
  BY <1>1, FieldBack

(* Shifting a word moves its bits. *)
LEMMA InShifted ==
  ASSUME NEW w \in Word, NEW n \in Nat
  PROVE  /\ \A b \in Bits : b \in Shl(w, n) <=> b - n \in w
         /\ \A b \in Bits : b \in Shr(w, n) <=> b + n \in w
         /\ Shl(w, n) \in Word /\ Shr(w, n) \in Word
<1>1. ASSUME NEW b \in Bits PROVE b \in Shl(w, n) <=> b - n \in w
  <2>1. b \in Shl(w, n) <=> \E c \in w : b = c + n
    BY DEF Shl
  <2>2. \A c \in w : c \in Int /\ (b = c + n <=> c = b - n)
    BY DEF Word, Bits
  <2>3. QED
    BY <2>1, <2>2
<1>2. ASSUME NEW b \in Bits PROVE b \in Shr(w, n) <=> b + n \in w
  <2>1. b \in Shr(w, n) <=> \E c \in w : b = c - n
    BY DEF Shr
  <2>2. \A c \in w : c \in Int /\ (b = c - n <=> c = b + n)
    BY DEF Word, Bits
  <2>3. QED
    BY <2>1, <2>2
<1>3. QED
  BY <1>1, <1>2 DEF Shl, Shr, Word

(* A 16-bit two's complement number comes back by sign extension. *)
LEMMA ImmediateBack ==
  ASSUME NEW v \in Word, v \cap 15 .. 31 \in {{}, 15 .. 31}
  PROVE  SignExtend(v \cap 0 .. 15) = v
<1>1. \A b \in v : b \in 0 .. 31
  BY DEF Word, Bits
<1>2. CASE v \cap 15 .. 31 = {}
  <2>1. 15 \notin v /\ \A b \in v : b \in 0 .. 15
    BY <1>1, <1>2
  <2>2. QED
    BY <2>1 DEF SignExtend
<1>3. CASE v \cap 15 .. 31 = 15 .. 31
  <2>1. \A b \in 15 .. 31 : b \in v
    BY <1>3
  <2>2. \A b \in 0 .. 31 : b \in 0 .. 15 \/ b \in 16 .. 31
    OBVIOUS
  <2>3. 15 \in v \cap 0 .. 15 /\ \A b \in 16 .. 31 : b \in 15 .. 31
    BY <2>1
  <2>4. QED
    BY <1>1, <2>1, <2>2, <2>3 DEF SignExtend
<1>4. QED
  BY <1>2, <1>3

(* The distance of a branch, in words, comes back if it is a multiple of    *)
(* four and fits 18 bits.                                                   *)
LEMMA OffsetBack ==
  ASSUME NEW o \in Word, o \cap 0 .. 1 = {}, o \cap 17 .. 31 \in {{}, 17 .. 31}
  PROVE  Shl(SignExtend(Sar(o, 2) \cap 0 .. 15), 2) = o
<1> DEFINE f == Sar(o, 2) \cap 0 .. 15
           e == SignExtend(f)
<1>1. \A b \in 0 .. 15 : b \in f <=> b + 2 \in o
  <2>1. \A b \in 0 .. 15 : b \in Bits /\ b \notin 30 .. 31
    BY DEF Bits
  <2>2. \A b \in 0 .. 15 : b \in Sar(o, 2) <=> b \in Shr(o, 2)
    BY <2>1 DEF Sar
  <2>3. QED
    BY <2>1, <2>2, InShifted
<1>2. f \subseteq 0 .. 15
  OBVIOUS
<1>3. \A b \in Bits : b \in e <=> (b \in 0 .. 15 /\ b \in f) \/ (b \in 16 .. 31 /\ 15 \in f)
  BY <1>2 DEF SignExtend, Bits
<1>4. e \in Word
  BY <1>2 DEF SignExtend, Bits, Word
<1> HIDE DEF f, e
<1>5. \A b \in Bits : b \in Shl(e, 2) <=> b - 2 \in e
  BY <1>4, InShifted
<1>6. ASSUME NEW b \in Bits PROVE b \in Shl(e, 2) <=> b \in o
  <2>0. e \subseteq 0 .. 31 /\ (17 \in o <=> 15 \in f)
    BY <1>1, <1>4 DEF Word, Bits
  <2>1. CASE b \in 0 .. 1
    BY <2>0, <2>1, <1>5
  <2>2. CASE b \in 2 .. 17
    <3>1. b - 2 \in 0 .. 15 /\ b - 2 \in Bits /\ (b - 2) + 2 = b
      BY <2>2 DEF Bits
    <3>2. QED
      BY <3>1, <1>1, <1>3, <1>5
  <2>3. CASE b \in 18 .. 31
    <3>1. b - 2 \in 16 .. 31 /\ b - 2 \in Bits /\ b - 2 \notin 0 .. 15
      BY <2>3 DEF Bits
    <3>2. b - 2 \in e <=> 15 \in f
      BY <3>1, <1>3
    <3>3. b \in 17 .. 31 /\ 17 \in 17 .. 31
      BY <2>3
    <3>4. b \in o <=> 17 \in o
      BY <3>3
    <3>5. QED
      BY <2>0, <3>2, <3>4, <1>5
  <2>4. QED
    BY <2>1, <2>2, <2>3 DEF Bits
<1>7. Shl(e, 2) \subseteq Bits /\ o \subseteq Bits
  BY DEF Shl, Word
<1>8. Shl(e, 2) = o
  BY <1>6, <1>7
<1>9. QED
  BY <1>8 DEF e, f

(* The distance of a branch added to its place gives the target again. *)
LEMMA TargetBack ==
  ASSUME NEW v \in Word, NEW a \in Word
  PROVE  Plus(Plus(Offset(v, a), a), Four) = v
<1>1. Minus(v, a) \in Word /\ Minus(Minus(v, a), Four) \in Word /\ Four \in Word
  BY DEF Minus, Word, Four, Bits
<1>2. Plus(Plus(Offset(v, a), a), Four) = Plus(Plus(Offset(v, a), Four), a)
  BY PlusSwap
<1>3. Plus(Offset(v, a), Four) = Minus(v, a)
  BY <1>1, PlusMinus DEF Offset
<1>4. QED
  BY <1>2, <1>3, PlusMinus

(* The shifts of encode take bits 27 to 2 of a jump's target. *)
LEMMA JumpField ==
  ASSUME NEW v \in Word
  PROVE  LET j == Shr(Shr(Shl(v, 4), 4), 2) IN
         /\ j \subseteq 0 .. 25
         /\ \A b \in 0 .. 25 : b \in j <=> b + 2 \in v
<1> DEFINE u == Shl(v, 4)
           x == Shr(u, 4)
           j == Shr(x, 2)
<1>1. u \in Word /\ \A b \in Bits : b \in u <=> b - 4 \in v
  BY InShifted
<1> HIDE DEF u
<1>2. x \in Word /\ \A b \in Bits : b \in x <=> b + 4 \in u
  BY <1>1, InShifted
<1> HIDE DEF x
<1>3. j \in Word /\ \A b \in Bits : b \in j <=> b + 2 \in x
  BY <1>2, InShifted
<1> HIDE DEF j
<1>4. \A b \in Bits : b \in x <=> b \in 0 .. 27 /\ b \in v
  BY <1>1, <1>2 DEF Bits, Word
<1>5. \A b \in Bits : b \in j <=> b \in 0 .. 25 /\ b + 2 \in v
  BY <1>2, <1>3, <1>4 DEF Bits, Word
<1>6. j \subseteq 0 .. 25 /\ \A b \in 0 .. 25 : b \in j <=> b + 2 \in v
  BY <1>3, <1>5 DEF Bits, Word
<1>7. QED
  BY <1>6 DEF u, x, j

(* With the upper bits of the address after the jump, those give the        *)
(* target again.                                                            *)
LEMMA JumpBack ==
  ASSUME NEW v \in Word, v \cap 0 .. 1 = {}, NEW p, v \cap 28 .. 31 = p \cap 28 .. 31,
         NEW j, j \subseteq 0 .. 25, \A b \in 0 .. 25 : b \in j <=> b + 2 \in v
  PROVE  Plus(p \cap 28 .. 31, Shl(j, 2)) = v
<1>1. j \in Word
  BY DEF Word, Bits
<1>2. \A b \in Bits : b \in Shl(j, 2) <=> b - 2 \in j
  BY <1>1, InShifted
<1>3. ASSUME NEW b \in Bits PROVE b \in Shl(j, 2) <=> b \in 2 .. 27 /\ b \in v
  <2>1. CASE b \in 2 .. 27
    <3>1. b - 2 \in 0 .. 25 /\ (b - 2) + 2 = b
      BY <2>1
    <3>2. QED
      BY <2>1, <3>1, <1>2
  <2>2. CASE b \notin 2 .. 27
    <3>1. b - 2 \notin 0 .. 25
      BY <2>2 DEF Bits
    <3>2. QED
      BY <2>2, <3>1, <1>2
  <2>3. QED
    BY <2>1, <2>2
<1>4. Shl(j, 2) \in Word
  BY <1>1, InShifted
<1>5. Shl(j, 2) = v \cap 2 .. 27
  BY <1>3, <1>4 DEF Word, Bits
<1>6. v \cap 28 .. 31 \in Word /\ v \cap 2 .. 27 \in Word
  BY DEF Word
<1>7. (v \cap 28 .. 31) \cap (v \cap 2 .. 27) = {}
  OBVIOUS
<1>8. Plus(v \cap 28 .. 31, v \cap 2 .. 27) = (v \cap 28 .. 31) \cup (v \cap 2 .. 27)
  BY <1>6, <1>7, PlusDisjoint
<1>9. (v \cap 28 .. 31) \cup (v \cap 2 .. 27) = v
  <2>1. ASSUME NEW b \in v PROVE b \in 28 .. 31 \/ b \in 2 .. 27
    <3>1. b \in 0 .. 31 /\ b \notin 0 .. 1
      BY DEF Word, Bits
    <3>2. QED
      BY <3>1
  <2>2. QED
    BY <2>1
<1>10. QED
  BY <1>5, <1>8, <1>9

(* Branches are immediate instructions. *)
LEMMA BranchTypes == \A op \in Branches : instrTable(op).type = "ITYP" /\ op # "BREAK"
BY DEF Branches, instrTable, Info

(* An argument that fits, or is masked, stays in its field. *)
LEMMA ArgPlace ==
  ASSUME NEW op, NEW s, NEW v \in Word, NEW a,
         Masked(op, s) \/ Fits(op, s, v, a)
  PROVE  ArgBits(op, s, v, a) \subseteq FieldOf(op, s)
<1> USE DEF FieldOf, ArgBits
<1>1. CASE s \in {"RS", "RT", "RD"}
  <2>1. v \subseteq 0 .. 4
    BY <1>1 DEF Masked, Fits
  <2>2. /\ Shl(v, 21) \subseteq 21 .. 25
        /\ Shl(v, 16) \subseteq 16 .. 20
        /\ Shl(v, 11) \subseteq 11 .. 15
    BY <2>1, RegisterBack
  <2>3. QED
    BY <1>1, <2>2
<1>2. CASE s = "EXTRA" /\ instrTable(op).type = "RTYP"
  <2>1. CASE op = "BREAK"
    <3>1. v \subseteq 0 .. 19
      BY <1>2, <2>1 DEF Masked, Fits, Branches
    <3>2. Shl(v, 6) \subseteq 6 .. 25
      BY <3>1, CodeBack
    <3>3. QED
      BY <1>2, <2>1, <3>2
  <2>2. CASE op # "BREAK"
    <3>1. v \subseteq 0 .. 4
      BY <1>2, <2>2, BranchTypes DEF Masked, Fits
    <3>2. Shl(v, 6) \subseteq 6 .. 10
      BY <3>1, RegisterBack
    <3>3. QED
      BY <1>2, <2>2, <3>2
  <2>3. QED
    BY <2>1, <2>2
<1>3. CASE s = "EXTRA" /\ instrTable(op).type = "ITYP"
  <2>1. op # "BREAK"
    BY <1>3, Forms
  <2>2. QED
    BY <1>3, <2>1
<1>4. CASE s = "EXTRA" /\ instrTable(op).type = "JTYP"
  <2>1. op # "BREAK"
    BY <1>4, Forms
  <2>2. QED
    BY <1>4, <2>1, JumpField
<1>5. CASE s = "EXTRA" /\ instrTable(op).type \notin {"RTYP", "ITYP", "JTYP"}
  BY <1>5
<1>6. CASE s \notin {"RS", "RT", "RD", "EXTRA"}
  BY <1>6
<1>7. QED
  BY <1>1, <1>2, <1>3, <1>4, <1>5, <1>6

(* An argument that fits is what decode finds in its field. *)
LEMMA ArgBack ==
  ASSUME NEW op \in Encodable, NEW s \in {"RS", "RT", "RD", "EXTRA"},
         NEW v \in Word, NEW a \in Word, Fits(op, s, v, a),
         NEW w \in Word, w \cap FieldOf(op, s) = ArgBits(op, s, v, a)
  PROVE  ArgOf(op, s, w, a) = v
<1>1. CASE s \in {"RS", "RT", "RD"}
  <2>1. v \subseteq 0 .. 4
    BY <1>1 DEF Fits
  <2>2. /\ Shr(Shl(v, 21), 21) = v
        /\ Shr(Shl(v, 16), 16) = v
        /\ Shr(Shl(v, 11), 11) = v
    BY <2>1, RegisterBack
  <2>3. QED
    BY <1>1, <2>2 DEF ArgOf, ArgBits, FieldOf
<1>2. CASE s = "EXTRA" /\ instrTable(op).type = "RTYP"
  <2>1. CASE op = "BREAK"
    <3>1. v \subseteq 0 .. 19
      BY <1>2, <2>1 DEF Fits, Branches
    <3>2. w \cap 6 .. 25 = Shl(v, 6)
      BY <1>2, <2>1 DEF ArgBits, FieldOf
    <3>3. ArgOf(op, s, w, a) = Shr(w \cap 6 .. 25, 6)
      BY <1>2, <2>1 DEF ArgOf
    <3>4. Shr(Shl(v, 6), 6) = v
      BY <3>1, CodeBack
    <3>5. QED
      BY <3>2, <3>3, <3>4
  <2>2. CASE op # "BREAK"
    <3>1. v \subseteq 0 .. 4
      BY <1>2, <2>2, BranchTypes DEF Fits
    <3>2. w \cap 6 .. 10 = Shl(v, 6)
      BY <1>2, <2>2 DEF ArgBits, FieldOf
    <3>3. ArgOf(op, s, w, a) = Shr(w \cap 6 .. 10, 6)
      BY <1>2, <2>2 DEF ArgOf
    <3>4. Shr(Shl(v, 6), 6) = v
      BY <3>1, RegisterBack
    <3>5. QED
      BY <3>2, <3>3, <3>4
  <2>3. QED
    BY <2>1, <2>2
<1>3. CASE s = "EXTRA" /\ instrTable(op).type = "ITYP" /\ op \in Branches
  <2>1. op # "BREAK"
    BY <1>3, Forms
  <2> DEFINE o == Offset(v, a)
  <2>2. o \in Word /\ o \cap 0 .. 1 = {} /\ o \cap 17 .. 31 \in {{}, 17 .. 31}
    BY <1>3, <2>1 DEF Fits, Offset, Minus, Word
  <2>3. w \cap 0 .. 15 = Sar(o, 2) \cap 0 .. 15
    BY <1>3, <2>1 DEF ArgBits, FieldOf
  <2>4. ArgOf(op, s, w, a) = Plus(Plus(Shl(SignExtend(w \cap 0 .. 15), 2), a), Four)
    BY <1>3, <2>1 DEF ArgOf
  <2>5. Shl(SignExtend(w \cap 0 .. 15), 2) = o
    <3> HIDE DEF o
    <3>1. QED
      BY <2>2, <2>3, OffsetBack
  <2>6. QED
    BY <2>4, <2>5, TargetBack
<1>4. CASE s = "EXTRA" /\ instrTable(op).type = "ITYP" /\ op \notin Branches
  <2>1. op # "BREAK"
    BY <1>4, Forms
  <2>2. v \cap 15 .. 31 \in {{}, 15 .. 31}
    BY <1>4, <2>1 DEF Fits
  <2>3. w \cap 0 .. 15 = v \cap 0 .. 15
    BY <1>4, <2>1 DEF ArgBits, FieldOf
  <2>4. ArgOf(op, s, w, a) = SignExtend(w \cap 0 .. 15)
    BY <1>4, <2>1 DEF ArgOf
  <2>5. QED
    BY <2>2, <2>3, <2>4, ImmediateBack
<1>5. CASE s = "EXTRA" /\ instrTable(op).type = "JTYP"
  <2>1. op # "BREAK" /\ op \notin Branches
    BY <1>5, Forms, BranchTypes
  <2>2. v \cap 0 .. 1 = {} /\ v \cap 28 .. 31 = Plus(a, Four) \cap 28 .. 31
    BY <1>5, <2>1 DEF Fits
  <2>3. w \cap 0 .. 25 = Shr(Shr(Shl(v, 4), 4), 2)
    BY <1>5, <2>1 DEF ArgBits, FieldOf
  <2>4. ArgOf(op, s, w, a) = Plus(Plus(a, Four) \cap 28 .. 31, Shl(w \cap 0 .. 25, 2))
    BY <1>5, <2>1 DEF ArgOf
  <2>5. /\ w \cap 0 .. 25 \subseteq 0 .. 25
        /\ \A b \in 0 .. 25 : b \in w \cap 0 .. 25 <=> b + 2 \in v
    BY <2>3, JumpField
  <2>6. QED
    BY <2>2, <2>4, <2>5, JumpBack
<1>6. instrTable(op).type \in {"RTYP", "ITYP", "JTYP"}
  BY Types
<1>7. QED
  BY <1>1, <1>2, <1>3, <1>4, <1>5, <1>6

(* An argument's bits are bits of a word. *)
LEMMA ArgWords == \A op, s, v, a : ArgBits(op, s, v, a) \subseteq Bits
BY DEF ArgBits, Shl, Shr, Bits

(* decode inverts encode: a word encoded from arguments of which the        *)
(* unmasked ones fit decodes to the same instruction, and to each argument  *)
(* that fits, at every address (hw1.c:291-451 against 476-635).             *)
THEOREM DecodeInvertsEncode ==
  ASSUME NEW op \in Encodable, NEW args \in [1 .. 3 -> Word], NEW a \in Word,
         \A i \in 1 .. 3 : \/ Masked(op, instrTable(op).srcs[i])
                           \/ Fits(op, instrTable(op).srcs[i], args[i], a)
  PROVE  LET w == EncodedWord(op, args, a)
             s == instrTable(op).srcs
         IN  /\ OpOf(w) = op
             /\ \A i \in 1 .. 3 : s[i] # "NSRC" /\ Fits(op, s[i], args[i], a)
                                    => DecodedArgs(w, a)[i] = args[i]
<1> DEFINE w == EncodedWord(op, args, a)
           s == instrTable(op).srcs
           p(i) == ArgBits(op, s[i], args[i], a)
<1>1. w = OpBits[op] \cup p(1) \cup p(2) \cup p(3)
  BY DEF EncodedWord
<1>2. \A i \in 1 .. 3 : p(i) \subseteq FieldOf(op, s[i])
  BY ArgPlace
<1>3. \A i \in 1 .. 3 : s[i] \in {"RS", "RT", "RD", "EXTRA", "NSRC"}
  BY Forms
<1>4. \A i \in 1 .. 3 : FieldOf(op, s[i]) \cap OpField(op) = {}
  BY Layout
<1>5. \A i \in 1 .. 3 : \A j \in 1 .. 3 \ {i} : FieldOf(op, s[i]) \cap FieldOf(op, s[j]) = {}
  BY Layout
<1>6. OpBits[op] \subseteq OpField(op)
  BY OpBitsPlace
<1>7. OpField(op) \subseteq Bits
  BY DEF OpField, Bits
<1>8. w \in Word
  BY <1>1, <1>6, <1>7, ArgWords DEF Word
<1> HIDE DEF w, s, p
<1>9. w \cap OpField(op) = OpBits[op]
  <2>1. p(1) \cap OpField(op) = {} /\ p(2) \cap OpField(op) = {} /\ p(3) \cap OpField(op) = {}
    BY <1>2, <1>4
  <2>2. QED
    BY <1>1, <1>6, <2>1
<1>10. OpOf(w) = op
  BY <1>8, <1>9, OpcodeBack
<1>11. ASSUME NEW i \in 1 .. 3, s[i] # "NSRC", Fits(op, s[i], args[i], a)
       PROVE  DecodedArgs(w, a)[i] = args[i]
  <2>1. w \cap FieldOf(op, s[i]) = p(i)
    <3>1. OpBits[op] \cap FieldOf(op, s[i]) = {}
      BY <1>4, <1>6
    <3>2. \A j \in 1 .. 3 \ {i} : p(j) \cap FieldOf(op, s[i]) = {}
      BY <1>2, <1>5
    <3>3. i = 1 \/ i = 2 \/ i = 3
      OBVIOUS
    <3>4. QED
      BY <1>1, <1>2, <3>1, <3>2, <3>3
  <2>2. ArgOf(op, s[i], w, a) = args[i]
    BY <1>3, <1>8, <1>11, <2>1, ArgBack DEF p
  <2>3. DecodedArgs(w, a)[i] = ArgOf(op, s[i], w, a)
    BY <1>10 DEF DecodedArgs, s
  <2>4. QED
    BY <2>2, <2>3
<1>12. QED
  BY <1>10, <1>11 DEF w, s

(* The subtractions of encode undo the additions of decode. *)
LEMMA MinusPlus ==
  ASSUME NEW v \in Word, NEW a \in Word
  PROVE  Minus(Plus(v, a), a) = v
<1> DEFINE m == Plus(v, a)
           S == {i \in Nat : Borrow(m, a, i) <=> Carry(v, a, i)}
<1>1. \A i \in Bits : i \in m <=> Odd3(i \in v, i \in a, Carry(v, a, i))
  BY DEF Plus
<1>2. 0 \in S
  BY NoneBelow
<1>3. ASSUME NEW i \in Bits, i \in S PROVE i + 1 \in S
  <2>1. Carry(v, a, i + 1) <=> (i \in v /\ i \in a) \/ (Carry(v, a, i) /\ (i \in v \/ i \in a))
    BY CarryStep
  <2>2. Borrow(m, a, i + 1) <=> (i \in a /\ i \notin m) \/ (Borrow(m, a, i) /\ (i \in m => i \in a))
    BY BorrowStep
  <2>3. i + 1 \in Nat
    BY DEF Bits
  <2>4. Borrow(m, a, i) <=> Carry(v, a, i)
    BY <1>3
  <2>5. i \in m <=> Odd3(i \in v, i \in a, Carry(v, a, i))
    BY <1>1
  <2> HIDE DEF m
  <2>6. QED
    BY <2>1, <2>2, <2>3, <2>4, <2>5 DEF Odd3
<1>4. \A i \in Bits : i \in S
  <2> HIDE DEF S
  <2>1. QED
    BY <1>2, <1>3, BitInduction
<1>5. ASSUME NEW i \in Bits PROVE i \in Minus(m, a) <=> i \in v
  <2>1. i \in Minus(m, a) <=> Odd3(i \in m, i \in a, Borrow(m, a, i))
    BY DEF Minus
  <2>2. Borrow(m, a, i) <=> Carry(v, a, i)
    BY <1>4
  <2>3. i \in m <=> Odd3(i \in v, i \in a, Carry(v, a, i))
    BY <1>1
  <2> HIDE DEF m
  <2>4. QED
    BY <2>1, <2>2, <2>3 DEF Odd3
<1>6. Minus(m, a) \subseteq Bits /\ v \subseteq Bits
  BY DEF Minus, Word
<1>7. QED
  BY <1>5, <1>6

(* No opcode but UNIMP and ILLEGL is twice in opcodeTable, so that          *)
(* encode's search finds the row decode came from.                          *)
LEMMA OpcodesDiffer ==
  \A n, m \in 1 .. 64 : opcodeRows[n] = opcodeRows[m] /\ opcodeRows[n] \notin {"UNIMP", "ILLEGL"} => n = m
BY SMTT(100) DEF opcodeRows

(* No opcode but ILLEGL is twice in specialTable. *)
LEMMA SpecialsDiffer ==
  \A n, m \in 1 .. 48 : specialRows[n] = specialRows[m] /\ specialRows[n] # "ILLEGL" => n = m
BY SMTT(100) DEF specialRows

(* The BCOND instructions are not in opcodeTable. *)
LEMMA NoBcondRows == \A n \in 1 .. 64 : opcodeRows[n] \notin DOMAIN bcondTable
BY DEF opcodeRows, bcondTable

(* Different six-bit fields are different numbers. *)
LEMMA Num6Differ ==
  ASSUME NEW f \in Field6, NEW g \in Field6, Num6(f) = Num6(g)
  PROVE  f = g
<1>1. /\ 0 \in f <=> 0 \in g
      /\ 1 \in f <=> 1 \in g
      /\ 2 \in f <=> 2 \in g
      /\ 3 \in f <=> 3 \in g
      /\ 4 \in f <=> 4 \in g
      /\ 5 \in f <=> 5 \in g
  BY SMTT(60) DEF Num6
<1>2. ASSUME NEW b \in 0 .. 5 PROVE b \in f <=> b \in g
  <2>1. b = 0 \/ b = 1 \/ b = 2 \/ b = 3 \/ b = 4 \/ b = 5
    OBVIOUS
  <2>2. QED
    BY <1>1, <2>1
<1>3. f \subseteq 0 .. 5 /\ g \subseteq 0 .. 5
  BY DEF Field6
<1>4. QED
  BY <1>2, <1>3

(* A field that decode finds an opcode with is the one encode writes. *)
LEMMA SpecialUnique ==
  ASSUME NEW f \in Field6, NEW g \in Field6, specialTable[f] = specialTable[g],
         specialTable[f] # "ILLEGL"
  PROVE  f = g
<1>1. Len(specialRows) = 48
  BY DEF specialRows
<1>2. \A h \in Field6 : specialTable[h] # "ILLEGL" =>
        Num6(h) + 1 \in 1 .. 48 /\ specialTable[h] = specialRows[Num6(h) + 1]
  BY <1>1, Num6Range DEF specialTable
<1>3. Num6(f) + 1 = Num6(g) + 1
  BY <1>2, SpecialsDiffer
<1>4. QED
  BY <1>3, Num6Range, Num6Differ

(* The same for opcodeTable. *)
LEMMA OpcodeUnique ==
  ASSUME NEW f \in Field6, NEW g \in Field6, opcodeTable[f] = opcodeTable[g],
         opcodeTable[f] \notin {"UNIMP", "ILLEGL"}
  PROVE  f = g
<1>1. \A h \in Field6 : Num6(h) + 1 \in 1 .. 64 /\ opcodeTable[h] = opcodeRows[Num6(h) + 1]
  BY Num6Range DEF opcodeTable
<1>2. Num6(f) + 1 = Num6(g) + 1
  BY <1>1, OpcodesDiffer
<1>3. QED
  BY <1>2, Num6Range, Num6Differ

(* encode begins with the opcode bits of the word that was decoded. *)
LEMMA OpBitsBack ==
  ASSUME NEW w \in Word, OpOf(w) \in Encodable
  PROVE  OpBits[OpOf(w)] \subseteq w
<1> DEFINE op == OpOf(w)
           t == Shr(w, 26)
<1>0. op \notin {"UNIMP", "ILLEGL", "SPECIAL", "BCOND"}
  BY DEF Encodable, instrTable, Info
<1>1. t \in Field6 /\ \A b \in 0 .. 5 : b \in t <=> b + 26 \in w
  <2>1. t \in Word /\ \A b \in Bits : b \in t <=> b + 26 \in w
    BY InShifted
  <2>2. \A b \in t : b \in Bits /\ b + 26 \in Bits
    BY <2>1 DEF Word
  <2>3. \A b \in t : b \in 0 .. 5
    BY <2>2 DEF Bits
  <2>4. QED
    BY <2>1, <2>3 DEF Field6, Bits
<1> HIDE DEF t
<1>2. CASE opcodeTable[t] = "SPECIAL"
  <2> DEFINE f == w \cap 0 .. 5
  <2>1. op = specialTable[f] /\ f \in Field6
    BY <1>2 DEF OpOf, Field6, t
  <2>2. op \in Special
    BY <2>1 DEF Special
  <2>3. op \notin DOMAIN bcondTable
    BY <2>2, Types, BcondRows
  <2>4. OpBits[op] = CHOOSE g \in Field6 : specialTable[g] = op
    BY <2>2, <2>3 DEF OpBits
  <2>5. (CHOOSE g \in Field6 : specialTable[g] = op) = f
    <3>1. \A g \in Field6 : specialTable[g] = op => g = f
      BY <1>0, <2>1, SpecialUnique
    <3>2. QED
      BY <2>1, <3>1
  <2>6. QED
    BY <2>4, <2>5
<1>3. CASE opcodeTable[t] = "BCOND"
  <2>1. t = {0}
    <3>1. {0} \in Field6
      BY DEF Field6
    <3>2. QED
      BY <1>1, <1>3, <3>1, FirstOpcodes, OpcodeUnique
  <2>2. 26 \in w
    BY <1>1, <2>1
  <2>3. op = IF \E b \in DOMAIN bcondTable : bcondTable[b] = w \cap 16 .. 20
             THEN CHOOSE b \in DOMAIN bcondTable : bcondTable[b] = w \cap 16 .. 20
             ELSE "ILLEGL"
    BY <1>3 DEF OpOf, t
  <2>4. op \in DOMAIN bcondTable /\ bcondTable[op] = w \cap 16 .. 20
    BY <1>0, <2>3
  <2>5. OpBits[op] = {26} \cup bcondTable[op]
    BY <2>4 DEF OpBits
  <2>6. QED
    BY <2>2, <2>4, <2>5
<1>4. CASE opcodeTable[t] \notin {"SPECIAL", "BCOND"}
  <2>1. op = opcodeTable[t]
    BY <1>4 DEF OpOf, t
  <2>2. op = opcodeRows[Num6(t) + 1] /\ Num6(t) + 1 \in 1 .. 64
    BY <1>1, <2>1, Num6Range DEF opcodeTable
  <2>3. op \notin DOMAIN bcondTable
    BY <2>2, NoBcondRows
  <2>4. instrTable(op).type \in {"ITYP", "JTYP", "NTYP"}
    BY <2>2, OpcodeRows
  <2>5. op \notin Special
    BY <2>4, Types
  <2>6. OpBits[op] = Shl(CHOOSE g \in Field6 : opcodeTable[g] = op, 26)
    BY <2>3, <2>5 DEF OpBits
  <2>7. (CHOOSE g \in Field6 : opcodeTable[g] = op) = t
    <3>1. \A g \in Field6 : opcodeTable[g] = op => g = t
      BY <1>0, <1>1, <2>1, OpcodeUnique
    <3>2. QED
      BY <1>1, <2>1, <3>1
  <2>8. Shl(t, 26) \subseteq w
    BY <1>1 DEF Shl, Field6
  <2>9. QED
    BY <2>6, <2>7, <2>8
<1>5. QED
  BY <1>2, <1>3, <1>4

(* Part of a word is a word. *)
LEMMA PartWord == \A w \in Word : \A p : w \cap p \in Word
BY DEF Word

(* Moving a part of a word down and up again gives the part. *)
LEMMA PartDown ==
  ASSUME NEW w \in Word, NEW n \in Nat, NEW m \in Bits, n <= m
  PROVE  /\ Shr(w \cap n .. m, n) \subseteq 0 .. m - n
         /\ Shl(Shr(w \cap n .. m, n), n) = w \cap n .. m
<1> DEFINE p == w \cap n .. m
           d == Shr(p, n)
<1>0. p \in Word
  BY PartWord
<1>1. d \in Word /\ \A b \in Bits : b \in d <=> b + n \in p
  BY <1>0, InShifted
<1>2. Shl(d, n) \in Word /\ \A b \in Bits : b \in Shl(d, n) <=> b - n \in d
  BY <1>1, InShifted
<1>3. ASSUME NEW b \in d PROVE b \in 0 .. m - n
  <2>1. b \in Bits
    BY <1>1 DEF Word
  <2>2. b + n \in n .. m
    BY <1>1, <2>1
  <2>3. QED
    BY <2>1, <2>2 DEF Bits
<1>4. ASSUME NEW b \in Bits PROVE b \in Shl(d, n) <=> b \in p
  <2>1. CASE b \in n .. m
    <3>1. b - n \in Bits /\ (b - n) + n = b
      BY <2>1 DEF Bits
    <3>2. QED
      BY <3>1, <1>1, <1>2
  <2>2. CASE b \notin n .. m
    <3>1. b \notin p
      BY <2>2
    <3>2. b - n \notin d
      <4>1. SUFFICES ASSUME b - n \in d PROVE FALSE
        OBVIOUS
      <4>2. b - n \in 0 .. m - n
        BY <1>3, <4>1
      <4>3. QED
        BY <2>2, <4>2 DEF Bits
    <3>3. QED
      BY <3>1, <3>2, <1>2
  <2>3. QED
    BY <2>1, <2>2
<1>5. Shl(d, n) = p
  BY <1>0, <1>2, <1>4 DEF Word
<1>6. QED
  BY <1>3, <1>5

(* The fields decode takes apart fit, and go back where they were. *)
LEMMA RegisterDown ==
  ASSUME NEW w \in Word
  PROVE  /\ Shr(w \cap 6 .. 10, 6) \subseteq 0 .. 4 /\ Shl(Shr(w \cap 6 .. 10, 6), 6) = w \cap 6 .. 10
         /\ Shr(w \cap 11 .. 15, 11) \subseteq 0 .. 4 /\ Shl(Shr(w \cap 11 .. 15, 11), 11) = w \cap 11 .. 15
         /\ Shr(w \cap 16 .. 20, 16) \subseteq 0 .. 4 /\ Shl(Shr(w \cap 16 .. 20, 16), 16) = w \cap 16 .. 20
         /\ Shr(w \cap 21 .. 25, 21) \subseteq 0 .. 4 /\ Shl(Shr(w \cap 21 .. 25, 21), 21) = w \cap 21 .. 25
         /\ Shr(w \cap 6 .. 25, 6) \subseteq 0 .. 19 /\ Shl(Shr(w \cap 6 .. 25, 6), 6) = w \cap 6 .. 25
<1>1. /\ 10 \in Bits /\ 15 \in Bits /\ 20 \in Bits /\ 25 \in Bits
      /\ 10 - 6 = 4 /\ 15 - 11 = 4 /\ 20 - 16 = 4 /\ 25 - 21 = 4 /\ 25 - 6 = 19
  BY DEF Bits
<1>2. Shr(w \cap 6 .. 10, 6) \subseteq 0 .. 4 /\ Shl(Shr(w \cap 6 .. 10, 6), 6) = w \cap 6 .. 10
  BY <1>1, PartDown
<1>3. Shr(w \cap 11 .. 15, 11) \subseteq 0 .. 4 /\ Shl(Shr(w \cap 11 .. 15, 11), 11) = w \cap 11 .. 15
  BY <1>1, PartDown
<1>4. Shr(w \cap 16 .. 20, 16) \subseteq 0 .. 4 /\ Shl(Shr(w \cap 16 .. 20, 16), 16) = w \cap 16 .. 20
  BY <1>1, PartDown
<1>5. Shr(w \cap 21 .. 25, 21) \subseteq 0 .. 4 /\ Shl(Shr(w \cap 21 .. 25, 21), 21) = w \cap 21 .. 25
  BY <1>1, PartDown
<1>6. Shr(w \cap 6 .. 25, 6) \subseteq 0 .. 19 /\ Shl(Shr(w \cap 6 .. 25, 6), 6) = w \cap 6 .. 25
  BY <1>1, PartDown
<1>7. QED
  BY <1>2, <1>3, <1>4, <1>5, <1>6

(* What a branch is decoded to is at a distance its field can hold. *)
LEMMA BranchDown ==
  ASSUME NEW w \in Word, NEW a \in Word
  PROVE  LET x == Shl(SignExtend(w \cap 0 .. 15), 2)
             v == Plus(Plus(x, a), Four)
         IN  /\ v \in Word /\ Offset(v, a) = x
             /\ x \cap 0 .. 1 = {} /\ x \cap 17 .. 31 \in {{}, 17 .. 31}
             /\ Sar(x, 2) \cap 0 .. 15 = w \cap 0 .. 15
<1> DEFINE e == SignExtend(w \cap 0 .. 15)
           x == Shl(e, 2)
           v == Plus(Plus(x, a), Four)
<1>1. e \in Word
  BY DEF SignExtend, Word, Bits
<1>2. \A b \in Bits : b \in e <=> (b \in 0 .. 15 /\ b \in w) \/ (b \in 16 .. 31 /\ 15 \in w)
  BY DEF SignExtend, Bits
<1> HIDE DEF e
<1>3. x \in Word /\ \A b \in Bits : b \in x <=> b - 2 \in e
  BY <1>1, InShifted
<1> HIDE DEF x
<1>4. Four \in Word /\ v \in Word /\ \A y, z : Plus(y, z) \in Word
  BY DEF Four, Word, Bits, Plus
<1>5. Offset(v, a) = x
  <2>1. v = Plus(Plus(x, Four), a)
    BY PlusSwap
  <2>2. Minus(v, a) = Plus(x, Four)
    BY <1>4, <2>1, MinusPlus
  <2>3. Minus(Plus(x, Four), Four) = x
    BY <1>3, <1>4, MinusPlus
  <2>4. QED
    BY <2>2, <2>3 DEF Offset
<1>6. x \cap 0 .. 1 = {}
  <2>1. \A b \in 0 .. 1 : b \in Bits /\ b - 2 \notin Bits
    BY DEF Bits
  <2>2. QED
    BY <1>1, <1>3, <2>1 DEF Word
<1>7. x \cap 17 .. 31 \in {{}, 17 .. 31}
  <2>1. ASSUME NEW b \in 17 .. 31 PROVE b \in x <=> 15 \in w
    <3>1. b \in Bits /\ b - 2 \in Bits /\ b - 2 \in 15 .. 31
      BY DEF Bits
    <3>2. b - 2 \in e <=> 15 \in w
      BY <3>1, <1>2
    <3>3. QED
      BY <3>1, <3>2, <1>3
  <2>2. QED
    BY <2>1
<1>8. Sar(x, 2) \cap 0 .. 15 = w \cap 0 .. 15
  <2>1. \A b \in 0 .. 15 : b \in Bits /\ b + 2 \in Bits /\ (b + 2) - 2 = b /\ b \notin 30 .. 31
    BY DEF Bits
  <2>2. \A b \in 0 .. 15 : b \in Sar(x, 2) <=> b \in Shr(x, 2)
    BY <2>1 DEF Sar
  <2>3. \A b \in 0 .. 15 : b \in Shr(x, 2) <=> b + 2 \in x
    BY <1>3, <2>1, InShifted
  <2>4. \A b \in 0 .. 15 : b + 2 \in x <=> b \in e
    BY <1>3, <2>1
  <2>5. ASSUME NEW b \in 0 .. 15 PROVE b \in e <=> b \in w
    <3>1. b \in Bits /\ b \notin 16 .. 31
      BY DEF Bits
    <3>2. QED
      BY <3>1, <1>2
  <2>6. QED
    BY <2>2, <2>3, <2>4, <2>5
<1>9. QED
  BY <1>4, <1>5, <1>6, <1>7, <1>8 DEF x, e

(* What a jump is decoded to has an address its field can hold. *)
LEMMA JumpDown ==
  ASSUME NEW w \in Word, NEW p \in Word
  PROVE  LET v == Plus(p \cap 28 .. 31, Shl(w \cap 0 .. 25, 2))
         IN  /\ v \in Word
             /\ v \cap 0 .. 1 = {} /\ v \cap 28 .. 31 = p \cap 28 .. 31
             /\ Shr(Shr(Shl(v, 4), 4), 2) = w \cap 0 .. 25
<1> DEFINE x == Shl(w \cap 0 .. 25, 2)
           v == Plus(p \cap 28 .. 31, x)
<1>1. w \cap 0 .. 25 \in Word /\ p \cap 28 .. 31 \in Word
  BY PartWord
<1>2. x \in Word /\ \A b \in Bits : b \in x <=> b - 2 \in w \cap 0 .. 25
  BY <1>1, InShifted
<1>3. \A b \in x : b \in 2 .. 27
  BY <1>2 DEF Bits, Word
<1> HIDE DEF x
<1>4. v = (p \cap 28 .. 31) \cup x
  <2>1. (p \cap 28 .. 31) \cap x = {}
    BY <1>3
  <2>2. QED
    BY <1>1, <1>2, <2>1, PlusDisjoint
<1>5. v \in Word
  BY <1>1, <1>2, <1>4 DEF Word
<1> HIDE DEF v
<1>6. v \cap 0 .. 1 = {} /\ v \cap 28 .. 31 = p \cap 28 .. 31
  BY <1>3, <1>4
<1> DEFINE j == Shr(Shr(Shl(v, 4), 4), 2)
<1>7. j \subseteq 0 .. 25 /\ \A b \in 0 .. 25 : b \in j <=> b + 2 \in v
  BY <1>5, JumpField
<1> HIDE DEF j
<1>8. ASSUME NEW b \in 0 .. 25 PROVE b + 2 \in v <=> b \in w
  <2>1. b + 2 \in Bits /\ b + 2 \notin 28 .. 31 /\ (b + 2) - 2 = b
    BY DEF Bits
  <2>2. QED
    BY <1>2, <1>4, <2>1
<1>9. j = w \cap 0 .. 25
  BY <1>7, <1>8
<1>10. QED
  BY <1>5, <1>6, <1>9 DEF v, x, j

(* What decode finds in a field fits, and is encoded to that field. *)
LEMMA ArgDown ==
  ASSUME NEW op \in Encodable, NEW s \in {"RS", "RT", "RD", "EXTRA"},
         NEW w \in Word, NEW a \in Word
  PROVE  LET v == ArgOf(op, s, w, a)
         IN  /\ v \in Word
             /\ Fits(op, s, v, a)
             /\ ArgBits(op, s, v, a) \subseteq w
<1> DEFINE v == ArgOf(op, s, w, a)
<1>1. CASE s \in {"RS", "RT", "RD"}
  <2>1. CASE s = "RS"
    <3>1. v = Shr(w \cap 21 .. 25, 21)
      BY <2>1 DEF ArgOf
    <3>2. v \subseteq 0 .. 4 /\ Shl(v, 21) = w \cap 21 .. 25
      <4> HIDE DEF v
      <4>1. QED
        BY <3>1, RegisterDown
    <3>3. v \in Word
      BY <3>2 DEF Word, Bits
    <3> HIDE DEF v
    <3>4. Fits(op, s, v, a) /\ ArgBits(op, s, v, a) = Shl(v, 21)
      BY <2>1, <3>2 DEF Fits, ArgBits
    <3>5. QED
      BY <3>2, <3>3, <3>4 DEF v
  <2>2. CASE s = "RT"
    <3>1. v = Shr(w \cap 16 .. 20, 16)
      BY <2>2 DEF ArgOf
    <3>2. v \subseteq 0 .. 4 /\ Shl(v, 16) = w \cap 16 .. 20
      <4> HIDE DEF v
      <4>1. QED
        BY <3>1, RegisterDown
    <3>3. v \in Word
      BY <3>2 DEF Word, Bits
    <3> HIDE DEF v
    <3>4. Fits(op, s, v, a) /\ ArgBits(op, s, v, a) = Shl(v, 16)
      BY <2>2, <3>2 DEF Fits, ArgBits
    <3>5. QED
      BY <3>2, <3>3, <3>4 DEF v
  <2>3. CASE s = "RD"
    <3>1. v = Shr(w \cap 11 .. 15, 11)
      BY <2>3 DEF ArgOf
    <3>2. v \subseteq 0 .. 4 /\ Shl(v, 11) = w \cap 11 .. 15
      <4> HIDE DEF v
      <4>1. QED
        BY <3>1, RegisterDown
    <3>3. v \in Word
      BY <3>2 DEF Word, Bits
    <3> HIDE DEF v
    <3>4. Fits(op, s, v, a) /\ ArgBits(op, s, v, a) = Shl(v, 11)
      BY <2>3, <3>2 DEF Fits, ArgBits
    <3>5. QED
      BY <3>2, <3>3, <3>4 DEF v
  <2>4. QED
    BY <1>1, <2>1, <2>2, <2>3
<1>2. CASE s = "EXTRA" /\ instrTable(op).type = "RTYP"
  <2>1. op \notin Branches
    BY <1>2, BranchTypes
  <2>2. CASE op = "BREAK"
    <3>1. v = Shr(w \cap 6 .. 25, 6)
      BY <1>2, <2>1, <2>2 DEF ArgOf
    <3>2. v \subseteq 0 .. 19 /\ Shl(v, 6) = w \cap 6 .. 25
      <4> HIDE DEF v
      <4>1. QED
        BY <3>1, RegisterDown
    <3>3. v \in Word
      BY <3>2 DEF Word, Bits
    <3> HIDE DEF v
    <3>4. Fits(op, s, v, a) /\ ArgBits(op, s, v, a) = Shl(v, 6)
      BY <1>2, <2>1, <2>2, <3>2 DEF Fits, ArgBits
    <3>5. QED
      BY <3>2, <3>3, <3>4 DEF v
  <2>3. CASE op # "BREAK"
    <3>1. v = Shr(w \cap 6 .. 10, 6)
      BY <1>2, <2>1, <2>3 DEF ArgOf
    <3>2. v \subseteq 0 .. 4 /\ Shl(v, 6) = w \cap 6 .. 10
      <4> HIDE DEF v
      <4>1. QED
        BY <3>1, RegisterDown
    <3>3. v \in Word
      BY <3>2 DEF Word, Bits
    <3> HIDE DEF v
    <3>4. Fits(op, s, v, a) /\ ArgBits(op, s, v, a) = Shl(v, 6)
      BY <1>2, <2>1, <2>3, <3>2 DEF Fits, ArgBits
    <3>5. QED
      BY <3>2, <3>3, <3>4 DEF v
  <2>4. QED
    BY <2>2, <2>3
<1>3. CASE s = "EXTRA" /\ instrTable(op).type = "ITYP" /\ op \in Branches
  <2>1. op # "BREAK"
    BY <1>3, Forms
  <2> DEFINE x == Shl(SignExtend(w \cap 0 .. 15), 2)
  <2>2. v = Plus(Plus(x, a), Four)
    BY <1>3, <2>1 DEF ArgOf
  <2>3. /\ v \in Word /\ Offset(v, a) = x
        /\ x \cap 0 .. 1 = {} /\ x \cap 17 .. 31 \in {{}, 17 .. 31}
        /\ Sar(x, 2) \cap 0 .. 15 = w \cap 0 .. 15
    <3>1. LET y == Shl(SignExtend(w \cap 0 .. 15), 2)
              u == Plus(Plus(y, a), Four)
          IN  /\ u \in Word /\ Offset(u, a) = y
              /\ y \cap 0 .. 1 = {} /\ y \cap 17 .. 31 \in {{}, 17 .. 31}
              /\ Sar(y, 2) \cap 0 .. 15 = w \cap 0 .. 15
      BY BranchDown
    <3> HIDE DEF v
    <3>2. QED
      BY <2>2, <3>1
  <2> HIDE DEF v, x
  <2>4. Fits(op, s, v, a) /\ ArgBits(op, s, v, a) = Sar(x, 2) \cap 0 .. 15
    BY <1>3, <2>1, <2>3 DEF Fits, ArgBits
  <2>5. QED
    BY <2>3, <2>4 DEF v
<1>4. CASE s = "EXTRA" /\ instrTable(op).type = "ITYP" /\ op \notin Branches
  <2>1. op # "BREAK"
    BY <1>4, Forms
  <2>2. v = SignExtend(w \cap 0 .. 15)
    BY <1>4, <2>1 DEF ArgOf
  <2>3. /\ v \in Word /\ v \cap 0 .. 15 = w \cap 0 .. 15
        /\ v \cap 15 .. 31 \in {{}, 15 .. 31}
    <3>1. \A b \in 0 .. 15 : b \notin 16 .. 31
      OBVIOUS
    <3>2. v \in Word
      BY <2>2 DEF SignExtend, Word, Bits
    <3>3. \A b \in 0 .. 15 : b \in v <=> b \in w
      BY <2>2, <3>1 DEF SignExtend
    <3>4. \A b \in 15 .. 31 : b \in v <=> 15 \in w
      <4>1. \A b \in 15 .. 31 : b = 15 \/ (b \in 16 .. 31 /\ b \notin 0 .. 15)
        OBVIOUS
      <4>2. 15 \in 0 .. 15 /\ 15 \notin 16 .. 31
        OBVIOUS
      <4>3. QED
        BY <2>2, <4>1, <4>2 DEF SignExtend
    <3>5. QED
      BY <3>2, <3>3, <3>4
  <2> HIDE DEF v
  <2>4. Fits(op, s, v, a) /\ ArgBits(op, s, v, a) = v \cap 0 .. 15
    BY <1>4, <2>1, <2>3 DEF Fits, ArgBits
  <2>5. QED
    BY <2>3, <2>4 DEF v
<1>5. CASE s = "EXTRA" /\ instrTable(op).type = "JTYP"
  <2>1. op # "BREAK" /\ op \notin Branches
    BY <1>5, Forms, BranchTypes
  <2> DEFINE p == Plus(a, Four)
  <2>2. v = Plus(p \cap 28 .. 31, Shl(w \cap 0 .. 25, 2))
    BY <1>5, <2>1 DEF ArgOf
  <2>3. p \in Word
    BY DEF Plus, Word
  <2>4. /\ v \in Word
        /\ v \cap 0 .. 1 = {} /\ v \cap 28 .. 31 = p \cap 28 .. 31
        /\ Shr(Shr(Shl(v, 4), 4), 2) = w \cap 0 .. 25
    BY <2>2, <2>3, JumpDown
  <2> HIDE DEF v
  <2>5. Fits(op, s, v, a) /\ ArgBits(op, s, v, a) = Shr(Shr(Shl(v, 4), 4), 2)
    BY <1>5, <2>1, <2>4 DEF Fits, ArgBits
  <2>6. QED
    BY <2>4, <2>5 DEF v
<1>6. instrTable(op).type \in {"RTYP", "ITYP", "JTYP"}
  BY Types
<1>7. QED
  BY <1>1, <1>2, <1>3, <1>4, <1>5, <1>6

(* encode inverts decode: a word that is decoded to an instruction encodes  *)
(* to a word with no other bits, which decodes to the same instruction and  *)
(* arguments, at every address. (Bits no field covers are not kept.)        *)
THEOREM EncodeInvertsDecode ==
  ASSUME NEW w \in Word, NEW a \in Word, OpOf(w) \in Encodable
  PROVE  LET args == DecodedArgs(w, a)
             again == EncodedWord(OpOf(w), args, a)
         IN  /\ again \subseteq w
             /\ OpOf(again) = OpOf(w)
             /\ DecodedArgs(again, a) = args
<1> DEFINE op == OpOf(w)
           s == instrTable(op).srcs
           args == DecodedArgs(w, a)
           again == EncodedWord(op, args, a)
<1>1. \A i \in 1 .. 3 : s[i] \in {"RS", "RT", "RD", "EXTRA", "NSRC"}
  BY Forms
<1>2. \A i \in 1 .. 3 : args[i] = ArgOf(op, s[i], w, a)
  BY DEF DecodedArgs
<1>3. \A v, x : ArgOf(op, "NSRC", v, x) = {} /\ ArgBits(op, "NSRC", v, x) = {} /\ Fits(op, "NSRC", v, x)
  BY DEF ArgOf, ArgBits, Fits
<1>4. ASSUME NEW i \in 1 .. 3
      PROVE  /\ args[i] \in Word /\ Fits(op, s[i], args[i], a)
             /\ ArgBits(op, s[i], args[i], a) \subseteq w
  <2>1. CASE s[i] = "NSRC"
    <3>1. {} \in Word
      BY DEF Word
    <3>2. args[i] = {}
      BY <1>2, <1>3, <2>1
    <3>3. ArgBits(op, s[i], args[i], a) = {} /\ Fits(op, s[i], args[i], a)
      BY <1>3, <2>1
    <3>4. QED
      BY <3>1, <3>2, <3>3
  <2>2. CASE s[i] # "NSRC"
    <3>1. s[i] \in {"RS", "RT", "RD", "EXTRA"}
      BY <1>1, <2>2
    <3>2. QED
      BY <1>2, <3>1, ArgDown
  <2>3. QED
    BY <2>1, <2>2
<1>5. args = [i \in 1 .. 3 |-> args[i]] /\ args \in [1 .. 3 -> Word]
  BY <1>4 DEF DecodedArgs
<1>6. again \subseteq w
  BY <1>4, OpBitsBack DEF EncodedWord
<1>7. /\ OpOf(again) = op
      /\ \A i \in 1 .. 3 : s[i] # "NSRC" => DecodedArgs(again, a)[i] = args[i]
  <2> HIDE DEF args, again
  <2>1. \A i \in 1 .. 3 : Fits(op, s[i], args[i], a)
    BY <1>4
  <2>2. QED
    BY <1>5, <2>1, DecodeInvertsEncode DEF again
<1>8. ASSUME NEW i \in 1 .. 3 PROVE DecodedArgs(again, a)[i] = args[i]
  <2>1. CASE s[i] = "NSRC"
    <3>1. DecodedArgs(again, a)[i] = ArgOf(op, s[i], again, a)
      BY <1>7 DEF DecodedArgs
    <3>2. QED
      BY <1>2, <1>3, <2>1, <3>1
  <2>2. CASE s[i] # "NSRC"
    BY <1>7, <2>2
  <2>3. QED
    BY <2>1, <2>2
<1>9. DecodedArgs(again, a) = args
  BY <1>8 DEF DecodedArgs
<1>10. QED
  BY <1>6, <1>7, <1>9

-----------------------------------------------------------------------------
(* The options and the two loops. *)

(* A line the disassembler writes for word w at address a, and all that     *)
(* either loop writes.                                                      *)
Decoded(w, a) == [op |-> OpOf(w), args |-> DecodedArgs(w, a)]
Outputs == Word \cup {Decoded(w, a) : w \in Word, a \in Word} \cup {Garbage}

(* What the phase says of the histories: nothing is read or written before  *)
(* a loop begins, and a run is in one of them only.                         *)
Phases ==
  /\ phase \in {"args", "main"} =>
       /\ argv \in Argvs
       /\ lines = <<>> /\ words = <<>> /\ output = <<>> /\ at = <<>>
  /\ phase = "asm" => words = <<>>
  /\ words # <<>> => lines = <<>>
  /\ phase = "dis" => lines = <<>> /\ Len(words) = Len(output)

(* The histories keep in step. *)
Histories ==
  /\ output \in Seq(Outputs) /\ at \in Seq(Word)
  /\ Len(at) = Len(output)
  /\ lines = <<>> => Len(output) <= Len(words)
  /\ \A n \in DOMAIN lines : lines[n] # Unmatched

(* The loops' addr is where the next thing goes. *)
NextPlace ==
  phase = "dis" \/ (phase = "asm" /\ ~eof) =>
    addr = IF at = <<>> THEN Base ELSE Plus(at[Len(at)], Four)

(* Each place is four bytes after the one before; the first is the base     *)
(* address cut to a multiple of 4096, as main.c:27 has it.                  *)
Places == \A n \in DOMAIN at : at[n] = IF n = 1 THEN Base ELSE Plus(at[n - 1], Four)

(* The word just written for a line with operands is its encoding.          *)
EncodedWords ==
  Assembling =>
    \A n \in Newest :
      ~ Bare(lines[n]) => output[n] = EncodedWord(lines[n].op, lines[n].args, at[n])

(* What the disassembler has written comes from the words it has read. *)
DecodedWords ==
  words # <<>> =>
    \A n \in DOMAIN output : output[n] \in {Garbage, Decoded(words[n], at[n])}

(* The inductive invariant. InPlace needs Places, and Places NextPlace;     *)
(* RoundTrip needs EncodedWords, OneWordPerLine the lengths in Histories,   *)
(* and Phases keeps the loops apart.                                        *)
IInv ==
  /\ TypeOK /\ Phases /\ Histories
  /\ FlagsAsGiven /\ OneWordPerLine /\ Places /\ NextPlace
  /\ EncodedWords /\ DecodedWords

(* Converting the byte order gives a word. *)
LEMMA FlipWord == \A w : flipEndianness(w) \in Word
BY DEF flipEndianness, Sar, Shr, Shl, Word, Bits

(* encode gives a word. *)
LEMMA EncodedIsWord == ASSUME NEW op \in Encodable, NEW args, NEW a PROVE EncodedWord(op, args, a) \in Word
<1>1. OpBits[op] \subseteq Bits
  BY OpBitsPlace DEF OpField, Bits
<1>2. QED
  BY <1>1, ArgWords DEF EncodedWord, Word

(* An address plus four is a word. *)
LEMMA PlusWord == \A v, w : Plus(v, w) \in Word
BY DEF Plus, Word

(* A base address that validateBaseAddress lets through leaves the eight    *)
(* lowest bits, and so the flags, alone (hw1.c:219-273).                    *)
LEMMA BaseFlags ==
  ASSUME NEW a \in Arguments, validateBaseAddress(a)
  PROVE  AddressOf(a) \cap 0 .. 7 = {}
<1> DEFINE d == a.digits
<1>1. d \in Seq(SUBSET (0 .. 3)) /\ Len(d) \in 2 .. 8
  BY DEF Arguments, validateBaseAddress
<1>2. d[Len(d)] = {} /\ d[Len(d) - 1] = {}
  BY DEF validateBaseAddress
<1>3. ASSUME NEW b \in 0 .. 7, b \in AddressOf(a) PROVE FALSE
  <2>1. PICK k \in 0 .. Len(d) - 1 : b - 4 * k \in d[Len(d) - k]
    BY <1>3 DEF AddressOf
  <2>2. k # 0 /\ k # 1
    BY <1>1, <1>2, <2>1
  <2>3. d[Len(d) - k] \subseteq 0 .. 3
    BY <1>1
  <2>4. b - 4 * k >= 0 /\ k >= 2
    BY <2>1, <2>2, <2>3
  <2>5. QED
    BY <2>4
<1>4. QED
  BY <1>3

(* The bits above the flags are what is or-ed in there. *)
LEMMA FlagsApart ==
  ASSUME NEW flags, flags \subseteq {1, 2}, NEW base, base \subseteq 8 .. 31
  PROVE  (flags \cup base) \cap 8 .. 31 = base
<1>1. 1 \notin 8 .. 31 /\ 2 \notin 8 .. 31
  OBVIOUS
<1> DEFINE high == 8 .. 31
<1>2. 1 \notin high /\ 2 \notin high /\ base \subseteq high
  BY <1>1
<1> HIDE DEF high
<1>3. (flags \cup base) \cap high = base
  BY <1>2
<1>4. QED
  BY <1>3 DEF high

(* validargs leaves the options as the command line says. *)
LEMMA ValidateFlags ==
  ASSUME TypeOK, Phases, Validate
  PROVE  options' \in Word /\ FlagsAsGiven'
<1> USE DEF Validate
<1>0. argv \in Seq(Arguments) /\ argv' = argv
  BY InputsOK DEF Phases
<1>1. BaseGiven \in Word
  BY DEF BaseGiven, Word
<1>2. CASE Help
  <2>1. options' = {0} /\ Help'
    BY <1>0, <1>2 DEF Help, Opt
  <2>2. QED
    BY <2>1 DEF FlagsAsGiven, Word, Bits
<1>3. CASE ~ Help /\ phase' = "main"
  <2>1. /\ \A i \in DOMAIN argv : ~ RefusedAt(i)
        /\ options' = (IF Given("-d") THEN {1} ELSE {})
                          \cup (IF BigGiven THEN {2} ELSE {}) \cup BaseGiven
    BY <1>3
  <2>2. BaseGiven \cap 0 .. 7 = {}
    <3>1. SUFFICES ASSUME NEW b \in 0 .. 7, b \in BaseGiven PROVE FALSE
      OBVIOUS
    <3>2. PICK i \in DOMAIN argv : Opt(i) = "-b" /\ b \in AddressOf(argv[i + 1])
      BY <3>1 DEF BaseGiven
    <3>3. i # Len(argv) /\ validateBaseAddress(argv[i + 1])
      BY <2>1, <3>2 DEF RefusedAt
    <3>4. argv[i + 1] \in Arguments
      BY <1>0, <3>3
    <3>5. QED
      BY <1>0, <3>2, <3>3, <3>4, BaseFlags
  <2>3. /\ ~ Help' /\ (Given("-d") <=> Given("-d")') /\ (BigGiven <=> BigGiven')
        /\ BaseGiven' = BaseGiven
    BY <1>0, <1>3 DEF Help, Opt, Given, BigGiven, BaseGiven, AddressOf
  <2>4. 0 \notin options' /\ (1 \in options' <=> Given("-d")) /\ (2 \in options' <=> BigGiven)
    BY <2>1, <2>2
  <2>5. options' \in Word
    BY <1>1, <2>1 DEF Word, Bits
  <2>6. Asked' = BaseGiven
    <3>1. \A b \in BaseGiven : b \in 0 .. 31 /\ b \notin 0 .. 7
      BY <2>2 DEF BaseGiven, Bits
    <3>2. \A b : b \in 0 .. 31 /\ b \notin 0 .. 7 => b \in 8 .. 31
      OBVIOUS
    <3>3. BaseGiven \subseteq 8 .. 31
      BY <3>1, <3>2
    <3>4. PICK flags : flags \subseteq {1, 2} /\ options' = flags \cup BaseGiven
      <4> DEFINE flags == (IF Given("-d") THEN {1} ELSE {}) \cup (IF BigGiven THEN {2} ELSE {})
      <4>1. flags \subseteq {1, 2} /\ options' = flags \cup BaseGiven
        BY <2>1
      <4>2. QED
        BY <4>1
    <3>5. QED
      BY <3>3, <3>4, FlagsApart DEF Asked
  <2>7. QED
    BY <2>3, <2>4, <2>5, <2>6 DEF FlagsAsGiven
<1>4. CASE ~ Help /\ phase' # "main"
  BY <1>4 DEF FlagsAsGiven, TypeOK
<1>5. QED
  BY <1>2, <1>3, <1>4

(* A value as it is turned round for a line without operands. *)
Flipped(w) == IF 2 \in options THEN flipEndianness(w) ELSE w

(* Line l has been read whole and its word written. *)
Appended(l) ==
  /\ lines' = Append(lines, l) /\ l \in Lines \ {Unmatched}
  /\ value' = IF Bare(l) THEN Flipped(value) ELSE EncodedWord(l.op, l.args, addr)
  /\ output' = Append(output, value') /\ at' = Append(at, addr)
  /\ addr' = Plus(addr, Four)
  /\ eof' = FALSE /\ phase' = phase

(* Nothing is written, and the loop goes on with what it had or ends. *)
NothingWritten ==
  /\ UNCHANGED <<lines, output, at>>
  /\ eof' \/ UNCHANGED <<addr, value>>
  /\ phase' \in {phase, "failure"}

(* Neither a line that names nothing nor garbage is an instruction. *)
LEMMA Names == /\ \A l : Bare(l) => l # Unmatched
               /\ Unmatched.op \notin Encodable
               /\ Garbage.op \notin Encodable
BY DEF Bare, BareOps, Unmatched, Garbage, Encodable, instrTable, Info

(* A turn of the assembler's loop writes a word for a line it has just      *)
(* read whole, or nothing (main.c:102-218).                                 *)
LEMMA AssembleCases ==
  ASSUME AssembleLine, TypeOK
  PROVE  /\ (\E l \in Lines : Appended(l)) \/ NothingWritten
         /\ value' \in Word /\ addr' \in Word /\ passed' \in BOOLEAN /\ eof' \in BOOLEAN
         /\ str' \in [line : Lines \cup {Garbage}, newline : BOOLEAN]
<1>1. eof' \in BOOLEAN /\ str' \in [line : Lines \cup {Garbage}, newline : BOOLEAN]
  <2>1. CASE \E l \in Lines, newline \in BOOLEAN :
               str' = [line |-> l, newline |-> newline] /\ eof' = ~newline
    BY <2>1
  <2>2. CASE eof' = TRUE /\ str' \in IF str.line = Garbage THEN [line : Lines, newline : BOOLEAN]
                                    ELSE {str}
    BY <2>2 DEF TypeOK
  <2>3. QED
    BY <2>1, <2>2 DEF AssembleLine, Fgets
<1>2. CASE \E l \in Lines, newline \in BOOLEAN :
          /\ str' = [line |-> l, newline |-> newline]
          /\ lines' = (IF newline /\ l # Unmatched THEN Append(lines, l) ELSE lines)
          /\ eof' = ~newline
  <2>1. PICK l \in Lines, newline \in BOOLEAN :
          /\ str' = [line |-> l, newline |-> newline]
          /\ lines' = (IF newline /\ l # Unmatched THEN Append(lines, l) ELSE lines)
          /\ eof' = ~newline
    BY <1>2
  <2>2. str'.line = l /\ str'.newline = newline
    BY <2>1
  <2>3. CASE AssembleBare
    <3>1. Bare(l) /\ l # Unmatched /\ newline
      BY <2>2, <2>3, Names DEF AssembleBare, Bare
    <3>2. Appended(l)
      BY <2>1, <2>3, <3>1 DEF AssembleBare, Appended, Emit, Write, Flipped
    <3>3. QED
      BY <1>1, <2>3, <3>2, PlusWord, FlipWord DEF AssembleBare, TypeOK
  <2>4. CASE AssembleOperands
    <3>1. l.op \in Encodable /\ ~ Bare(l) /\ l # Unmatched
      BY <2>2, <2>4, Names DEF AssembleOperands, Bare
    <3>2. value' = EncodedWord(l.op, l.args, addr)
      BY <2>2, <2>4 DEF AssembleOperands
    <3>3. ASSUME newline PROVE Appended(l)
      <4>1. eof' = FALSE /\ lines' = Append(lines, l)
        BY <2>1, <3>1, <3>3
      <4>2. QED
        BY <2>4, <3>1, <3>2, <4>1 DEF AssembleOperands, Appended, Emit, Write
    <3>4. ASSUME ~ newline PROVE NothingWritten
      <4>1. eof' = TRUE /\ lines' = lines
        BY <2>1, <3>4
      <4>2. QED
        BY <2>4, <4>1 DEF AssembleOperands, NothingWritten, Emit
    <3>5. value' \in Word /\ addr' \in Word /\ passed' \in BOOLEAN
      BY <2>4, <3>1, <3>2, EncodedIsWord, PlusWord DEF AssembleOperands
    <3>6. QED
      BY <1>1, <3>3, <3>4, <3>5
  <2>5. CASE Skip
    <3>1. lines' = lines
      BY <2>1, <2>2, <2>5 DEF Skip
    <3>2. QED
      BY <1>1, <2>5, <3>1 DEF Skip, NothingWritten, TypeOK
  <2>6. QED
    BY <2>3, <2>4, <2>5 DEF AssembleLine
<1>3. CASE eof' = TRUE /\ lines' = lines
  <2>1. CASE AssembleBare
    BY <1>1, <1>3, <2>1, PlusWord, FlipWord DEF AssembleBare, Emit, NothingWritten, TypeOK
  <2>2. CASE AssembleOperands
    BY <1>1, <1>3, <2>2, PlusWord, EncodedIsWord DEF AssembleOperands, Emit, NothingWritten
  <2>3. CASE Skip
    BY <1>1, <1>3, <2>3 DEF Skip, NothingWritten, TypeOK
  <2>4. QED
    BY <2>1, <2>2, <2>3 DEF AssembleLine
<1>4. QED
  BY <1>2, <1>3 DEF AssembleLine, Fgets

(* The invariant holds when the program starts. *)
LEMMA InitInv == Init => IInv
<1> SUFFICES ASSUME Init PROVE IInv
  OBVIOUS
<1>1. TypeOK
  <2>1. {} \in Word /\ <<>> \in Seq(Lines) /\ <<>> \in Seq(Words)
    BY DEF Word
  <2>2. QED
    BY <2>1 DEF Init, TypeOK
<1>2. Phases /\ Histories /\ NextPlace /\ DecodedWords
  BY DEF Init, Phases, Histories, NextPlace, DecodedWords
<1>3. FlagsAsGiven /\ OneWordPerLine /\ Places /\ EncodedWords
  BY DEF Init, FlagsAsGiven, OneWordPerLine, Places, EncodedWords, Assembling
<1>4. QED
  BY <1>1, <1>2, <1>3 DEF IInv

(* validargs and the start of main keep the invariant. *)
LEMMA StartInv ==
  ASSUME IInv, Validate \/ Dispatch PROVE IInv'
<1>0. /\ phase \in {"args", "main"}
      /\ UNCHANGED <<lines, words, output, at, passed, str, eof>>
      /\ lines = <<>> /\ words = <<>> /\ output = <<>> /\ at = <<>>
  BY DEF Validate, Dispatch, IInv, Phases
<1>1. TypeOK' /\ FlagsAsGiven'
  <2>1. CASE Validate
    BY <2>1, ValidateFlags DEF IInv, TypeOK, Validate
  <2>2. CASE Dispatch
    <3>1. Base \in Word
      BY DEF Base, IInv, TypeOK, Word
    <3>2. QED
      BY <2>2, <3>1, InputsOK DEF IInv, TypeOK, Dispatch, FlagsAsGiven
  <2>3. QED
    BY <2>1, <2>2
<1>2. Phases'
  BY <1>0 DEF IInv, Phases, Validate, Dispatch
<1>3. NextPlace'
  <2>1. CASE Validate
    BY <2>1 DEF NextPlace, Validate
  <2>2. CASE Dispatch
    BY <1>0, <2>2 DEF NextPlace, Dispatch, Base
  <2>3. QED
    BY <2>1, <2>2
<1>4. Histories' /\ DecodedWords'
  BY <1>0 DEF IInv, Histories, DecodedWords
<1>5. OneWordPerLine' /\ Places' /\ EncodedWords'
  BY <1>0 DEF OneWordPerLine, Places, EncodedWords, Assembling
<1>6. QED
  BY <1>1, <1>2, <1>3, <1>4, <1>5 DEF IInv

(* What Append does to a sequence. *)
LEMMA AppendFacts ==
  ASSUME NEW S, NEW s \in Seq(S), NEW x \in S
  PROVE  /\ Append(s, x) \in Seq(S) /\ Len(Append(s, x)) = Len(s) + 1
         /\ DOMAIN Append(s, x) = 1 .. Len(s) + 1 /\ DOMAIN s = 1 .. Len(s)
         /\ \A n \in 1 .. Len(s) : Append(s, x)[n] = s[n]
         /\ Append(s, x)[Len(s) + 1] = x
OBVIOUS

(* Writing for addr and adding four to it keeps the addresses four apart    *)
(* (main.c:80, :161, :207).                                                 *)
LEMMA PlaceInv ==
  ASSUME IInv, UNCHANGED options, at' = Append(at, addr),
         phase = "dis" \/ (phase = "asm" /\ ~ eof),
         addr' = Plus(addr, Four)
  PROVE  Places' /\ NextPlace'
<1>1. at \in Seq(Word) /\ addr \in Word
  BY DEF IInv, Histories, TypeOK
<1>2. /\ at' \in Seq(Word) /\ Len(at') = Len(at) + 1 /\ Len(at) \in Nat
      /\ DOMAIN at' = 1 .. Len(at) + 1 /\ DOMAIN at = 1 .. Len(at)
      /\ \A n \in 1 .. Len(at) : at'[n] = at[n]
      /\ at'[Len(at) + 1] = addr
  BY <1>1, AppendFacts
<1>3. addr = IF at = <<>> THEN Base ELSE Plus(at[Len(at)], Four)
  BY DEF IInv, NextPlace
<1>4. Base' = Base
  BY DEF Base
<1>5. Places'
  <2>1. ASSUME NEW n \in 1 .. Len(at)
        PROVE  at'[n] = IF n = 1 THEN Base ELSE Plus(at'[n - 1], Four)
    <3>1. CASE n = 1
      BY <1>2, <3>1 DEF IInv, Places
    <3>2. CASE n # 1
      <4>1. n - 1 \in 1 .. Len(at)
        BY <1>2, <3>2
      <4>2. QED
        BY <1>2, <3>2, <4>1 DEF IInv, Places
    <3>3. QED
      BY <3>1, <3>2
  <2>2. at'[Len(at) + 1] = IF Len(at) + 1 = 1 THEN Base ELSE Plus(at'[(Len(at) + 1) - 1], Four)
    <3>1. CASE Len(at) = 0
      <4>1. at = <<>>
        BY <1>1, <3>1
      <4>2. QED
        BY <1>2, <1>3, <3>1, <4>1
    <3>2. CASE Len(at) # 0
      <4>1. at # <<>> /\ Len(at) + 1 # 1 /\ (Len(at) + 1) - 1 = Len(at) /\ Len(at) \in 1 .. Len(at)
        BY <1>2, <3>2
      <4>2. QED
        BY <1>2, <1>3, <4>1
    <3>3. QED
      BY <3>1, <3>2
  <2>3. \A n \in 1 .. Len(at) + 1 : n \in 1 .. Len(at) \/ n = Len(at) + 1
    BY <1>2
  <2>4. QED
    BY <1>2, <1>4, <2>1, <2>2, <2>3 DEF Places
<1>6. NextPlace'
  BY <1>2 DEF NextPlace
<1>7. QED
  BY <1>5, <1>6

(* A turn of the assembler's loop keeps the invariant. *)
LEMMA AssembleInv ==
  ASSUME IInv, AssembleLine PROVE IInv'
<1>0. /\ phase = "asm" /\ ~ eof /\ words = <<>>
      /\ UNCHANGED <<argv, options, words>>
      /\ TypeOK /\ Phases /\ Histories
  BY DEF IInv, Phases, AssembleLine
<1>1. /\ (\E l \in Lines : Appended(l)) \/ NothingWritten
      /\ value' \in Word /\ addr' \in Word /\ passed' \in BOOLEAN /\ eof' \in BOOLEAN
      /\ str' \in [line : Lines \cup {Garbage}, newline : BOOLEAN]
  BY <1>0, AssembleCases
<1>2. CASE NothingWritten
  <2>1. lines' = lines /\ output' = output /\ at' = at /\ phase' \in {"asm", "failure"}
    BY <1>0, <1>2 DEF NothingWritten
  <2>2. TypeOK'
    BY <1>0, <1>1, <2>1 DEF TypeOK
  <2>3. Phases' /\ Histories' /\ DecodedWords'
    BY <1>0, <2>1 DEF Phases, Histories, DecodedWords
  <2>4. FlagsAsGiven' /\ OneWordPerLine' /\ Places' /\ EncodedWords'
    BY <1>0, <2>1 DEF IInv, FlagsAsGiven, OneWordPerLine, Places, EncodedWords,
                      Assembling, Newest, Base, Bare
  <2>5. NextPlace'
    BY <1>0, <1>2, <2>1 DEF IInv, NextPlace, NothingWritten, Base
  <2>6. QED
    BY <2>2, <2>3, <2>4, <2>5 DEF IInv
<1>3. CASE \E l \in Lines : Appended(l)
  <2>1. PICK l \in Lines : Appended(l)
    BY <1>3
  <2>2. /\ lines \in Seq(Lines) /\ output \in Seq(Outputs) /\ at \in Seq(Word)
        /\ value' \in Outputs /\ addr \in Word
    BY <1>0, <1>1 DEF TypeOK, Histories, Outputs
  <2>3. /\ lines' \in Seq(Lines) /\ Len(lines') = Len(lines) + 1 /\ Len(lines) \in Nat
        /\ DOMAIN lines' = 1 .. Len(lines) + 1 /\ DOMAIN lines = 1 .. Len(lines)
        /\ \A n \in 1 .. Len(lines) : lines'[n] = lines[n]
        /\ lines'[Len(lines) + 1] = l
    BY <2>1, <2>2, AppendFacts DEF Appended
  <2>4. /\ output' \in Seq(Outputs) /\ Len(output') = Len(output) + 1 /\ Len(output) \in Nat
        /\ DOMAIN output' = 1 .. Len(output) + 1 /\ DOMAIN output = 1 .. Len(output)
        /\ \A n \in 1 .. Len(output) : output'[n] = output[n]
        /\ output'[Len(output) + 1] = value'
    BY <2>1, <2>2, AppendFacts DEF Appended
  <2>5. /\ at' \in Seq(Word) /\ Len(at') = Len(at) + 1 /\ Len(at) \in Nat
        /\ at'[Len(at) + 1] = addr
    BY <2>1, <2>2, AppendFacts DEF Appended
  <2>6. Len(output) = Len(lines) /\ Len(at) = Len(output)
    <3>1. CASE lines = <<>>
      BY <1>0, <2>3, <2>4, <3>1 DEF Histories
    <3>2. CASE lines # <<>>
      BY <1>0, <3>2 DEF IInv, OneWordPerLine, Assembling, Histories
    <3>3. QED
      BY <3>1, <3>2
  <2>7. lines' # <<>> /\ output' # <<>> /\ phase' = "asm"
    BY <1>0, <2>1, <2>3, <2>4 DEF Appended
  <2>8. TypeOK'
    BY <1>0, <1>1, <2>3, <2>7 DEF TypeOK
  <2>9. Phases' /\ DecodedWords' /\ FlagsAsGiven'
    BY <1>0, <2>7 DEF Phases, DecodedWords, FlagsAsGiven
  <2>10. OneWordPerLine'
    BY <2>3, <2>4, <2>6 DEF OneWordPerLine
  <2>11. Histories'
    <3>1. \A n \in 1 .. Len(lines) + 1 : lines'[n] # Unmatched
      <4>1. \A n \in 1 .. Len(lines) + 1 : n \in 1 .. Len(lines) \/ n = Len(lines) + 1
        BY <2>3
      <4>2. l # Unmatched /\ \A n \in 1 .. Len(lines) : lines[n] # Unmatched
        BY <1>0, <2>1, <2>3 DEF Histories, Appended
      <4>3. QED
        BY <2>3, <4>1, <4>2
    <3>2. QED
      BY <2>3, <2>4, <2>5, <2>6, <2>7, <3>1 DEF Histories
  <2>12. Places' /\ NextPlace'
    BY <1>0, <2>1, PlaceInv DEF Appended
  <2>13. EncodedWords'
    <3> DEFINE n == Len(output) + 1
    <3>1. Newest' = {n}
      BY <2>4 DEF Newest
    <3>2. lines'[n] = l /\ output'[n] = value' /\ at'[n] = addr
      BY <2>3, <2>4, <2>5, <2>6
    <3>3. ~ Bare(l) => output'[n] = EncodedWord(l.op, l.args, addr)
      BY <2>1, <3>2 DEF Appended
    <3>4. QED
      BY <3>1, <3>2, <3>3 DEF EncodedWords, Bare
  <2>14. QED
    BY <2>8, <2>9, <2>10, <2>11, <2>12, <2>13 DEF IInv
<1>4. QED
  BY <1>1, <1>2, <1>3

(* A turn of the disassembler's loop keeps the invariant (main.c:47-82). *)
LEMMA DisassembleInv ==
  ASSUME IInv, DisassembleWord PROVE IInv'
<1>0. /\ phase = "dis" /\ lines = <<>> /\ Len(words) = Len(output)
      /\ UNCHANGED <<argv, options, value, passed, str, eof, lines>>
      /\ addr' = Plus(addr, Four)
      /\ TypeOK /\ Phases /\ Histories
  BY DEF IInv, Phases, DisassembleWord
<1>1. PICK w \in Words :
        /\ words' = Append(words, w)
        /\ \/ phase' = "crash" /\ UNCHANGED <<output, at>>
           \/ \E x \in {Garbage, Decoded(w, addr)} : Write(x) /\ UNCHANGED phase
  BY DEF DisassembleWord, Decoded
<1>2. /\ words \in Seq(Words) /\ output \in Seq(Outputs) /\ at \in Seq(Word)
      /\ w \in Word /\ addr \in Word
  BY <1>0, InputsOK DEF TypeOK, Histories
<1>3. /\ words' \in Seq(Words) /\ Len(words') = Len(words) + 1 /\ Len(words) \in Nat
      /\ DOMAIN words' = 1 .. Len(words) + 1 /\ DOMAIN words = 1 .. Len(words)
      /\ \A n \in 1 .. Len(words) : words'[n] = words[n]
      /\ words'[Len(words) + 1] = w
  BY <1>1, <1>2, AppendFacts
<1>4. words' # <<>>
  BY <1>3
<1>5. TypeOK'
  <2>1. addr' \in Word
    BY <1>0, PlusWord
  <2>2. QED
    BY <1>0, <1>1, <1>3, <2>1 DEF TypeOK, Write
<1>6. OneWordPerLine' /\ EncodedWords' /\ FlagsAsGiven'
  BY <1>0, <1>1 DEF OneWordPerLine, EncodedWords, Assembling, FlagsAsGiven
<1>7. CASE phase' = "crash" /\ UNCHANGED <<output, at>>
  <2>1. Phases'
    BY <1>0, <1>7 DEF Phases
  <2>2. Histories'
    BY <1>0, <1>2, <1>3, <1>7 DEF Histories
  <2>3. Places' /\ NextPlace'
    BY <1>0, <1>7 DEF IInv, Places, NextPlace, Base
  <2>4. DecodedWords'
    <3>1. output \in Seq(Outputs) /\ DOMAIN output = 1 .. Len(words)
      BY <1>0, <1>2
    <3>2. CASE words = <<>>
      BY <1>3, <1>7, <3>1, <3>2 DEF DecodedWords
    <3>3. CASE words # <<>>
      BY <1>3, <1>7, <3>1, <3>3 DEF IInv, DecodedWords
    <3>4. QED
      BY <3>2, <3>3
  <2>5. QED
    BY <1>5, <1>6, <2>1, <2>2, <2>3, <2>4 DEF IInv
<1>8. CASE \E x \in {Garbage, Decoded(w, addr)} : Write(x) /\ UNCHANGED phase
  <2>1. PICK x \in {Garbage, Decoded(w, addr)} : Write(x) /\ UNCHANGED phase
    BY <1>8
  <2>2. output' = Append(output, x) /\ at' = Append(at, addr) /\ phase' = "dis" /\ x \in Outputs
    BY <1>0, <1>2, <2>1 DEF Write, Outputs
  <2>3. /\ output' \in Seq(Outputs) /\ Len(output') = Len(output) + 1 /\ Len(output) \in Nat
        /\ DOMAIN output' = 1 .. Len(output) + 1 /\ DOMAIN output = 1 .. Len(output)
        /\ \A n \in 1 .. Len(output) : output'[n] = output[n]
        /\ output'[Len(output) + 1] = x
    BY <1>2, <2>2, AppendFacts
  <2>4. /\ at' \in Seq(Word) /\ Len(at') = Len(at) + 1 /\ Len(at) = Len(output)
        /\ \A n \in 1 .. Len(at) : at'[n] = at[n]
        /\ at'[Len(at) + 1] = addr
    BY <1>0, <1>2, <2>2, AppendFacts DEF Histories
  <2>5. Phases'
    BY <1>0, <1>3, <2>2, <2>3 DEF Phases
  <2>6. Histories'
    BY <1>0, <1>3, <2>3, <2>4 DEF Histories
  <2>7. Places' /\ NextPlace'
    BY <1>0, <2>2, PlaceInv
  <2>8. DecodedWords'
    <3>1. \A n \in 1 .. Len(output) + 1 : n \in 1 .. Len(output) \/ n = Len(output) + 1
      BY <2>3
    <3>2. output'[Len(output) + 1] \in {Garbage, Decoded(words'[Len(output) + 1], at'[Len(output) + 1])}
      BY <1>0, <1>3, <2>1, <2>3, <2>4
    <3>3. ASSUME NEW n \in 1 .. Len(output)
          PROVE  output'[n] \in {Garbage, Decoded(words'[n], at'[n])}
      <4>1. words # <<>>
        BY <1>0, <1>2
      <4>2. output[n] \in {Garbage, Decoded(words[n], at[n])}
        BY <2>3, <4>1 DEF IInv, DecodedWords
      <4>3. QED
        BY <1>0, <1>3, <2>3, <2>4, <4>2
    <3>4. QED
      BY <2>3, <3>1, <3>2, <3>3 DEF DecodedWords
  <2>9. QED
    BY <1>5, <1>6, <2>5, <2>6, <2>7, <2>8 DEF IInv
<1>9. QED
  BY <1>1, <1>7, <1>8

(* The end of either loop keeps the invariant. *)
LEMMA EndInv ==
  ASSUME IInv, AssembleEnd \/ DisassembleEnd PROVE IInv'
<1>1. /\ phase \in {"asm", "dis"} /\ phase' \in {"success", "failure"}
      /\ UNCHANGED <<argv, options, addr, value, passed, str, eof, lines, words, output, at>>
  BY DEF AssembleEnd, DisassembleEnd
<1>2. TypeOK' /\ Phases' /\ Histories' /\ NextPlace' /\ DecodedWords'
  BY <1>1 DEF IInv, TypeOK, Phases, Histories, NextPlace, DecodedWords
<1>3. FlagsAsGiven' /\ OneWordPerLine' /\ Places' /\ EncodedWords'
  BY <1>1 DEF IInv, FlagsAsGiven, OneWordPerLine, Places, EncodedWords, Assembling,
              Newest, Base, Bare
<1>4. QED
  BY <1>2, <1>3 DEF IInv

(* Nothing else in the invariant changes while the variables do not. *)
LEMMA StutterInv ==
  ASSUME IInv, UNCHANGED vars PROVE IInv'
<1>1. TypeOK' /\ Phases' /\ Histories' /\ NextPlace' /\ DecodedWords'
  BY DEF vars, IInv, TypeOK, Phases, Histories, NextPlace, DecodedWords, Base
<1>2. OneWordPerLine' /\ Places' /\ EncodedWords'
  BY DEF vars, IInv, OneWordPerLine, Places, EncodedWords, Assembling, Newest, Base, Bare
<1>3. FlagsAsGiven'
  <2>1. UNCHANGED <<phase, argv, options>>
    BY DEF vars
  <2>2. /\ (Help' <=> Help) /\ (Given("-d")' <=> Given("-d")) /\ (BigGiven' <=> BigGiven)
        /\ BaseGiven' = BaseGiven /\ Asked' = Asked
    BY <2>1 DEF Help, Given, BigGiven, BaseGiven, AddressOf, Asked, Opt
  <2>3. QED
    BY <2>1, <2>2 DEF IInv, FlagsAsGiven
<1>4. QED
  BY <1>1, <1>2, <1>3 DEF IInv

(* IInv holds in every state, for any command lines, lines, words and any   *)
(* number of them.                                                          *)
THEOREM Invariance == Spec => []IInv
<1>1. IInv /\ [Next]_vars => IInv'
  BY StartInv, AssembleInv, DisassembleInv, EndInv, StutterInv DEF Next
<1>2. QED
  BY InitInv, <1>1, PTL DEF Spec

(* Every variable keeps its type: addresses and values stay 32-bit words. *)
THEOREM TypeCorrect == Spec => []TypeOK
BY Invariance, PTL DEF IInv

(* The base address or-ed over the flags never changes one of them, nor     *)
(* they the address (validargs, hw1.c:58-193).                              *)
THEOREM OptionsKept == Spec => []FlagsAsGiven
BY Invariance, PTL DEF IInv

(* The assembler writes one word for each line read whole that names an     *)
(* instruction, and none twice at the end of the file.                      *)
THEOREM OneWordEach == Spec => []OneWordPerLine
BY Invariance, PTL DEF IInv

(* Words are made for consecutive places, in both loops, the first for the  *)
(* base address given if that is a multiple of 4096.                        *)
THEOREM EachInPlace == Spec => []InPlace
<1>1. IInv => InPlace
  <2> SUFFICES ASSUME IInv, NEW n \in DOMAIN at
               PROVE  IF n = 1 THEN Asked \cap 8 .. 11 = {} => at[n] = Asked
                               ELSE at[n] = Plus(at[n - 1], Four)
    BY DEF InPlace
  <2>1. at[n] = IF n = 1 THEN Base ELSE Plus(at[n - 1], Four)
    BY DEF IInv, Places
  <2>2. Asked \cap 8 .. 11 = {} => Base = Asked
    BY DEF Base, Asked
  <2>3. QED
    BY <2>1, <2>2
<1>2. QED
  BY <1>1, Invariance, PTL

(* A word that is the encoding of its line decodes to it, by                *)
(* DecodeInvertsEncode.                                                     *)
LEMMA RoundTripInv == IInv => RoundTrip
<1> SUFFICES ASSUME IInv, Assembling, NEW n \in Newest, ~ Bare(lines[n]),
                    \A i \in 1 .. 3 : \/ Masked(lines[n].op, instrTable(lines[n].op).srcs[i])
                                      \/ Fits(lines[n].op, instrTable(lines[n].op).srcs[i],
                                              lines[n].args[i], at[n])
             PROVE  /\ OpOf(output[n]) = lines[n].op
                    /\ \A i \in 1 .. 3 :
                         /\ instrTable(lines[n].op).srcs[i] # "NSRC"
                         /\ Fits(lines[n].op, instrTable(lines[n].op).srcs[i], lines[n].args[i], at[n])
                         => DecodedArgs(output[n], at[n])[i] = lines[n].args[i]
  BY DEF RoundTrip
<1>1. n \in DOMAIN output /\ output \in Seq(Outputs) /\ at \in Seq(Word) /\ lines \in Seq(Lines)
      /\ Len(at) = Len(output) /\ Len(output) = Len(lines)
  BY DEF Newest, IInv, Histories, TypeOK, OneWordPerLine
<1>2. lines[n] \in Lines \ {Unmatched} /\ at[n] \in Word
  BY <1>1 DEF IInv, Histories
<1>3. lines[n].op \in Encodable /\ lines[n].args \in [1 .. 3 -> Word]
  BY <1>2, InputsOK DEF Bare
<1>4. output[n] = EncodedWord(lines[n].op, lines[n].args, at[n])
  BY DEF IInv, EncodedWords
<1>5. QED
  BY <1>2, <1>3, <1>4, DecodeInvertsEncode

(* A word assembled from a line whose unmasked numbers fit disassembles,    *)
(* in its place, to that line.                                              *)
THEOREM DecodingGivesTheLine == Spec => []RoundTrip
BY Invariance, RoundTripInv, PTL

(* A line that is the decoding of its word encodes to it, by                *)
(* EncodeInvertsDecode.                                                     *)
LEMMA ReassemblesInv == IInv => Reassembles
<1> SUFFICES ASSUME IInv, NEW n \in Newest \cap DOMAIN words, output[n].op \in Encodable
             PROVE  LET again == EncodedWord(output[n].op, output[n].args, at[n])
                    IN  /\ again \subseteq words[n]
                        /\ OpOf(again) = output[n].op
                        /\ DecodedArgs(again, at[n]) = output[n].args
  BY DEF Reassembles
<1>1. /\ n \in DOMAIN output /\ n \in DOMAIN words /\ words \in Seq(Words)
      /\ output \in Seq(Outputs) /\ at \in Seq(Word) /\ Len(at) = Len(output)
  BY DEF Newest, IInv, Histories, TypeOK
<1>2. words # <<>> /\ words[n] \in Word /\ at[n] \in Word
  BY <1>1, InputsOK
<1>3. output[n] \in {Garbage, Decoded(words[n], at[n])}
  BY <1>1, <1>2 DEF IInv, DecodedWords
<1>4. output[n] = Decoded(words[n], at[n])
  BY <1>3, Names
<1>5. output[n].op = OpOf(words[n]) /\ output[n].args = DecodedArgs(words[n], at[n])
  BY <1>4 DEF Decoded
<1>6. QED
  BY <1>2, <1>5, EncodeInvertsDecode

(* A line disassembled from a word assembles, in its place, to that word    *)
(* but for bits no field covers.                                            *)
THEOREM EncodingGivesTheWord == Spec => []Reassembles
BY Invariance, ReassemblesInv, PTL
=============================================================================
