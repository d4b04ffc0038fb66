------------------------------ MODULE MipsCodec ------------------------------
(***************************************************************************)
(* The MIPS encoder and decoder of hw1 (hw1/src/hw1.c, instr_table.c).      *)
(*                                                                          *)
(* A 32-bit word is the set of the positions of its one bits, so that       *)
(* & and | are \cap and \cup, a mask is an interval, and the arithmetic on  *)
(* unsigned int, which wraps, is exact.  An int is the word it is stored    *)
(* as; printing one with %d or 0x%x and reading it back gives that word.    *)
(***************************************************************************)
EXTENDS Integers, Sequences

Bits == 0 .. 31
Word == SUBSET Bits

(* Mutant of Shl: what leaves the word is kept. *)
ShlWide(w, n) == {b + n : b \in w}

(* v << n, v >> n of an unsigned int and v >> n of an int.                  *)
Shl(w, n) == {b + n : b \in w} \cap Bits
Shr(w, n) == {b - n : b \in w} \cap Bits
Sar(w, n) == Shr(w, n) \cup (IF 31 \in w THEN 32 - n .. 31 ELSE {})

(* Three-way parity is what a full adder (and a full subtractor) leaves in  *)
(* a bit; a carry comes from the last place below that settles it.          *)
Odd3(p, q, r) == (p <=> q) <=> r
Carry(v, w, i) == \E j \in 0 .. i - 1 : /\ j \in v \cap w
                                        /\ j + 1 .. i - 1 \subseteq v \cup w
Borrow(v, w, i) == \E j \in 0 .. i - 1 : /\ j \in w \ v
                                         /\ v \cap (j + 1 .. i - 1) \subseteq w
Plus(v, w) == {i \in Bits : Odd3(i \in v, i \in w, Carry(v, w, i))}
Minus(v, w) == {i \in Bits : Odd3(i \in v, i \in w, Borrow(v, w, i))}
Four == {2}

(* p1 is the only part to move down into the sign's place: it is an int,    *)
(* and >> spreads its sign.                                                 *)
flipEndianness(w) ==
  Sar(w \cap 24 .. 31, 24) \cup Shr(w \cap 16 .. 23, 8)
    \cup Shl(w \cap 8 .. 15, 8) \cup Shl(w \cap 0 .. 7, 24)

-----------------------------------------------------------------------------
(* The tables.  An opcode is its name; a table index is the set of bits of  *)
(* the six-bit field it comes from.                                         *)
Field6 == SUBSET (0 .. 5)
Num6(f) ==
  LET One(b) == IF b \in f THEN 1 ELSE 0
  IN  One(0) + 2 * One(1) + 4 * One(2) + 8 * One(3) + 16 * One(4) + 32 * One(5)

opcodeRows == <<
  "SPECIAL", "BCOND", "J",     "JAL",   "BEQ",    "BNE",    "BLEZ",   "BGTZ",
  "ADDI",    "ADDIU", "SLTI",  "SLTIU", "ANDI",   "ORI",    "XORI",   "LUI",
  "UNIMP",   "UNIMP", "UNIMP", "UNIMP", "ILLEGL", "ILLEGL", "ILLEGL", "ILLEGL",
  "ILLEGL", "ILLEGL", "ILLEGL", "ILLEGL", "ILLEGL", "ILLEGL", "ILLEGL", "ILLEGL",
  "LB",      "LH",    "LWL",   "LW",    "LBU",    "LHU",    "LWR",    "ILLEGL",
  "SB",      "SH",    "SWL",   "SW",    "ILLEGL", "ILLEGL", "SWR",    "ILLEGL",
  "UNIMP",   "UNIMP", "UNIMP", "UNIMP", "ILLEGL", "ILLEGL", "ILLEGL", "ILLEGL",
  "UNIMP",   "UNIMP", "UNIMP", "UNIMP", "ILLEGL", "ILLEGL", "ILLEGL", "ILLEGL" >>

specialRows == <<
  "SLL",  "ILLEGL", "SRL",  "SRA",  "SLLV",    "ILLEGL", "SRLV",   "SRAV",
  "JR",   "JALR",   "ILLEGL", "ILLEGL", "SYSCALL", "BREAK", "ILLEGL", "ILLEGL",
  "MFHI", "MTHI",   "MFLO", "MTLO", "ILLEGL",  "ILLEGL", "ILLEGL", "ILLEGL",
  "MULT", "MULTU",  "DIV",  "DIVU", "ILLEGL",  "ILLEGL", "ILLEGL", "ILLEGL",
  "ADD",  "ADDU",   "SUB",  "SUBU", "AND",     "OR",     "XOR",    "NOR",
  "ILLEGL", "ILLEGL", "SLT", "SLTU", "ILLEGL", "ILLEGL", "ILLEGL", "ILLEGL" >>

opcodeTable == [f \in Field6 |-> opcodeRows[Num6(f) + 1]]
specialTable == [f \in Field6 |-> IF Num6(f) < Len(specialRows)
                                  THEN specialRows[Num6(f) + 1] ELSE "ILLEGL"]

(* BCOND instructions: bits 20 to 16 say which.                             *)
bcondTable == [BLTZ |-> {}, BGEZ |-> {16}, BLTZAL |-> {20}, BGEZAL |-> {16, 20}]

(* instrTable: the type of an instruction and the sources of its three      *)
(* arguments, the same for all of a form.                                   *)
Info(t, x, y, z) == [type |-> t, srcs |-> <<x, y, z>>]
instrTable(op) ==
  CASE op \in {"ADD", "ADDU", "AND", "NOR", "OR", "SLT", "SLTU", "SUB", "SUBU", "XOR"}
         -> Info("RTYP", "RD", "RS", "RT")
    [] op \in {"SLL", "SRA", "SRL"}          -> Info("RTYP", "RD", "RT", "EXTRA")
    [] op \in {"SLLV", "SRAV", "SRLV"}       -> Info("RTYP", "RD", "RT", "RS")
    [] op \in {"DIV", "DIVU", "MULT", "MULTU"} -> Info("RTYP", "RS", "RT", "NSRC")
    [] op = "JALR"                           -> Info("RTYP", "RD", "RS", "NSRC")
    [] op \in {"JR", "MTHI", "MTLO"}         -> Info("RTYP", "RS", "NSRC", "NSRC")
    [] op \in {"MFHI", "MFLO"}               -> Info("RTYP", "RD", "NSRC", "NSRC")
    [] op = "BREAK"                          -> Info("RTYP", "EXTRA", "NSRC", "NSRC")
    [] op = "SYSCALL"                        -> Info("RTYP", "NSRC", "NSRC", "NSRC")
    [] op \in {"ADDI", "ADDIU", "ANDI", "ORI", "SLTI", "SLTIU", "XORI"}
         -> Info("ITYP", "RT", "RS", "EXTRA")
    [] op \in {"BEQ", "BNE"}                 -> Info("ITYP", "RS", "RT", "EXTRA")
    [] op \in {"BGEZ", "BGEZAL", "BGTZ", "BLEZ", "BLTZ", "BLTZAL"}
         -> Info("ITYP", "RS", "EXTRA", "NSRC")
    [] op \in {"LB", "LBU", "LH", "LHU", "LW", "LWL", "LWR", "SB", "SH", "SW", "SWL", "SWR"}
         -> Info("ITYP", "RT", "EXTRA", "RS")
    [] op = "LUI"                            -> Info("ITYP", "RT", "EXTRA", "NSRC")
    [] op \in {"J", "JAL"}                   -> Info("JTYP", "EXTRA", "NSRC", "NSRC")
    [] OTHER                                 -> Info("NTYP", "NSRC", "NSRC", "NSRC")

Branches == {"BEQ", "BGEZ", "BGEZAL", "BGTZ", "BLEZ", "BLTZ", "BLTZAL", "BNE"}

-----------------------------------------------------------------------------
(* encode.  An opcode is in one table at most, and there once but for       *)
(* UNIMP, which is not encoded.                                             *)
Mnemonics == {opcodeTable[f] : f \in Field6} \cup {specialTable[f] : f \in Field6}
               \cup DOMAIN bcondTable
Special == {specialTable[f] : f \in Field6}

(* The instructions encode does not refuse, and the bits it begins with.    *)
Encodable == {op \in Mnemonics : instrTable(op).type # "NTYP"}

OpBits == [op \in Encodable |->
  IF op \in DOMAIN bcondTable THEN {26} \cup bcondTable[op]
  ELSE IF op \in Special THEN CHOOSE f \in Field6 : specialTable[f] = op
  ELSE Shl(CHOOSE f \in Field6 : opcodeTable[f] = op, 26)]

(* Mutant of Offset: from the branch instead of from the word after it. *)
OffsetFromHere(v, addr) == Minus(v, addr)

(* The distance from the word after a branch to its target. *)
Offset(v, addr) == Minus(Minus(v, addr), Four)

(* The bits an argument from source s is or-ed in as.  Registers, shift     *)
(* amounts and codes are not masked.                                        *)
ArgBits(op, s, v, addr) ==
  LET type == instrTable(op).type IN
  CASE s = "RS" -> Shl(v, 21)
    [] s = "RT" -> Shl(v, 16)
    [] s = "RD" -> Shl(v, 11)
    [] s = "EXTRA" /\ type = "RTYP" -> Shl(v, 6)
    [] s = "EXTRA" /\ type = "ITYP" /\ op \in Branches ->
         Sar(Offset(v, addr), 2) \cap 0 .. 15
    [] s = "EXTRA" /\ type = "ITYP" /\ op \notin Branches -> v \cap 0 .. 15
    [] s = "EXTRA" /\ type = "JTYP" -> Shr(Shr(Shl(v, 4), 4), 2)
    [] OTHER -> {}

EncodedWord(op, args, addr) ==
  OpBits[op] \cup UNION {ArgBits(op, instrTable(op).srcs[i], args[i], addr) : i \in 1 .. 3}

-----------------------------------------------------------------------------
(* decode.  ILLEGL stands for a word it refuses.                            *)
OpOf(value) ==
  LET op == opcodeTable[Shr(value, 26)]
      which == value \cap 16 .. 20
  IN  CASE op = "SPECIAL" -> specialTable[value \cap 0 .. 5]
        [] op = "BCOND" -> IF \E b \in DOMAIN bcondTable : bcondTable[b] = which
                           THEN CHOOSE b \in DOMAIN bcondTable : bcondTable[b] = which
                           ELSE "ILLEGL"
        [] OTHER -> op

(* Mutant of SignExtend: nothing is done. *)
ZeroExtend(v) == v

SignExtend(v) == v \cup (IF 15 \in v THEN 16 .. 31 ELSE {})

(* What argument is in the word for source s.                               *)
ArgOf(op, s, value, addr) ==
  LET type == instrTable(op).type
      immediate == SignExtend(value \cap 0 .. 15)
  IN  CASE s = "RS" -> Shr(value \cap 21 .. 25, 21)
        [] s = "RT" -> Shr(value \cap 16 .. 20, 16)
        [] s = "RD" -> Shr(value \cap 11 .. 15, 11)
        [] s = "EXTRA" /\ op = "BREAK" -> Shr(value \cap 6 .. 25, 6)
        [] s = "EXTRA" /\ type = "RTYP" /\ op # "BREAK" -> Shr(value \cap 6 .. 10, 6)
        [] s = "EXTRA" /\ type = "ITYP" /\ op \in Branches ->
             Plus(Plus(Shl(immediate, 2), addr), Four)
        [] s = "EXTRA" /\ type = "ITYP" /\ op \notin Branches -> immediate
        [] s = "EXTRA" /\ type = "JTYP" ->
             Plus(Plus(addr, Four) \cap 28 .. 31, Shl(value \cap 0 .. 25, 2))
        [] OTHER -> {}

DecodedArgs(value, addr) ==
  LET op == OpOf(value)
  IN  [i \in 1 .. 3 |-> ArgOf(op, instrTable(op).srcs[i], value, addr)]

-----------------------------------------------------------------------------
(* A value that survives its field, per source of an argument.              *)
Fits(op, s, v, a) ==
  LET type == instrTable(op).type
      offset == Offset(v, a)
  IN  CASE s \in {"RS", "RT", "RD"} -> v \subseteq 0 .. 4
        [] s = "EXTRA" /\ op = "BREAK" -> v \subseteq 0 .. 19
        [] s = "EXTRA" /\ type = "RTYP" /\ op # "BREAK" -> v \subseteq 0 .. 4
        [] s = "EXTRA" /\ op \in Branches ->
             /\ offset \cap 0 .. 1 = {}
             /\ offset \cap 17 .. 31 \in {{}, 17 .. 31}
        [] s = "EXTRA" /\ type = "ITYP" /\ op \notin Branches ->
             v \cap 15 .. 31 \in {{}, 15 .. 31}
        [] s = "EXTRA" /\ type = "JTYP" ->
             v \cap 0 .. 1 = {} /\ v \cap 28 .. 31 = Plus(a, Four) \cap 28 .. 31
        [] OTHER -> TRUE

(* The arguments encode masks; the others spill into their neighbours when  *)
(* they do not fit.                                                         *)
Masked(op, s) == s = "EXTRA" /\ instrTable(op).type \in {"ITYP", "JTYP"}
=============================================================================
