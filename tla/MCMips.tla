------------------------------- MODULE MCMips -------------------------------
(***************************************************************************)
(* Model-checking instance of MipsMain: every command line of up to three   *)
(* arguments and some of four, a line and a word of every form, and numbers *)
(* at the ends of their fields.                                             *)
(***************************************************************************)
EXTENDS MipsMain, FiniteSets

(* The bits of a natural number below 2^31. *)
Bin(n) == {b \in 0 .. 30 : (n \div 2 ^ b) % 2 = 1}

Text(o) == [opt |-> o, hex |-> FALSE, digits |-> <<>>]
Hex(o, d) == [opt |-> o, hex |-> TRUE, digits |-> [i \in DOMAIN d |-> Bin(d[i])]]
MCArgs == {Text(o) : o \in {"-h", "-a", "-d", "-e", "-b", "l", "x"}}
            \cup {Hex("b", <<11>>), Hex("100", <<1, 0, 0>>), Hex("00", <<0, 0>>),
                  Hex("1007", <<1, 0, 0, 7>>),
                  Hex("1100", <<1, 1, 0, 0>>),
                  Hex("fffff000", <<15, 15, 15, 15, 15, 0, 0, 0>>),
                  Hex("100000000", <<1, 0, 0, 0, 0, 0, 0, 0, 0>>)}
MCTexts == {a.opt : a \in MCArgs}
MCArgvs ==
  UNION {[1 .. n -> MCArgs] : n \in 0 .. 3}
    \cup {<<Text("-d"), Text("-b"), a, Text("-e"), Hex("b", <<11>>)>> : a \in MCArgs}
    \cup {<<Text("-a"), Text("-b"), a, Text("-e"), Hex("b", <<11>>)>> : a \in MCArgs}

Neg(n) == Minus({}, Bin(n))
Line(o, x, y, z) == [op |-> o, args |-> <<x, y, z>>]
MCLines ==
  {Unmatched, Line("SYSCALL", {}, {}, {}),
   Line("ADD", Bin(31), Bin(1), Bin(16)),        \* registers at their limits
   Line("SRA", Bin(3), Bin(4), Bin(31)),
   Line("SUB", Neg(1), Bin(1), Bin(2)),          \* a register that does not fit
   Line("BREAK", Bin(1048575), {}, {}),
   Line("ADDI", Bin(1), Bin(2), Neg(32768)),
   Line("ORI", Bin(1), Bin(2), Bin(65535)),      \* does not fit once the sign is extended
   Line("LW", Bin(8), Neg(4), Bin(29)),
   Line("BNE", Bin(1), Bin(2), Bin(4096)),       \* at the base address: 4096
   Line("BGEZAL", Bin(7), Bin(131072 + 4096), {}),
   Line("BEQ", Bin(0), Bin(31), Bin(6)),         \* not a multiple of four
   Line("J", Bin(4096), {}, {})}

MCWords ==
  {Bin(4), {26}, {26, 16, 20, 15, 0},             \* sllv; bltz; bgezal backwards
   {26, 18},                                      \* BCOND, refused
   {27, 31, 0, 15}, {30, 31},                     \* lb...; UNIMP
   {27, 25, 0},                                   \* j
   {28, 15, 14, 13, 21},                          \* beq backwards
   {29, 21, 16, 15},                              \* addi, negative
   {3, 2, 0, 25, 6, 7},                           \* break
   {0, 1, 11, 20, 6, 10, 25},                     \* sra, with bits in rs
   {2, 3}}                                        \* syscall
MCJunk == {{0, 31}}
=============================================================================
