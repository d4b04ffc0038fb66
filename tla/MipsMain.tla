------------------------------ MODULE MipsMain ------------------------------
(***************************************************************************)
(* The program of hw1 (main.c): validargs, then the loop that assembles     *)
(* stdin line by line or the one that disassembles it word by word.         *)
(*                                                                          *)
(* A command-line argument is an option or another text, and the hexadecimal *)
(* digits it consists of if it is made of nothing else; a digit is the set  *)
(* of its one bits.  A line is what sscanf makes of it: the first entry of  *)
(* instrTable that it matches, and three numbers, zero where an operand is  *)
(* missing.                                                                 *)
(***************************************************************************)
EXTENDS MipsCodec

CONSTANTS
  Texts,     \* what an argument may be, options included
  Argvs,     \* command lines (argv[1] and on), sequences of arguments
  Lines,     \* lines of input: [op, args]
  Words,     \* words of input
  Junk,      \* what an uninitialised int may hold
  MaxInput   \* bound: lines or words in stdin

(* Lines that name an instruction and have no operand, and any line that    *)
(* neither names one nor has the operands of one.                           *)
BareOps == {"SYSCALL", "RFE", "UNIMP", "ILLEGL"}
Unmatched == [op |-> "none", args |-> <<{}, {}, {}>>]

(* A line buffer, or an output line, made of uninitialised memory.          *)
Garbage == [op |-> "garbage", args |-> <<{}, {}, {}>>]

Arguments == [opt : Texts, hex : BOOLEAN, digits : Seq(SUBSET (0 .. 3))]

ASSUME InputsOK ==
  /\ MaxInput \in Nat
  /\ Argvs \subseteq Seq(Arguments)
  /\ Words \subseteq Word /\ Junk \subseteq Word /\ Junk # {}
  /\ Unmatched \in Lines
  /\ \A l \in Lines : /\ l.args \in [1 .. 3 -> Word]
                      /\ l.op \in BareOps \/ l = Unmatched \/ l.op \in Encodable

VARIABLES
  phase,    \* "args", "main", "asm", "dis" or how the program ended
  argv,     \* the command line, until main has looked at the options
  options,  \* global_options
  addr,     \* main's addr
  value,    \* ip.value in assembly mode
  passed,   \* passedEncode
  str,      \* main's line buffer: a line and whether it ends with a newline
  eof,      \* feof(stdin)
  lines,    \* history: lines read whole that name an instruction
  words,    \* history: words read
  output,   \* words or lines written
  at        \* history: the address each of them was made for

vars == <<phase, argv, options, addr, value, passed, str, eof, lines, words, output, at>>

Init ==
  /\ phase = "args"
  /\ argv \in Argvs
  /\ options = {} /\ addr = {} /\ eof = FALSE /\ passed = FALSE
  /\ value = {}
  /\ str = [line |-> Garbage, newline |-> FALSE]
  /\ lines = <<>> /\ words = <<>> /\ output = <<>> /\ at = <<>>

-----------------------------------------------------------------------------
Opt(i) == argv[i].opt
Before(i, opts) == \E j \in 1 .. i - 1 : Opt(j) \in opts

(* strtol in base 16: digit k from the right has bits 4k to 4k + 3.         *)
AddressOf(a) ==
  {b \in Bits : \E k \in 0 .. Len(a.digits) - 1 : b - 4 * k \in a.digits[Len(a.digits) - k]}

(* Mutant of validateBaseAddress: the zeros at the end are not asked for. *)
validateDigits(a) ==
  /\ a.hex /\ Len(a.digits) \in 2 .. 8
  /\ Len(a.digits) <= 3 => AddressOf(a) = {}

(* The last two digits are zero.  In a shorter text, the check reads the    *)
(* end of the argument before, and fails.                                   *)
validateBaseAddress(a) ==
  /\ a.hex /\ Len(a.digits) \in 2 .. 8
  /\ Len(a.digits) <= 3 => AddressOf(a) = {}
  /\ a.digits[Len(a.digits)] = {} /\ a.digits[Len(a.digits) - 1] = {}

Help == argv # <<>> /\ Opt(1) = "-h"

RefusedAt(i) ==
  \/ Opt(i) = "-h" /\ i # 1
  \/ Opt(i) = "-a" /\ Before(i, {"-e", "-b", "-d"})
  \/ Opt(i) = "-d" /\ Before(i, {"-e", "-b", "-a"})
  \/ Opt(i) = "-e" /\ (i = Len(argv) \/ Opt(i + 1) \notin {"b", "l"})
  \/ Opt(i) = "-b" /\ (i = Len(argv) \/ ~validateBaseAddress(argv[i + 1]))

Given(opt) == \E i \in DOMAIN argv : Opt(i) = opt
BigGiven == \E i \in 1 .. Len(argv) - 1 : Opt(i) = "-e" /\ Opt(i + 1) = "b"

(* The last -b counts. *)
BaseGiven ==
  {b \in Bits : \E i \in DOMAIN argv : /\ Opt(i) = "-b" /\ b \in AddressOf(argv[i + 1])
                                       /\ \A j \in DOMAIN argv : j > i => Opt(j) # "-b"}

(* validargs, and the USAGE of main. *)
Validate ==
  /\ phase = "args"
  /\ IF Help
     THEN phase' = "main" /\ options' = {0}
     ELSE IF argv = <<>> \/ \E i \in DOMAIN argv : RefusedAt(i)
     THEN phase' = "failure" /\ UNCHANGED options
     ELSE /\ phase' = "main"
          /\ options' = (IF Given("-d") THEN {1} ELSE {})
                          \cup (IF BigGiven THEN {2} ELSE {}) \cup BaseGiven
  /\ UNCHANGED <<argv, addr, value, passed, str, eof, lines, words, output, at>>

Base == options \cap 12 .. 31

(* ip is declared and not given a value. *)
Dispatch ==
  /\ phase = "main"
  /\ phase' = IF 0 \in options THEN "success" ELSE IF 1 \in options THEN "dis" ELSE "asm"
  /\ addr' = IF 0 \in options THEN addr ELSE Base
  /\ argv' = <<>>
  /\ value' \in Junk
  /\ UNCHANGED <<options, passed, str, eof, lines, words, output, at>>

-----------------------------------------------------------------------------
(* fgets knows of the end of the file when a line has no newline; when      *)
(* there is nothing left it leaves the buffer as it was, uninitialised if   *)
(* there was nothing at all.                                                *)
Fgets ==
  \/ /\ Len(lines) < MaxInput
     /\ \E l \in Lines, newline \in BOOLEAN :
          /\ str' = [line |-> l, newline |-> newline]
          /\ lines' = IF newline /\ l # Unmatched THEN Append(lines, l) ELSE lines
          /\ eof' = ~newline
  \/ /\ eof' = TRUE /\ UNCHANGED lines
     /\ str' \in IF str.line = Garbage THEN [line : Lines, newline : BOOLEAN] ELSE {str}

Write(x) == output' = Append(output, x) /\ at' = Append(at, addr)

(* Mutant of Emit: the end of the file is not looked at. *)
EmitAlways == Write(value')

Emit == IF eof' THEN UNCHANGED <<output, at>> ELSE Write(value')

(* Mutant of AssembleBare: no room is left for the word. *)
AssembleBareNowhere ==
  /\ str'.line.op \in BareOps /\ str'.newline
  /\ value' = IF 2 \in options THEN flipEndianness(value) ELSE value
  /\ passed' = TRUE
  /\ Emit
  /\ UNCHANGED <<phase, addr>>

(* A line without operands takes the first entry of instrTable, ILLEGL,     *)
(* which encode refuses: the value stays.                                   *)
AssembleBare ==
  /\ str'.line.op \in BareOps /\ str'.newline
  /\ value' = IF 2 \in options THEN flipEndianness(value) ELSE value
  /\ addr' = Plus(addr, Four)
  /\ passed' = TRUE
  /\ Emit
  /\ UNCHANGED phase

AssembleOperands ==
  /\ str'.line.op \in Encodable /\ str'.line.op \notin BareOps
  /\ value' = EncodedWord(str'.line.op, str'.line.args, addr)
  /\ addr' = Plus(addr, Four)
  /\ passed' = TRUE
  /\ Emit
  /\ UNCHANGED phase

Skip ==
  /\ str'.line = Unmatched \/ (str'.line.op \in BareOps /\ ~str'.newline)
  /\ phase' = IF passed THEN phase ELSE "failure"
  /\ UNCHANGED <<value, addr, passed, output, at>>

AssembleLine ==
  /\ phase = "asm" /\ ~eof
  /\ Fgets
  /\ AssembleBare \/ AssembleOperands \/ Skip
  /\ UNCHANGED <<argv, options, words>>

AssembleEnd ==
  /\ phase = "asm" /\ eof
  /\ phase' = "success"
  /\ UNCHANGED <<argv, options, addr, value, passed, str, eof, lines, words, output, at>>

-----------------------------------------------------------------------------
(* The byte order is changed in decodeNumber after its value was taken.     *)
(* When decode refuses a word, ip.info is not set.                          *)
DisassembleWord ==
  /\ phase = "dis" /\ Len(words) < MaxInput
  /\ \E w \in Words :
       /\ words' = Append(words, w)
       /\ \/ /\ OpOf(w) # "ILLEGL"
             /\ Write([op |-> OpOf(w), args |-> DecodedArgs(w, addr)])
             /\ UNCHANGED phase
          \/ /\ OpOf(w) = "ILLEGL"
             /\ \/ phase' = "crash" /\ UNCHANGED <<output, at>>
                \/ Write(Garbage) /\ UNCHANGED phase
  /\ addr' = Plus(addr, Four)
  /\ UNCHANGED <<argv, options, value, passed, str, eof, lines>>

(* The end of the file, within a word or not, or an error of fread.         *)
DisassembleEnd ==
  /\ phase = "dis"
  /\ phase' \in {"success", "failure"}
  /\ UNCHANGED <<argv, options, addr, value, passed, str, eof, lines, words, output, at>>

Next == Validate \/ Dispatch \/ AssembleLine \/ AssembleEnd
        \/ DisassembleWord \/ DisassembleEnd

Spec == Init /\ [][Next]_vars

-----------------------------------------------------------------------------
TypeOK ==
  /\ phase \in {"args", "main", "asm", "dis", "success", "failure", "crash"}
  /\ options \in Word /\ addr \in Word /\ value \in Word
  /\ passed \in BOOLEAN /\ eof \in BOOLEAN
  /\ str \in [line : Lines \cup {Garbage}, newline : BOOLEAN]
  /\ lines \in Seq(Lines) /\ words \in Seq(Words)

(* The options with the flags taken out: the base address. *)
Asked == options \cap 8 .. 31

(* validargs: the base address, or-ed into the options, leaves the flags    *)
(* what the arguments say (the bits main tests at main.c:21, :37 and :62),  *)
(* and the flags leave the address what was given.                          *)
FlagsAsGiven ==
  phase = "main" =>
    /\ 0 \in options <=> Help
    /\ ~Help => /\ 1 \in options <=> Given("-d")
                /\ 2 \in options <=> BigGiven
                /\ Asked = BaseGiven

(* Words are encoded and decoded for consecutive places, four bytes apart   *)
(* whatever was skipped or refused in between, and the first for the base   *)
(* address, if that is a multiple of 4096.  If it is not, it is not what    *)
(* const.h:17 calls it, "the starting memory address for the code":         *)
(* validargs lets -b 1100 through, and main.c:27 makes it 0x1000.           *)
InPlace ==
  \A n \in DOMAIN at :
    IF n = 1 THEN Asked \cap 8 .. 11 = {} => at[n] = Asked
             ELSE at[n] = Plus(at[n - 1], Four)

Assembling == lines # <<>>
Bare(l) == l.op \in BareOps

(* The place of the word or line just written; those before were looked at  *)
(* when they were written.                                                  *)
Newest == DOMAIN output \ (1 .. Len(output) - 1)

(* The assembler writes one word for each line that names an instruction    *)
(* and ends with a newline: the last line, which main.c matches again when  *)
(* fgets finds no more, is not written twice.  (A last line without a       *)
(* newline is not written at all.)                                          *)
OneWordPerLine == Assembling => Len(output) = Len(lines)

(* encode against decode: a word assembled from a line with operands, in    *)
(* its place in the file, disassembles to that line.  An immediate or a     *)
(* target that does not fit is all that changes; a register, shift amount   *)
(* or code that does not fit may change anything.                           *)
RoundTrip ==
  Assembling =>
    \A n \in Newest :
      LET op == lines[n].op
          srcs == instrTable(op).srcs
          Ok(i) == Fits(op, srcs[i], lines[n].args[i], at[n])
          got == DecodedArgs(output[n], at[n])
      IN  ~Bare(lines[n]) /\ (\A i \in 1 .. 3 : Masked(op, srcs[i]) \/ Ok(i)) =>
            /\ OpOf(output[n]) = op
            /\ \A i \in 1 .. 3 : srcs[i] # "NSRC" /\ Ok(i) => got[i] = lines[n].args[i]

(* decode against encode: a line disassembled in its place, assembled       *)
(* there, gives the word again but for bits no field covers, and            *)
(* disassembles to the same line.                                           *)
Reassembles ==
  \A n \in Newest \cap DOMAIN words :
    output[n].op \in Encodable =>
      LET again == EncodedWord(output[n].op, output[n].args, at[n])
      IN  /\ again \subseteq words[n]
          /\ OpOf(again) = output[n].op
          /\ DecodedArgs(again, at[n]) = output[n].args
=============================================================================
