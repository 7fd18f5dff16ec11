------------------------------- MODULE T80Arch -------------------------------
(***************************************************************************)
(* The core with a history of what a program sees at instruction            *)
(* boundaries, and the claim that this history is a behaviour of Z80.       *)
(***************************************************************************)
EXTENDS T80

VARIABLES
  pushed,   \* DO in the last two write cycles of the instruction
  seen      \* the programmer's view at the last instruction boundary

archVars == << vars, pushed, seen >>

NoByte == << "other", NotPC >>
NoPush == << NoByte, NoByte >>

\* The memory sees DO once in each write cycle, when the cycle ends.
Written == IF T_Res /\ ClkEn /\ On("Write") THEN << pushed[2], DO >> ELSE pushed

Torn == PCSpan + 1

\* The return address that the instruction pushed, if it pushed one.
ReturnAddress ==
  CASE \E p \in PCs : Written = << << "high", p >>, << "low", p >> >> -> Written[1][2]
    [] \A i \in 1..2 : Written[i][1] = "other" -> NotPC
    [] OTHER -> Torn

\* What a boundary shows.  EI takes effect in the next M1 cycle (T2) but belongs to the
\* instruction that ends here; Halt_FF falls one clock after the acceptance.
View ==
  [ pc       |-> PC',
    page     |-> Prefix,
    ret      |-> ReturnAddress,
    iff1     |-> IF On("SetEI") THEN ~AcceptsNMI ELSE IntE_FF1',
    iff2     |-> On("SetEI") \/ IntE_FF2',
    im       |-> IStatus',
    halted   |-> Halt_FF' /\ ~AcceptsNMI /\ ~AcceptsINT,
    response |-> IF AcceptsNMI THEN "NMI" ELSE IF AcceptsINT THEN "INT" ELSE "none" ]

ViewAfterReset ==
  [ pc |-> 0, page |-> 0, ret |-> NotPC, iff1 |-> FALSE, iff2 |-> FALSE, im |-> 0,
    halted |-> FALSE, response |-> "none" ]

ArchInit == Init /\ pushed = NoPush /\ seen = ViewAfterReset

ArchClock ==
  /\ pushed' = IF Completes THEN NoPush ELSE Written
  /\ \E wait_n \in WaitInputs : Step(wait_n)
  /\ seen' = IF Completes THEN View ELSE seen
  /\ Sample

ArchReset == Reset /\ pushed' = NoPush /\ seen' = ViewAfterReset

ArchNext == ArchClock \/ ArchReset

ArchSpec == ArchInit /\ [][ArchNext]_archVars

\* The opcode of the program that IR holds: not before T2 of its M1 cycle, not when the
\* core put it there itself, and not the CB of DD CB d, where the opcode comes last.
OpcodeInIR ==
  IF \/ MCycle = 1 /\ TState <= 2
     \/ seen.response # "none" \/ seen.halted
     \/ IR = "CB" /\ XY_State
  THEN << "none", FALSE >>
  ELSE << IR, cc >>

Program == INSTANCE Z80 WITH
  pc <- seen.pc, op <- OpcodeInIR, page <- seen.page, ret <- seen.ret,
  iff1 <- seen.iff1, iff2 <- seen.iff2, im <- seen.im, halted <- seen.halted,
  response <- seen.response

-------------------------------------------------------------------------------
(***************************************************************************)
(* What the microcode ROM owes to a program.  CoreAssumption (T80) keeps    *)
(* the sequencer going; this makes instructions of its machine cycles.      *)
(***************************************************************************)
\* An opcode with all that the ROM is told of it: the flags, the interrupt that is
\* responded to, and whether HL stands for IX + d.
Decoded ==
  { w \in [ir : AllOpcodes, iset : 0..2, cc : BOOLEAN, nmi : BOOLEAN, int : BOOLEAN, xy : BOOLEAN] :
      Decodes(w.ir, w.iset) }

Raised(w, mc) == ROMCycle(w.ir, w.iset, mc, w.cc, w.nmi, w.int, w.xy).out
Counts(w, mc) == ROMCount(w.ir, w.iset, mc, w.cc, w.nmi, w.int, w.xy)

\* The machine cycle that ends the instruction, and those that are begun.
LastCycle(w, mc) ==
  \/ Counts(w, mc) = mc
  \/ EndsRounds(Raised(w, mc), w.cc)
  \/ "I_DJNZ" \in Raised(w, mc) /\ mc = 2 /\ ~w.cc

Reaches(w, mc) == \A k \in 1 .. mc - 1 : ~LastCycle(w, k)

Jumping == {"Jump", "JumpXY", "Call", "RstP", "JumpE"}
Modes == << "IM0", "IM1", "IM2" >>

\* The flip-flops are touched by the opcodes named for it, in M1, but for RETN, which does
\* it last.
FlagRule(w, mc) ==
  /\ "SetEI" \in Raised(w, mc) <=> w.ir = "EI" /\ mc = 1
  /\ "SetDI" \in Raised(w, mc) <=> w.ir = "DI" /\ mc = 1
  /\ "Halt" \in Raised(w, mc) <=> w.ir = "HALT" /\ mc = 1
  /\ w.ir = "HALT" /\ mc = 1 => LastCycle(w, mc)
  /\ \A m \in 1..3 : Modes[m] \in Raised(w, mc) <=> w.ir = Modes[m] /\ mc = 1
  /\ "I_RETN" \in Raised(w, mc) <=> w.ir = "RETN" /\ LastCycle(w, mc)
  /\ "I_RETN" \in Raised(w, mc) => mc > 1

\* The halves of PC go into DO one after the other, are written in the two machine cycles
\* that follow, and nothing is written after them.
PushRule(w, mc) ==
  /\ "PCH" \in Raised(w, mc) =>
       /\ mc <= 3 /\ ~LastCycle(w, mc) /\ ~LastCycle(w, mc + 1)
       /\ "Write" \in Raised(w, mc + 1) /\ "PCL" \in Raised(w, mc + 1)
       /\ "Write" \in Raised(w, mc + 2)
       /\ \A k \in 1 .. mc + 1 : "PCH" \in Raised(w, k) => k = mc
  /\ "PCL" \in Raised(w, mc) => mc > 1 /\ "PCH" \in Raised(w, mc - 1)
  /\ "Write" \in Raised(w, mc) => mc > 1 /\ \A k \in 1 .. mc - 3 : "PCH" \notin Raised(w, k)

\* The operands are read right after M1.
Operands(w) == Program!OperandBytes(w.ir)
OperandRule(w, mc) ==
  /\ mc > 1 => ("Inc_PC" \in Raised(w, mc) <=> mc - 1 <= Operands(w))
  /\ LastCycle(w, mc) => mc > Operands(w)

\* The last machine cycle jumps if the branch is taken, and has pushed PC if it is a call.
BranchTaken(w) == w.ir \in Program!Conditional => w.cc
JumpRule(w, mc) ==
  LET pushes == w.ir \in Program!Pushes /\ BranchTaken(w)
  IN /\ Raised(w, mc) \cap Jumping # {} <=>
          LastCycle(w, mc) /\ w.ir \in Program!Branches /\ BranchTaken(w)
     /\ "JumpE" \in Raised(w, mc) => mc > 1
     /\ "PCH" \in Raised(w, mc) =>
          w.iset = 0 /\ pushes /\ mc > Operands(w) /\ LastCycle(w, mc + 2)
     /\ LastCycle(w, mc) /\ pushes => mc > 2 /\ "PCH" \in Raised(w, mc - 2)

\* A block instruction repeats in the machine cycle after its round.
RepeatRule(w, mc) ==
  /\ "I_BT" \in Raised(w, mc) =>
       /\ w.iset = 2 /\ w.ir \notin Program!Branches /\ Operands(w) = 0
       /\ \/ LastCycle(w, mc)
          \/ mc <= 4 /\ LastCycle(w, mc + 1) /\ w.ir \in Program!Repeating /\ w.cc
  /\ LastCycle(w, mc) /\ w.ir \in Program!Repeating /\ w.cc =>
       mc > 1 /\ "I_BT" \in Raised(w, mc - 1)

\* An (IX+d) operand has its displacement fetched after M1; a DD CB opcode goes on in M2.
IndexRule(w, mc) ==
  /\ w.iset = 0 /\ w.ir # "CB" /\ "aXY" \in Raised(w, mc) => w.ir \in Program!Indirect
  /\ w.iset = 0 /\ w.ir \in Program!Indirect =>
       /\ "aXY" \in Raised(w, 1) \/ w.ir = "LDHLn"
       /\ ~LastCycle(w, 1)
       /\ w.ir = "LDHLn" => ~LastCycle(w, 2)
  /\ w.iset = 1 =>
       /\ ~LastCycle(w, 1) /\ Operands(w) = 0
       /\ w.ir \notin {"DI", "IM0", "IM1", "IM2"}

\* The two machine cycles of a displacement pass one byte or, if there is one more, two.
DisplacementRule(w) ==
  /\ "Inc_PC" \in Raised(w, 6)
  /\ "Inc_PC" \in Raised(w, 7) <=> w.iset = 1 \/ w.ir = "LDHLn"
  /\ \A mc \in 6..7 :
       /\ Raised(w, mc) \cap (Jumping \cup {"IM0", "IM1", "IM2"}) = {}
       /\ Raised(w, mc) \cap {"Write", "PCH", "PCL", "I_BT"} = {}
       /\ Raised(w, mc) \cap {"SetEI", "SetDI", "I_RETN", "Halt"} = {}

\* The response to an interrupt pushes PC in its first three machine cycles.  In mode 2 it
\* goes on with the jump.
ResponseRule(w) ==
  LET cycles == IF w.ir = "NOP" /\ w.int THEN 5 ELSE 3
  IN /\ \A mc \in 1..5 :
          /\ Counts(w, mc) = cycles /\ "I_BT" \notin Raised(w, mc)
          /\ mc = 2 => "I_DJNZ" \notin Raised(w, mc)
     /\ "PCH" \in Raised(w, 1)
     /\ \A mc \in 1..3 :
          /\ mc > 1 => "Inc_PC" \notin Raised(w, mc)
          /\ Raised(w, mc) \cap Jumping = IF w.ir = "RST" /\ mc = 3 THEN {"RstP"} ELSE {}
     /\ cycles = 5 => Raised(w, 5) \cap Jumping = {"Jump"}

Response(ir, nmi, int) ==
  [ir |-> ir, iset |-> 0, cc |-> FALSE, nmi |-> nmi, int |-> int, xy |-> FALSE]

\* The opcodes as a program can have them in memory.
Programmed ==
  { w \in Decoded : /\ ~w.nmi /\ ~w.int
                    /\ w.cc => w.ir \in FlagTested
                    /\ w.xy => w.iset < 2 }

OpcodeAssumption ==
  /\ FlagTested \subseteq Program!Conditional \cup Program!Repeating
  /\ IntAckOps \subseteq {"RST"} /\ "none" \notin AllOpcodes
  /\ \A iset \in 1..2 : Opcodes[iset] \cap {"CB", "ED", "DD"} = {}
  /\ Opcodes[0] \cap Opcodes[1] = {}
  /\ \A ir \in AllOpcodes :
       Decodes(ir, 0) => ROMPrefix(ir, 0) = CASE ir = "CB" -> 1 [] ir = "ED" -> 2
                                              [] ir = "DD" -> 3 [] OTHER -> 0

ProgramAssumption ==
  /\ OpcodeAssumption
  /\ \A w \in Decoded, mc \in 1..5 : Reaches(w, mc) => FlagRule(w, mc) /\ PushRule(w, mc)
  /\ \A w \in Programmed, mc \in 1..5 :
       Reaches(w, mc) => /\ OperandRule(w, mc) /\ JumpRule(w, mc) /\ RepeatRule(w, mc)
                         /\ w.xy => IndexRule(w, mc)
  /\ \A w \in Programmed : w.xy => DisplacementRule(w)
  /\ ResponseRule(Response("NOP", TRUE, FALSE))
  /\ ResponseRule(Response("NOP", FALSE, TRUE))
  /\ ResponseRule(Response("RST", FALSE, TRUE))

ASSUME ProgramIsCoded == ProgramAssumption
-------------------------------------------------------------------------------
\* Whatever the wait states, the bus requests and the instants at which INT and NMI
\* arrive, the core runs a program as Z80 does: one instruction at a time, in order,
\* with nothing accepted after a prefix, EI or RETN, and with every interrupt
\* leaving the address of the next instruction on the stack (T80.vhd:1342-1412).
ImplementsZ80 == Program!Spec
===============================================================================
