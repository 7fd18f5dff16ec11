------------------------------- MODULE T80MCode -------------------------------
(***************************************************************************)
(* The microcode ROM of the T80 core (T80_MCode.vhd, Mode = 0): for every   *)
(* opcode class, instruction set page and machine cycle, the control        *)
(* outputs that the sequencer of T80.vhd reads.                             *)
(*                                                                          *)
(* Opcodes with the same sequence of machine cycles form one class, named   *)
(* after a representative.  The pages are ISet = 0 (unprefixed), 1 (CB) and *)
(* 2 (ED).  The outputs that only steer the ALU and the register file are   *)
(* left out; the address selections other than aXY (aSP, aBC, aDE, aZI,     *)
(* aIOA) are one output, aReg, for they all load A from a register.         *)
(***************************************************************************)
EXTENDS Naturals, Sequences, TLC

\* One machine cycle: its last T state and the outputs that are raised in it.
C(ts, out) == [TStates |-> ts, out |-> out]

\* An operand byte is read at PC; a byte is read, or written, elsewhere.
Operand == C(3, {"Inc_PC"})
OperandThenReg == C(3, {"Inc_PC", "aReg"})
Read  == C(3, {})
ReadReg == C(3, {"aReg"})
Store == C(3, {"Write"})

\* The two cycles that push PC, after a first cycle that puts its high byte in DO.
PushPC(last) == << C(3, {"Write", "aReg", "PCL"}), C(3, {"Write"} \cup last) >>

-------------------------------------------------------------------------------
Load8 ==
  [ LDrr  |-> << C(4, {}) >>,
    LDrn  |-> << C(4, {}), Operand >>,
    LDrHL |-> << C(4, {"aXY"}), Read >>,
    LDHLr |-> << C(4, {"aXY"}), Store >>,
    LDHLn |-> << C(4, {}), C(3, {"Inc_PC", "aXY"}), Store >>,
    LDABC |-> << C(4, {"aReg"}), Read >>,
    LDBCA |-> << C(4, {"aReg"}), Store >>,
    LDAnn |-> << C(4, {}), Operand, OperandThenReg, Read >>,
    LDnnA |-> << C(4, {}), Operand, OperandThenReg, Store >> ]

Load16 ==
  [ LDddnn |-> << C(4, {}), Operand, Operand >>,
    LDHLnn |-> << C(4, {}), Operand, OperandThenReg, ReadReg, Read >>,
    LDnnHL |-> << C(4, {}), Operand, OperandThenReg, C(3, {"Write", "aReg"}), Store >>,
    LDSPHL |-> << C(6, {}) >>,
    PUSH   |-> << C(5, {"aReg"}), C(3, {"Write", "aReg"}), Store >>,
    POP    |-> << C(4, {"aReg"}), ReadReg, Read >>,
    EXSPHL |-> << C(4, {"aReg"}), ReadReg, C(4, {"aReg"}),
                  C(3, {"Write", "aReg"}), C(5, {"Write"}) >> ]

Arith ==
  [ INCHL |-> << C(4, {"aXY"}), C(4, {"aXY"}), Store >>,
    ADDHL |-> << C(4, {"No_PC"}), C(4, {"NoRead", "No_PC"}), C(3, {"NoRead"}) >> ]

Control ==
  [ EI |-> << C(4, {"SetEI"}) >>,
    DI |-> << C(4, {"SetDI"}) >>,
    HALT |-> << C(4, {"Halt"}) >> ]

Prefixes == [ CB |-> << C(4, {}) >>, ED |-> << C(4, {}) >>, DD |-> << C(4, {}) >> ]

\* cc: the branch is taken.
Jumps(cc) ==
  [ JP    |-> << C(4, {}), Operand, C(3, {"Inc_PC", "Jump"}) >>,
    JPcc  |-> << C(4, {}), Operand,
                 C(3, {"Inc_PC"} \cup IF cc THEN {"Jump"} ELSE {}) >>,
    JR    |-> << C(4, {}), C(3, {"Inc_PC", "No_PC"}), C(5, {"NoRead", "JumpE"}) >>,
    JRcc  |-> << C(4, {}), C(3, {"Inc_PC"} \cup IF cc THEN {"No_PC"} ELSE {"Last"}),
                 C(5, {"NoRead", "JumpE"}) >>,
    JPHL  |-> << C(4, {"JumpXY"}) >>,
    DJNZ  |-> << C(5, {"I_DJNZ"}), C(3, {"Inc_PC", "No_PC", "I_DJNZ"}),
                 C(5, {"NoRead", "JumpE"}) >> ]

Calls(cc) ==
  LET push == C(4, {"Inc_PC", "aReg", "PCH"})
  IN [ CALL   |-> << C(4, {}), Operand, push >> \o PushPC({"Call"}),
       CALLcc |-> << C(4, {}), Operand, IF cc THEN push ELSE C(3, {"Inc_PC", "Last"}) >>
                  \o PushPC({"Call"}),
       RET    |-> << C(4, {"aReg"}), ReadReg, C(3, {"Jump"}) >>,
       RETcc  |-> << C(5, IF cc THEN {"aReg"} ELSE {"Last"}), ReadReg, C(3, {"Jump"}) >>,
       RST    |-> << C(5, {"aReg", "PCH"}) >> \o PushPC({"RstP"}) ]

InOut ==
  [ INAn  |-> << C(4, {}), OperandThenReg, C(3, {"IORQ"}) >>,
    OUTnA |-> << C(4, {}), OperandThenReg, C(3, {"IORQ", "Write"}) >> ]

\* The opcode 00 is NOP, and the sequence that answers NMI or an IM 2 interrupt.
Nop == << C(4, {}) >>
NMIResponse == << C(5, {"aReg", "PCH"}) >> \o PushPC({})
IM2Response == NMIResponse \o << Operand, C(3, {"Jump"}) >>

Fixed == Load8 @@ Load16 @@ Arith @@ Control @@ Prefixes @@ InOut
Taken == Fixed @@ Jumps(TRUE) @@ Calls(TRUE)
NotTaken == Fixed @@ Jumps(FALSE) @@ Calls(FALSE)

Page0(ir, cc, nmi, int) ==
  IF ir # "NOP" THEN IF cc THEN Taken[ir] ELSE NotTaken[ir]
  ELSE IF nmi THEN NMIResponse ELSE IF int THEN IM2Response ELSE Nop
-------------------------------------------------------------------------------
\* After DD or FD, xy, every CB opcode works on memory.
Shift == << C(4, {"aXY"}), C(4, {"aXY"}), Store >>
Test  == << C(4, {"aXY"}), C(4, {}) >>

Registers ==
  [ CBr |-> << C(4, {}) >>, BITr |-> << C(4, {}) >>, CB |-> << C(4, {}) >>,
    CBHL |-> Shift, BITHL |-> Test ]
Indexed == [ CBr |-> Shift, BITr |-> Test, CB |-> Shift, CBHL |-> Shift, BITHL |-> Test ]

-------------------------------------------------------------------------------
Extended ==
  [ NEG  |-> << C(4, {}) >>,
    LDAI |-> << C(5, {}) >>,
    LDddmm |-> Load16.LDHLnn,
    LDmmdd |-> Load16.LDnnHL,
    IM0  |-> << C(4, {"IM0"}) >>,
    IM1  |-> << C(4, {"IM1"}) >>,
    IM2  |-> << C(4, {"IM2"}) >>,
    ADCHL |-> Arith.ADDHL,
    RLD  |-> << C(4, {"aXY"}), C(3, {"No_PC"}), C(4, {"NoRead", "aXY"}), Store >>,
    RETN |-> << C(4, {"aReg"}), ReadReg, C(3, {"Jump", "I_RETN"}) >>,
    INrC |-> << C(4, {"aReg"}), C(3, {"IORQ"}) >>,
    OUTCr |-> << C(4, {"aReg"}), C(3, {"IORQ", "Write"}) >> ]

\* The block instructions.  "One" marks the opcodes with IR(4) = 0: LDI, not LDIR.
Block ==
  LET again == C(5, {"NoRead"})
      move(one) == << C(4, {"aXY"}), ReadReg, C(5, {"I_BT", "Write", "No_PC"} \cup one), again >>
      find(one) == << C(4, {"aXY"}), C(3, {"No_PC"}),
                      C(5, {"I_BT", "NoRead", "No_PC"} \cup one), again >>
      in(one)  == << C(5, {"aReg"}), C(3, {"IORQ", "aXY"}),
                     C(3, {"I_BT", "I_BTR", "Write"} \cup one), again >>
      out(one) == << C(5, {"aXY"}), ReadReg,
                     C(3, {"I_BT", "I_BTR", "IORQ", "Write"} \cup one), again >>
  IN [ LDI |-> move({"One"}), LDIR |-> move({}),
       CPI |-> find({"One"}), CPIR |-> find({}),
       INI |-> in({"One"}),   INIR |-> in({}),
       OUTI |-> out({"One"}), OTIR |-> out({}) ]

Page2 == Extended @@ Block

-------------------------------------------------------------------------------
\* The machine cycles of an opcode.
Cycles(ir, iset, cc, nmi, int, xy) ==
  CASE iset = 0 -> Page0(ir, cc, nmi, int)
    [] iset = 1 -> IF xy THEN Indexed[ir] ELSE Registers[ir]
    [] iset = 2 -> Page2[ir]

\* Machine cycles 6 and 7 fetch the displacement of an (IX+d) operand and add it.
\* LD (IX+d),n and the DD CB opcodes read one more byte meanwhile.
Displacement == C(3, {"Inc_PC", "No_PC"})
DisplacementAndMore == C(3, {"Inc_PC"})
AddDisplacement == C(5, {"NoRead", "aXY"})
AddAndRead == C(5, {"Inc_PC", "aXY"})

(***************************************************************************)
(* The outputs of the ROM: the prefix that the opcode is, the number of     *)
(* machine cycles as known in cycle mc, and what that cycle raises.         *)
(***************************************************************************)
PrefixOf(ir, iset) ==
  IF iset # 0 THEN 0
  ELSE CASE ir = "CB" -> 1 [] ir = "ED" -> 2 [] ir = "DD" -> 3 [] OTHER -> 0

CycleOf(ir, iset, mc, cc, nmi, int, xy) ==
  LET cycles == Cycles(ir, iset, cc, nmi, int, xy)
      more == ir = "LDHLn" \/ iset = 1
  IN CASE mc = 6 -> IF more THEN DisplacementAndMore ELSE Displacement
       [] mc = 7 -> IF more THEN AddAndRead ELSE AddDisplacement
       [] OTHER -> IF mc <= Len(cycles) THEN cycles[mc] ELSE Read

CountOf(ir, iset, mc, cc, nmi, int, xy) ==
  IF "Last" \in CycleOf(ir, iset, mc, cc, nmi, int, xy).out
  THEN mc
  ELSE Len(Cycles(ir, iset, cc, nmi, int, xy))

\* The opcode classes that each page decodes.
Page == << DOMAIN Taken \cup {"NOP"}, DOMAIN Registers, DOMAIN Page2 >>
===============================================================================
