--------------------------------- MODULE T80 ---------------------------------
(***************************************************************************)
(* The T80 processor core (T80.vhd, Mode = 0, IOWait = 1, CEN = '1'): the   *)
(* machine-cycle sequencer, the interrupt and bus arbitration flip-flops,   *)
(* and the part of the data path that decides what is fetched next.         *)
(*                                                                          *)
(* A step is one rising edge of CLK_n (or a reset).  The variables are the  *)
(* registers of the two clocked processes, under their names in the source. *)
(* Signals that are active low keep the suffix _n; a Boolean is TRUE for    *)
(* '1'.  The data are abstract: an opcode is its class in the microcode,    *)
(* the flags are the one bit cc ("the branch is taken", "the block          *)
(* instruction repeats"), PC counts modulo PCSpan, jumps go to JumpTargets, *)
(* and A and DO are either derived from PC or NotPC.                        *)
(***************************************************************************)
EXTENDS Naturals

CONSTANTS
  PCSpan,        \* PC ranges over 0 .. PCSpan - 1 (2^16 in the core)
  JumpTargets,   \* where the operands of jumps, calls and returns lead
  NMIVector,     \* where NMI is handled (0066 in the core)
  IM1Vector,     \* where an IM 1 interrupt is handled (0038 in the core)
  Opcodes,       \* Opcodes[iset]: opcode classes in memory, by page
  FlagTested,    \* the classes whose sequence depends on the flags
  IntAckOps,     \* what a device puts on the bus to answer INT in IM 0
  MayRequestBus, \* whether anything ever pulls BUSRQ_n
  MayNMI,        \* whether anything ever pulls NMI_n
  MayReset,      \* whether RESET_n can be pulled after power-up
  \* The microcode ROM (T80MCode): the outputs of a machine cycle, the number of
  \* cycles, the prefix.
  ROMCycle(_, _, _, _, _, _, _), ROMCount(_, _, _, _, _, _, _), ROMPrefix(_, _)

PCs == 0 .. PCSpan - 1
NotPC == PCSpan
AllOpcodes == Opcodes[0] \cup Opcodes[1] \cup Opcodes[2] \cup {"NOP", "RST"} \cup IntAckOps

\* The pages in which IR can hold an opcode: its own, the first one for what an
\* interrupt puts there, and the CB page for the CB byte of a DD CB opcode.
Decodes(ir, iset) ==
  \/ ir \in Opcodes[iset]
  \/ iset = 0 /\ ir \in IntAckOps \cup {"NOP", "RST"}
  \/ iset = 1 /\ ir = "CB" /\ "CB" \in Opcodes[0]

\* What the core relies on in its microcode ROM: the length of the machine cycles, ...
Timed(ir, iset, mc, c, n, i, x) ==
  LET ts == ROMCycle(ir, iset, mc, c, n, i, x).TStates
  IN /\ ts \in 3..6
     /\ mc = 1 => ts >= 4
     /\ mc = 6 => ts = 3
     /\ mc = 7 => ts = 5
     /\ ROMCount(ir, iset, mc, c, n, i, x) \in 1..5

\* ... that EI is an unprefixed opcode of one machine cycle, not an answer to INT, that DI
\* acts in the first cycle and that HALT is not a prefix, ...
Enables(ir, iset, mc, c, n, i, x) ==
  LET out == ROMCycle(ir, iset, mc, c, n, i, x).out
  IN /\ "SetEI" \in out =>
          /\ iset = 0 /\ mc = 1
          /\ ir \notin IntAckOps \cup {"NOP", "RST", "CB", "LDHLn"}
          /\ ROMCount(ir, iset, mc, c, n, i, x) = 1
          /\ "aXY" \notin out
          /\ \A c2, n2, i2, x2 \in BOOLEAN :
               "SetEI" \in ROMCycle(ir, iset, 1, c2, n2, i2, x2).out
     /\ "SetDI" \in out => mc = 1
     /\ "Halt" \in out => ROMPrefix(ir, iset) = 0

CycleAssumption ==
  \A ir \in AllOpcodes, iset \in 0..2, mc \in 1..7, c, n, i, x \in BOOLEAN :
    Decodes(ir, iset) =>
      /\ Timed(ir, iset, mc, c, n, i, x)
      /\ Enables(ir, iset, mc, c, n, i, x)

\* ... that a prefix is an opcode of the first page, and no answer to INT, ...
PrefixAssumption ==
  \A ir \in AllOpcodes, iset \in 0..2 :
    Decodes(ir, iset) =>
      /\ ROMPrefix(ir, iset) \in 0..3
      /\ ROMPrefix(ir, iset) # 0 => iset = 0 /\ ir \notin IntAckOps \cup {"NOP", "RST"}
      /\ ROMPrefix(ir, iset) = 1 <=> ir = "CB" /\ iset = 0

\* ... and that the number of machine cycles does not fall below one that has begun: not
\* from a cycle to the next, nor where a displacement is fetched in between.
Counted(ir, iset, mc, c, n, i, x) ==
  LET count(m) == ROMCount(ir, iset, m, c, n, i, x)
  IN /\ count(mc) > mc => count(mc + 1) > mc
     /\ mc <= 5 /\ "aXY" \in ROMCycle(ir, iset, mc, c, n, i, x).out => count(mc + 1) > mc
     /\ ROMPrefix(ir, iset) # 0 => count(mc) = 1

DisplacedCount(ir, iset, c, n, i, x) ==
  /\ ir = "LDHLn" /\ iset = 0 => ROMCount(ir, iset, 3, c, n, i, x) > 2
  /\ iset = 1 /\ x => ROMCount(ir, iset, 2, c, n, i, x) > 1

CountAssumption ==
  \A ir \in AllOpcodes, iset \in 0..2, c, n, i, x \in BOOLEAN :
    Decodes(ir, iset) =>
      /\ \A mc \in 1..6 : Counted(ir, iset, mc, c, n, i, x)
      /\ DisplacedCount(ir, iset, c, n, i, x)

\* ... and that A is at PC when a byte that PC will be moved past is read: the machine cycle
\* before it leaves A there, and so does the last one of an instruction, by whatever
\* condition it is the last.
EndsRounds(out, c) == "I_BT" \in out /\ ("One" \in out \/ ~c)
LeavesPC(out, c) ==
  /\ "aXY" \notin out /\ "aReg" \notin out
  /\ "I_BTR" \in out => "One" \in out \/ EndsRounds(out, c)
  /\ "No_PC" \in out => EndsRounds(out, c) \/ ("I_DJNZ" \in out /\ ~c)
TakesOperand(out) == "Inc_PC" \in out /\ "NoRead" \notin out

Addressed(ir, iset, c, n, i, x) ==
  LET out(mc) == ROMCycle(ir, iset, mc, c, n, i, x).out
  IN /\ \A mc \in 1..6 :
          /\ "aXY" \in out(mc) => "aReg" \notin out(mc) /\ "I_BTR" \notin out(mc)
          /\ ~LeavesPC(out(mc), c) =>
               /\ ROMCount(ir, iset, mc, c, n, i, x) # mc
               /\ ~EndsRounds(out(mc), c) /\ ~("I_DJNZ" \in out(mc) /\ mc = 2 /\ ~c)
               /\ ~TakesOperand(out(mc + 1))
     /\ x /\ iset = 0 /\ ir \in {"CB", "LDHLn"} => LeavesPC(out(1), c)
     /\ x /\ iset = 0 /\ ir = "LDHLn" => ~TakesOperand(out(3))
     /\ x /\ iset = 1 => ~TakesOperand(out(2))
     /\ \A mc \in 2..7 : "IORQ" \in out(mc) => mc < 6 /\ ~TakesOperand(out(mc))

AddressAssumption ==
  \A ir \in AllOpcodes, iset \in 0..2, c, n, i, x \in BOOLEAN :
    Decodes(ir, iset) => Addressed(ir, iset, c, n, i, x)

MicrocodeAssumption ==
  CycleAssumption /\ PrefixAssumption /\ CountAssumption /\ AddressAssumption

ConstantsAssumption ==
  /\ PCSpan \in Nat \ {0}
  /\ JumpTargets \subseteq PCs
  /\ NMIVector \in PCs /\ IM1Vector \in PCs
  /\ \A iset \in 0..2 : "RST" \notin Opcodes[iset] \/ iset = 0
  /\ MayRequestBus \in BOOLEAN /\ MayNMI \in BOOLEAN /\ MayReset \in BOOLEAN

ASSUME CoreAssumption == ConstantsAssumption /\ MicrocodeAssumption
-------------------------------------------------------------------------------
VARIABLES
  MCycle, TState, Pre_XY_F_M, MCycles,   \* the machine cycle and its T state
  IR, ISet, XY_State, XY_Ind, cc,        \* the instruction
  No_BTR, BTR_r,                         \* repetition of block instructions
  PC, A, DO, IStatus,
  IntE_FF1, IntE_FF2, Halt_FF,
  NMICycle, IntCycle,                    \* this is the response to NMI, to INT
  NMI_s, OldNMI_n, INT_n_i,
  BusReq_s, BusAck,
  Auto_Wait_t1, Auto_Wait_t2, M1_n

sequencer == << MCycle, TState, Pre_XY_F_M, NMICycle, IntCycle >>
decoded   == << MCycles, IR, ISet, XY_State, XY_Ind, cc >>
datapath  == << decoded, BTR_r, PC, A, DO, IStatus >>
waits     == << No_BTR, Auto_Wait_t1, Auto_Wait_t2 >>
irqs      == << IntE_FF1, IntE_FF2, Halt_FF, NMI_s, OldNMI_n, INT_n_i >>
vars      == << sequencer, datapath, waits, irqs, BusReq_s, BusAck, M1_n >>
-------------------------------------------------------------------------------
\* The combinational outputs of the microcode, and the signals derived from them.
now == ROMCycle(IR, ISet, MCycle, cc, NMICycle, IntCycle, XY_State)
On(output) == output \in now.out
Prefix == ROMPrefix(IR, ISet)
T_Res == TState = now.TStates
ClkEn == ~BusAck

\* Mutant: the displacement is fetched again and again.
NextIs_XY_FetchTwice == XY_State /\ On("aXY")

\* The next machine cycle fetches the displacement of an (IX+d) operand.
NextIs_XY_Fetch ==
  /\ XY_State /\ ~XY_Ind
  /\ On("aXY") \/ (MCycle = 1 /\ IR \in {"CB", "LDHLn"} /\ ISet = 0)

\* DJNZ has counted B down to zero.
DJNZExhausted == On("I_DJNZ") /\ ~cc

Held == BusReq_s /\ BusAck
Waiting(wait_n) == TState = 2 /\ ~wait_n /\ (~On("NoRead") \/ MCycle = 1)
Auto_Wait == IntCycle /\ MCycle = 1
AutoWaiting == \/ Auto_Wait /\ ~Auto_Wait_t2
               \/ On("IORQ") /\ ~Auto_Wait_t1

\* The machine cycle ends on this clock, and with it the instruction.
CycleEnds == ~Held /\ T_Res /\ ~BusReq_s
Completes ==
  /\ CycleEnds /\ ~NextIs_XY_Fetch /\ MCycle # 7
  /\ MCycle = MCycles \/ No_BTR \/ (MCycle = 2 /\ DJNZExhausted)

AcceptsNMI == Completes /\ Prefix = 0 /\ NMI_s
\* Mutant: no instruction between EI and the interrupt.
AcceptsINTAtOnce ==
  /\ Completes /\ Prefix = 0 /\ ~NMI_s
  /\ IntE_FF1 /\ ~INT_n_i /\ ~On("I_RETN")

AcceptsINT ==
  /\ Completes /\ Prefix = 0 /\ ~NMI_s
  /\ IntE_FF1 /\ ~INT_n_i
  /\ ~On("SetEI") /\ ~On("I_RETN")
-------------------------------------------------------------------------------
(***************************************************************************)
(* The main state machine, one action per branch.                           *)
(***************************************************************************)
HoldForBus ==
  /\ Held
  /\ UNCHANGED << sequencer, BusAck >>

StretchT2(wait_n) ==
  /\ ~Held /\ Waiting(wait_n)
  /\ BusAck' = FALSE
  /\ UNCHANGED sequencer

\* Mutant: the bus is granted in the middle of a machine cycle.
GrantBusAtOnce ==
  /\ ~Held /\ BusReq_s
  /\ BusAck' = TRUE
  /\ UNCHANGED sequencer

GrantBus ==
  /\ ~Held /\ T_Res /\ BusReq_s
  /\ BusAck' = TRUE
  /\ UNCHANGED sequencer

\* Common to the steps that enter another machine cycle.
EnterCycle(mc) ==
  /\ CycleEnds
  /\ BusAck' = FALSE
  /\ TState' = 1
  /\ MCycle' = mc

FetchDisplacement ==
  /\ NextIs_XY_Fetch
  /\ EnterCycle(6)
  /\ Pre_XY_F_M' = IF IR = "LDHLn" /\ ISet = 0 THEN 2 ELSE MCycle
  /\ UNCHANGED << NMICycle, IntCycle >>

ResumeAfterDisplacement ==
  /\ ~NextIs_XY_Fetch /\ MCycle = 7
  /\ EnterCycle(Pre_XY_F_M + 1)
  /\ UNCHANGED << Pre_XY_F_M, NMICycle, IntCycle >>

EndInstruction ==
  /\ Completes
  /\ EnterCycle(1)
  /\ NMICycle' = AcceptsNMI
  /\ IntCycle' = AcceptsINT
  /\ UNCHANGED Pre_XY_F_M

NextMachineCycle ==
  /\ ~NextIs_XY_Fetch /\ MCycle # 7 /\ ~Completes
  /\ EnterCycle(MCycle + 1)
  /\ UNCHANGED << Pre_XY_F_M, NMICycle, IntCycle >>

\* INT acknowledge and I/O cycles stay in T1 for the automatic wait states.
StretchT1(wait_n) ==
  /\ ~Held /\ ~Waiting(wait_n) /\ ~T_Res /\ AutoWaiting
  /\ BusAck' = FALSE
  /\ UNCHANGED sequencer

NextTState(wait_n) ==
  /\ ~Held /\ ~Waiting(wait_n) /\ ~T_Res /\ ~AutoWaiting
  /\ BusAck' = FALSE
  /\ TState' = TState + 1
  /\ UNCHANGED << MCycle, Pre_XY_F_M, NMICycle, IntCycle >>

Sequencer(wait_n) ==
  \/ HoldForBus \/ StretchT2(wait_n) \/ GrantBus
  \/ FetchDisplacement \/ ResumeAfterDisplacement \/ EndInstruction \/ NextMachineCycle
  \/ StretchT1(wait_n) \/ NextTState(wait_n)
-------------------------------------------------------------------------------
\* Mutant: NMI_n is sampled like INT_n and its edge is not remembered.
SampleLevel ==
  /\ BusReq_s' \in {FALSE, MayRequestBus}
  /\ INT_n_i' \in BOOLEAN
  /\ OldNMI_n' \in {TRUE, ~MayNMI}
  /\ NMI_s' = (~AcceptsNMI /\ ~OldNMI_n')

\* The flip-flops that sample BUSRQ_n, INT_n and the falling edge of NMI_n.
Sample ==
  /\ OldNMI_n' \in {TRUE, ~MayNMI}
  /\ NMI_s' = (~AcceptsNMI /\ (NMI_s \/ (OldNMI_n /\ ~OldNMI_n')))
  /\ INT_n_i' \in BOOLEAN
  /\ BusReq_s' \in {FALSE, MayRequestBus}

\* Mutant: EI enables interrupts although an NMI was accepted at its end.
InterruptEnablesInNMI ==
  /\ IntE_FF1' = IF AcceptsNMI \/ AcceptsINT \/ (TState = 3 /\ On("SetDI")) THEN FALSE
                 ELSE IF TState = 2 /\ On("I_RETN") THEN IntE_FF2
                 ELSE IntE_FF1 \/ (TState = 2 /\ On("SetEI"))
  /\ IntE_FF2' = IF AcceptsINT \/ (TState = 3 /\ On("SetDI")) THEN FALSE
                 ELSE IntE_FF2 \/ (TState = 2 /\ On("SetEI"))

\* Mutant: M1_n rises while a wait state extends the fetch.
HaltAndM1NoWait(wait_n) ==
  /\ Halt_FF' = \/ ~Held /\ T_Res /\ On("Halt")
                \/ Halt_FF /\ ~IntCycle /\ ~NMICycle
  /\ M1_n' = (TState # 0 /\ ~Completes /\ (M1_n \/ (MCycle = 1 /\ TState = 2)))

\* Mutant: the automatic wait states of an INT acknowledge are never counted.
WaitStatesForIO ==
  /\ Auto_Wait_t1' = (~T_Res /\ On("IORQ"))
  /\ Auto_Wait_t2' = (~T_Res /\ Auto_Wait_t1)
  /\ No_BTR' = (On("I_BT") /\ (On("One") \/ ~cc))

\* The other flip-flops of the state machine.  Where the source assigns one twice, the
\* later assignment comes first here.

InterruptEnables ==
  /\ IntE_FF1' = IF AcceptsNMI \/ AcceptsINT \/ (TState = 3 /\ On("SetDI")) THEN FALSE
                 ELSE IF TState = 2 /\ On("I_RETN") THEN IntE_FF2 /\ ~NMICycle
                 ELSE IF TState = 2 /\ On("SetEI") THEN ~NMICycle
                 ELSE IntE_FF1
  /\ IntE_FF2' = IF AcceptsINT \/ (TState = 3 /\ On("SetDI")) THEN FALSE
                 ELSE IntE_FF2 \/ (TState = 2 /\ On("SetEI"))

HaltAndM1(wait_n) ==
  /\ Halt_FF' = \/ ~Held /\ T_Res /\ On("Halt")
                \/ Halt_FF /\ ~IntCycle /\ ~NMICycle
  /\ M1_n' = (/\ TState # 0 /\ ~Completes
              /\ M1_n \/ (MCycle = 1 /\ TState = 2 /\ wait_n))

WaitStates ==
  /\ Auto_Wait_t1' = (~T_Res /\ (Auto_Wait \/ On("IORQ")))
  /\ Auto_Wait_t2' = (~T_Res /\ Auto_Wait_t1)
  /\ No_BTR' = (On("I_BT") /\ (On("One") \/ ~cc))
-------------------------------------------------------------------------------
(***************************************************************************)
(* The data path, frozen while the bus is granted.                          *)
(***************************************************************************)
Mod(n) == n % PCSpan

\* The opcode that T2 of an M1 cycle puts in IR.
OpcodeRead ==
  IF IntCycle /\ IStatus = 1 THEN {"RST"}
  ELSE IF Halt_FF \/ (IntCycle /\ IStatus = 2) \/ NMICycle THEN {"NOP"}
  ELSE IF IntCycle THEN IntAckOps
  ELSE Opcodes[IF Prefix = 3 THEN 0 ELSE Prefix]

FetchOpcode ==
  /\ PC' = IF NMICycle \/ IntCycle \/ Halt_FF \/ On("Halt") THEN PC ELSE Mod(PC + 1)
  /\ A' = NotPC                             \* the refresh address
  /\ IR' \in OpcodeRead
  /\ cc' \in IF IR' \in FlagTested THEN BOOLEAN ELSE {FALSE}
  /\ ISet' = IF Prefix = 3 THEN 0 ELSE Prefix
  /\ XY_State' = IF Prefix = 1 THEN XY_State ELSE Prefix = 3
  /\ XY_Ind' = (XY_Ind /\ Prefix \in {1, 3})

\* Where T_Res takes PC; A follows PC when it does.
LoadsPC ==
  \/ On("Jump") \/ On("JumpXY") \/ On("Call") \/ On("RstP")
  \/ MCycle = MCycles /\ NMICycle
  \/ MCycle = 3 /\ IntCycle /\ IStatus = 2

JumpTo == CASE On("Jump") \/ On("JumpXY") \/ On("Call")    -> JumpTargets
            [] On("RstP") /\ IntCycle /\ IStatus = 1       -> {IM1Vector}
            [] On("RstP") /\ ~(IntCycle /\ IStatus = 1)    -> JumpTargets
            [] MCycle = MCycles /\ NMICycle /\ ~On("RstP") -> {NMIVector}
            [] OTHER                                       -> JumpTargets

\* Mutant: the address is not restored after the last round of a block instruction.
NextAddressKept ==
  CASE On("aXY") -> IF NextIs_XY_Fetch THEN PC ELSE NotPC
    [] On("aReg") -> NotPC
    [] On("I_BTR") /\ ~On("One") /\ ~No_BTR -> NotPC
    [] OTHER -> IF ~On("No_PC") THEN PC ELSE A

\* The address for the next machine cycle when it is not a jump (Set_Addr_To).
NextAddress ==
  CASE On("aXY") -> IF NextIs_XY_Fetch THEN PC ELSE NotPC
    [] On("aReg") -> NotPC
    [] On("I_BTR") /\ ~On("One") /\ ~No_BTR -> NotPC
    [] OTHER -> IF ~On("No_PC") \/ No_BTR \/ DJNZExhausted THEN PC ELSE A

EndOfCycle ==
  /\ BTR_r' = (On("I_BT") /\ ~No_BTR)
  /\ IF LoadsPC THEN PC' \in JumpTo /\ A' = PC'
              ELSE PC' = PC /\ A' = NextAddress
  /\ DO' = IF On("PCH") THEN << "high", PC >>
           ELSE IF On("PCL") THEN << "low", PC >> ELSE << "other", NotPC >>

\* T2 of the other machine cycles, once the byte is there.
MidCycle ==
  /\ PC' \in IF BTR_r THEN {Mod(PC + 2 * PCSpan - 2)}
             ELSE IF On("JumpE") THEN JumpTargets
             ELSE IF On("Inc_PC") THEN {Mod(PC + 1)} ELSE {PC}
  /\ IF ISet = 1 /\ MCycle = 7 THEN IR' \in Opcodes[1] ELSE IR' = IR
  /\ UNCHANGED << A, DO, BTR_r >>

\* The displacement cycle of a DD CB instruction switches to the CB page.
IndexPage ==
  /\ XY_Ind' = (XY_Ind \/ MCycle = 6)
  /\ ISet' = IF MCycle = 6 /\ Prefix = 1 THEN 1 ELSE ISet
  /\ UNCHANGED << XY_State, cc >>

DataPath(wait_n) ==
  IF ~ClkEn THEN UNCHANGED datapath
  ELSE /\ MCycles' = ROMCount(IR, ISet, MCycle, cc, NMICycle, IntCycle, XY_State)
       /\ IStatus' = CASE On("IM0") -> 0 [] On("IM1") -> 1 [] On("IM2") -> 2
                       [] OTHER -> IStatus
       /\ IF MCycle = 1 /\ TState < 4
          THEN /\ IF TState = 2 /\ wait_n
                  THEN FetchOpcode
                  ELSE UNCHANGED << PC, A, IR, cc, ISet, XY_State, XY_Ind >>
               /\ UNCHANGED << DO, BTR_r >>
          ELSE /\ IndexPage
               /\ \/ T_Res /\ EndOfCycle /\ IR' = IR
                  \/ TState = 2 /\ (wait_n \/ On("NoRead")) /\ ~T_Res /\ MidCycle
                  \/ /\ ~T_Res /\ ~(TState = 2 /\ (wait_n \/ On("NoRead")))
                     /\ UNCHANGED << PC, A, DO, IR, BTR_r >>
-------------------------------------------------------------------------------
\* BusReq_s, BusAck, OldNMI_n and INT_n_i have no reset: at power-up they hold anything.
Init ==
  /\ MCycle = 1 /\ TState = 0 /\ Pre_XY_F_M = 0 /\ MCycles = 0
  /\ IR = "NOP" /\ ISet = 0 /\ XY_State = FALSE /\ XY_Ind = FALSE /\ cc = FALSE
  /\ No_BTR = FALSE /\ BTR_r = FALSE
  /\ PC = 0 /\ A = 0 /\ DO = << "other", NotPC >> /\ IStatus = 0
  /\ IntE_FF1 = FALSE /\ IntE_FF2 = FALSE /\ Halt_FF = FALSE
  /\ NMICycle = FALSE /\ IntCycle = FALSE /\ NMI_s = FALSE
  /\ Auto_Wait_t1 = FALSE /\ Auto_Wait_t2 = FALSE /\ M1_n = TRUE
  /\ BusReq_s \in {FALSE, MayRequestBus} /\ BusAck \in {FALSE, MayRequestBus}
  /\ OldNMI_n \in {TRUE, ~MayNMI} /\ INT_n_i \in BOOLEAN

\* Mutant: a reset does not wake the processor from HALT.
ResetHalted ==
  /\ MayReset
  /\ MCycle' = 1 /\ TState' = 0 /\ Pre_XY_F_M' = 0 /\ MCycles' = 0
  /\ IR' = "NOP" /\ ISet' = 0 /\ XY_State' = FALSE /\ XY_Ind' = FALSE /\ cc' = FALSE
  /\ No_BTR' = FALSE /\ BTR_r' = FALSE
  /\ PC' = 0 /\ A' = 0 /\ DO' = << "other", NotPC >> /\ IStatus' = 0
  /\ IntE_FF1' = FALSE /\ IntE_FF2' = FALSE /\ Halt_FF' = Halt_FF
  /\ NMICycle' = FALSE /\ IntCycle' = FALSE /\ NMI_s' = FALSE
  /\ Auto_Wait_t1' = FALSE /\ Auto_Wait_t2' = FALSE /\ M1_n' = TRUE
  /\ INT_n_i' \in BOOLEAN
  /\ UNCHANGED << BusReq_s, BusAck, OldNMI_n >>

Reset ==
  /\ MayReset
  /\ MCycle' = 1 /\ TState' = 0 /\ Pre_XY_F_M' = 0 /\ MCycles' = 0
  /\ IR' = "NOP" /\ ISet' = 0 /\ XY_State' = FALSE /\ XY_Ind' = FALSE /\ cc' = FALSE
  /\ No_BTR' = FALSE /\ BTR_r' = FALSE
  /\ PC' = 0 /\ A' = 0 /\ DO' = << "other", NotPC >> /\ IStatus' = 0
  /\ IntE_FF1' = FALSE /\ IntE_FF2' = FALSE /\ Halt_FF' = FALSE
  /\ NMICycle' = FALSE /\ IntCycle' = FALSE /\ NMI_s' = FALSE
  /\ Auto_Wait_t1' = FALSE /\ Auto_Wait_t2' = FALSE /\ M1_n' = TRUE
  /\ INT_n_i' \in BOOLEAN                     \* sampled on every clock, reset or not
  /\ UNCHANGED << BusReq_s, BusAck, OldNMI_n >>

\* What a clock makes of the state, and of the inputs as they were sampled before it.
Step(wait_n) ==
  /\ Sequencer(wait_n)
  /\ InterruptEnables
  /\ HaltAndM1(wait_n)
  /\ WaitStates
  /\ DataPath(wait_n)

Clock(wait_n) == Step(wait_n) /\ Sample

\* WAIT_n is read in T2 only.
WaitInputs == IF TState = 2 THEN BOOLEAN ELSE {TRUE}

Next == \/ \E wait_n \in WaitInputs : Clock(wait_n)
        \/ Reset

Spec == Init /\ [][Next]_vars

\* The devices let go of the bus and of WAIT_n again and again, and at last of RESET_n:
\* nothing in the core ends a wait state, a bus grant or a reset on its own.
FairSpec ==
  /\ Spec
  /\ WF_vars(Clock(TRUE) /\ ~BusReq_s')
  /\ <>[][\E wait_n \in WaitInputs : Clock(wait_n)]_vars
-------------------------------------------------------------------------------
(***************************************************************************)
(* Properties                                                               *)
(***************************************************************************)
Bytes == {"high", "low", "other"} \X (0 .. PCSpan)

\* Every register keeps to its width, and IR to the opcodes of the page it is decoded in.
TypeOK ==
  /\ MCycle \in 1..7 /\ TState \in 0..6 /\ Pre_XY_F_M \in 0..5 /\ MCycles \in 0..5
  /\ IR \in AllOpcodes /\ ISet \in 0..2 /\ Decodes(IR, ISet)
  /\ PC \in PCs /\ A \in 0..PCSpan /\ DO \in Bytes /\ IStatus \in 0..2
  /\ XY_State \in BOOLEAN /\ XY_Ind \in BOOLEAN /\ cc \in BOOLEAN
  /\ No_BTR \in BOOLEAN /\ BTR_r \in BOOLEAN
  /\ IntE_FF1 \in BOOLEAN /\ IntE_FF2 \in BOOLEAN /\ Halt_FF \in BOOLEAN
  /\ NMICycle \in BOOLEAN /\ IntCycle \in BOOLEAN
  /\ NMI_s \in BOOLEAN /\ OldNMI_n \in BOOLEAN /\ INT_n_i \in BOOLEAN
  /\ BusReq_s \in BOOLEAN /\ BusAck \in BOOLEAN
  /\ Auto_Wait_t1 \in BOOLEAN /\ Auto_Wait_t2 \in BOOLEAN /\ M1_n \in BOOLEAN

\* While the core responds to an interrupt no maskable interrupt can be accepted, even when
\* the response interrupts EI or RETN (T80.vhd:1346-1352, 1398-1405); and IFF1 is never set without
\* the IFF2 that RETN restores it from.
InterruptsShutOut ==
  /\ ~(IntCycle /\ NMICycle)
  /\ IntCycle => ~IntE_FF1 /\ ~IntE_FF2
  /\ NMICycle => ~IntE_FF1
  /\ IntE_FF1 => IntE_FF2

\* Opcodes and operands are read at PC: the address register, loaded a cycle ahead, agrees
\* with PC whenever a byte that PC will be moved past is on the bus (T80.vhd:623-711).
ReadsAtPC ==
  /\ MCycle = 1 /\ TState \in 1..2 => A = PC
  /\ MCycle # 1 /\ TState \in 1..2 /\ On("Inc_PC") /\ ~On("NoRead") => A = PC

\* M1_n marks the two T states of an opcode fetch and nothing else, after wait states,
\* bus grants and reset alike (T80.vhd:1363-1365, 1394, 1420-1422).
M1MarksFetch == TState # 0 => (~M1_n <=> MCycle = 1 /\ TState \in 1..2)

\* The bus is given away in the last T state of a machine cycle only (or, after a reset,
\* before the first), and nothing of the core moves until it is back
\* (T80.vhd:1366-1376, 420).
GrantFreezes ==
  [][ BusAck /\ TState' # 0 =>
        /\ T_Res \/ TState = 0
        /\ UNCHANGED datapath
        /\ BusAck' => UNCHANGED << sequencer, IntE_FF1, IntE_FF2 >> ]_vars

\* A falling edge of NMI_n is answered, whatever instruction, HALT, wait or grant it falls
\* into, unless the core is reset first (TState = 0) or prefixes go on for ever
\* (T80.vhd:1328-1331, 1398-1401).
NMIServed == NMI_s ~> NMICycle \/ TState = 0

\* The core always comes back to fetch an opcode: no combination of HALT, wait states,
\* automatic wait states and grants locks it up.
ResumesFetching == []<>(MCycle = 1 /\ TState = 3)
===============================================================================
