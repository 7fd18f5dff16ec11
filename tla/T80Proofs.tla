------------------------------ MODULE T80Proofs ------------------------------
(***************************************************************************)
(* Theorems about the core, for every PC width, opcode set and microcode    *)
(* ROM that meet CoreAssumption.  First the interrupts and the bus grants;  *)
(* then the fetches: M1_n marks them, and opcodes and operands are read at  *)
(* PC.  On the way to these, no instruction runs past its last machine      *)
(* cycle, and a displacement comes back into the instruction it was fetched *)
(* for.  At last, for every ROM that meets ProgramAssumption too, T80       *)
(* implements Z80: each step of T80Arch is a step of Z80, or leaves the     *)
(* program where it was.                                                    *)
(***************************************************************************)
EXTENDS T80Arch, TLAPS

\* IR holds EI: what it raises in its first machine cycle does not depend on the rest.
IsEI == "SetEI" \in ROMCycle(IR, ISet, 1, cc, NMICycle, IntCycle, XY_State).out

\* A machine cycle does not run past its last T state.
TBound == TState <= now.TStates

\* The bus is granted at the end of a machine cycle only, or right after a reset.
GrantedAtEnd == BusAck => T_Res \/ TState = 0

\* Once the opcode is decoded, MCycles is the number of its machine cycles.
CountKnown ==
  MCycle = 1 /\ TState >= 4 =>
    MCycles = ROMCount(IR, ISet, MCycle, cc, NMICycle, IntCycle, XY_State)

\* EI has one machine cycle.
EIIsShort == MCycle # 1 => ~IsEI

\* Neither an interrupt nor HALT comes between a prefix and its opcode.
NoPrefixPending == IntCycle \/ NMICycle \/ Halt_FF => Prefix = 0

\* Cycle 6 marks the displacement as fetched.
DisplacementMarked ==
  /\ MCycle = 7 => XY_Ind
  /\ MCycle = 6 /\ TState >= 2 => XY_Ind

\* An interrupt does not answer EI.
NoResponseToEI == IntCycle => ~IsEI

Inv == /\ TypeOK /\ TBound /\ GrantedAtEnd /\ CountKnown /\ EIIsShort
       /\ NoPrefixPending /\ DisplacementMarked /\ NoResponseToEI
       /\ InterruptsShutOut
-------------------------------------------------------------------------------
LEMMA ArgumentTypes ==
  ASSUME TypeOK
  PROVE  /\ IR \in AllOpcodes /\ ISet \in 0..2 /\ MCycle \in 1..7 /\ Decodes(IR, ISet)
         /\ cc \in BOOLEAN /\ NMICycle \in BOOLEAN /\ IntCycle \in BOOLEAN
         /\ XY_State \in BOOLEAN
  BY DEF TypeOK

\* The facts of the microcode about the machine cycle that the core is in.
LEMMA Instance ==
  ASSUME NEW ir \in AllOpcodes, NEW iset \in 0..2, Decodes(ir, iset), NEW mc \in 1..7,
         NEW c \in BOOLEAN, NEW n \in BOOLEAN, NEW i \in BOOLEAN, NEW x \in BOOLEAN
  PROVE  Timed(ir, iset, mc, c, n, i, x) /\ Enables(ir, iset, mc, c, n, i, x)
<1>1. CycleAssumption
  BY CoreAssumption DEF MicrocodeAssumption
<1>2. \A m \in 1..7, c2, n2, i2, x2 \in BOOLEAN :
        /\ Timed(ir, iset, m, c2, n2, i2, x2)
        /\ Enables(ir, iset, m, c2, n2, i2, x2)
  BY <1>1, SMTT(20) DEF CycleAssumption
<1> QED
  BY <1>2

LEMMA Timing ==
  ASSUME TypeOK
  PROVE  /\ now.TStates \in 3..6
         /\ MCycle = 1 => now.TStates >= 4
         /\ MCycle = 6 => now.TStates = 3
         /\ MCycle = 7 => now.TStates = 5
         /\ ROMCount(IR, ISet, MCycle, cc, NMICycle, IntCycle, XY_State) \in 1..5
<1>1. Timed(IR, ISet, MCycle, cc, NMICycle, IntCycle, XY_State)
  BY ArgumentTypes, Instance
<1> QED
  BY <1>1 DEF Timed, now

LEMMA Prefixing ==
  ASSUME TypeOK
  PROVE  /\ Prefix \in 0..3
         /\ Prefix # 0 => ISet = 0 /\ IR \notin IntAckOps \cup {"NOP", "RST"}
         /\ Prefix = 1 => IR = "CB"
         /\ On("Halt") => Prefix = 0
<1>1. PrefixAssumption
  BY CoreAssumption DEF MicrocodeAssumption
<1>2. Enables(IR, ISet, MCycle, cc, NMICycle, IntCycle, XY_State)
  BY ArgumentTypes, Instance
<1> QED
  BY <1>1, <1>2, ArgumentTypes DEF PrefixAssumption, Enables, Prefix, On, now

LEMMA Enabling ==
  ASSUME TypeOK
  PROVE  /\ On("SetEI") => IsEI /\ MCycle = 1
         /\ On("SetDI") => MCycle = 1
         /\ MCycle = 1 /\ IsEI => On("SetEI")
         /\ IsEI => ISet = 0 /\ IR \notin IntAckOps \cup {"NOP", "RST", "CB", "LDHLn"}
         /\ MCycle = 1 /\ IsEI =>
              /\ ~On("aXY")
              /\ ROMCount(IR, ISet, MCycle, cc, NMICycle, IntCycle, XY_State) = 1
<1>1. /\ Enables(IR, ISet, MCycle, cc, NMICycle, IntCycle, XY_State)
      /\ Enables(IR, ISet, 1, cc, NMICycle, IntCycle, XY_State)
  BY ArgumentTypes, Instance
<1> QED
  BY <1>1, ArgumentTypes DEF Enables, IsEI, On, now
-------------------------------------------------------------------------------
(***************************************************************************)
(* What a clock does to the sequencer: nothing, one more T state, or the    *)
(* first T state of another machine cycle.                                  *)
(***************************************************************************)
Stays == UNCHANGED << MCycle, TState, Pre_XY_F_M, NMICycle, IntCycle >>

Advances ==
  /\ ~T_Res /\ ~Held
  /\ BusAck' = FALSE
  /\ TState' = TState + 1
  /\ UNCHANGED << MCycle, Pre_XY_F_M, NMICycle, IntCycle >>

Enters ==
  /\ CycleEnds
  /\ BusAck' = FALSE
  /\ TState' = 1

LEMMA SequencerStep ==
  ASSUME NEW wait_n, Sequencer(wait_n)
  PROVE  \/ Stays /\ (BusAck' => T_Res \/ Held)
         \/ Advances
         \/ Enters /\ ( FetchDisplacement \/ ResumeAfterDisplacement
                        \/ EndInstruction \/ NextMachineCycle )
  BY DEF Sequencer, Stays, Advances, Enters, HoldForBus, StretchT2, GrantBus,
         FetchDisplacement, ResumeAfterDisplacement, EndInstruction, NextMachineCycle,
         StretchT1, NextTState, EnterCycle, sequencer, Held

\* What a clock does to the decoded opcode.
Fetches == MCycle = 1 /\ TState = 2 /\ ~T_Res /\ FetchOpcode
ReadsLast == MCycle = 7 /\ ISet = 1 /\ IR' \in Opcodes[1] /\ ISet' = 1
             /\ UNCHANGED << XY_State, cc >>
SwitchesPage == MCycle = 6 /\ Prefix = 1 /\ ISet' = 1
                /\ UNCHANGED << IR, XY_State, cc >>
KeepsOpcode == UNCHANGED << IR, ISet, XY_State, cc >>

LEMMA DecodeStep ==
  ASSUME TypeOK, NEW wait_n, DataPath(wait_n)
  PROVE  Fetches \/ ReadsLast \/ SwitchesPage \/ KeepsOpcode
<1>1. CASE ~ClkEn
  BY <1>1 DEF DataPath, datapath, decoded, KeepsOpcode
<1>2. CASE ClkEn /\ MCycle = 1 /\ TState < 4
  <2>1. TState = 2 => ~T_Res
    BY <1>2, Timing DEF T_Res, TypeOK
  <2> QED
    BY <1>2, <2>1 DEF DataPath, Fetches, KeepsOpcode
<1>3. CASE ClkEn /\ ~(MCycle = 1 /\ TState < 4)
  <2>1. IndexPage /\ ((EndOfCycle /\ IR' = IR) \/ MidCycle \/ IR' = IR)
    BY <1>3 DEF DataPath
  <2> QED
    BY <2>1, Timing DEF IndexPage, MidCycle, ReadsLast, SwitchesPage, KeepsOpcode, TypeOK
<1> QED
  BY <1>1, <1>2, <1>3
-------------------------------------------------------------------------------
(***************************************************************************)
(* TypeOK is preserved.                                                     *)
(***************************************************************************)
LEMMA SequencerTypes ==
  ASSUME Inv, NEW wait_n, Sequencer(wait_n)
  PROVE  /\ MCycle' \in 1..7 /\ TState' \in 0..6 /\ Pre_XY_F_M' \in 0..5
         /\ NMICycle' \in BOOLEAN /\ IntCycle' \in BOOLEAN /\ BusAck' \in BOOLEAN
<1> USE DEF Inv
<1>1. BusAck' \in BOOLEAN
  BY DEF Sequencer, HoldForBus, StretchT2, GrantBus, FetchDisplacement,
         ResumeAfterDisplacement, EndInstruction, NextMachineCycle, EnterCycle,
         StretchT1, NextTState, TypeOK
<1>2. CASE Stays
  BY <1>1, <1>2 DEF Stays, TypeOK
<1>3. CASE Advances
  <2>1. TState + 1 \in 0..6
    BY <1>3, Timing DEF Advances, T_Res, TBound, TypeOK
  <2> QED
    BY <1>1, <1>3, <2>1 DEF Advances, TypeOK
<1>4. CASE FetchDisplacement
  <2>1. MCycle # 7 /\ (MCycle = 6 => TState < 2)
    BY <1>4 DEF FetchDisplacement, NextIs_XY_Fetch, DisplacementMarked, TypeOK
  <2>2. MCycle \in 0..5
    BY <1>4, <2>1, Timing DEF FetchDisplacement, EnterCycle, CycleEnds, T_Res, TypeOK
  <2> QED
    BY <1>1, <1>4, <2>2 DEF FetchDisplacement, EnterCycle, TypeOK
<1>5. CASE ResumeAfterDisplacement
  BY <1>1, <1>5 DEF ResumeAfterDisplacement, EnterCycle, TypeOK
<1>6. CASE EndInstruction
  BY <1>1, <1>6 DEF EndInstruction, EnterCycle, AcceptsNMI, AcceptsINT, TypeOK
<1>7. CASE NextMachineCycle
  BY <1>1, <1>7 DEF NextMachineCycle, EnterCycle, TypeOK
<1> QED
  BY <1>2, <1>3, <1>4, <1>5, <1>6, <1>7, SequencerStep

LEMMA OpcodeTypes ==
  ASSUME Inv, NEW wait_n, DataPath(wait_n)
  PROVE  /\ IR' \in AllOpcodes /\ ISet' \in 0..2 /\ Decodes(IR', ISet')
         /\ cc' \in BOOLEAN /\ XY_State' \in BOOLEAN
<1> USE DEF Inv
<1>1. CASE Fetches
  <2>1. Prefix \in 0..3
    BY Prefixing
  <2>2. ISet' = (IF Prefix = 3 THEN 0 ELSE Prefix) /\ ISet' \in 0..2
    BY <1>1, <2>1 DEF Fetches, FetchOpcode
  <2>3. IntCycle \/ NMICycle \/ Halt_FF => ISet' = 0
    BY <2>2 DEF NoPrefixPending
  <2>4. IR' \in OpcodeRead
    BY <1>1 DEF Fetches, FetchOpcode
  <2>5. IR' \in AllOpcodes /\ Decodes(IR', ISet')
    BY <2>2, <2>3, <2>4 DEF OpcodeRead, AllOpcodes, Decodes
  <2>6. cc' \in BOOLEAN /\ XY_State' \in BOOLEAN
    BY <1>1, <2>1 DEF Fetches, FetchOpcode, TypeOK
  <2> QED
    BY <2>2, <2>5, <2>6
<1>2. CASE ReadsLast
  BY <1>2 DEF ReadsLast, AllOpcodes, Decodes, TypeOK
<1>3. CASE SwitchesPage
  <2>1. IR = "CB" /\ ISet = 0
    BY <1>3, Prefixing DEF SwitchesPage
  <2>2. IR \notin IntAckOps \cup {"NOP", "RST"}
    BY <1>3, Prefixing DEF SwitchesPage
  <2>3. "CB" \in Opcodes[0]
    BY <2>1, <2>2 DEF Decodes, TypeOK
  <2> QED
    BY <1>3, <2>1, <2>3 DEF SwitchesPage, Decodes, TypeOK
<1>4. CASE KeepsOpcode
  BY <1>4 DEF KeepsOpcode, TypeOK
<1> QED
  BY <1>1, <1>2, <1>3, <1>4, DecodeStep

LEMMA AddressTypes ==
  ASSUME Inv, NEW wait_n, DataPath(wait_n)
  PROVE  /\ PC' \in PCs /\ A' \in 0..PCSpan /\ DO' \in Bytes /\ IStatus' \in 0..2
         /\ BTR_r' \in BOOLEAN /\ MCycles' \in 0..5 /\ XY_Ind' \in BOOLEAN
<1> USE DEF Inv
<1>1. /\ PCSpan \in Nat \ {0} /\ JumpTargets \subseteq PCs
      /\ NMIVector \in PCs /\ IM1Vector \in PCs
  BY CoreAssumption DEF ConstantsAssumption
<1>2. \A k \in Nat : Mod(k) \in PCs
  BY <1>1 DEF Mod, PCs
<1>3. PC \in Nat /\ PC + 1 \in Nat /\ PC + 2 * PCSpan - 2 \in Nat /\ PC \in 0..PCSpan
      /\ NotPC \in 0..PCSpan /\ A \in 0..PCSpan
  BY <1>1 DEF TypeOK, PCs, NotPC
<1>4. CASE ~ClkEn
  BY <1>4 DEF DataPath, datapath, decoded, TypeOK
<1>5. CASE ClkEn
  <2>1. MCycles' \in 0..5
    BY <1>5, Timing DEF DataPath
  <2>2. IStatus' \in 0..2
    BY <1>5 DEF DataPath, TypeOK
  <2>3. CASE MCycle = 1 /\ TState < 4 /\ FetchOpcode /\ UNCHANGED << DO, BTR_r >>
    <3>1. PC' \in PCs /\ A' \in 0..PCSpan
      BY <2>3, <1>2, <1>3 DEF FetchOpcode, TypeOK
    <3>2. XY_Ind' \in BOOLEAN
      BY <2>3 DEF FetchOpcode, TypeOK
    <3> QED
      BY <2>1, <2>2, <2>3, <3>1, <3>2 DEF TypeOK
  <2>4. CASE UNCHANGED << PC, A, XY_Ind, DO, BTR_r >>
    BY <2>1, <2>2, <2>4 DEF TypeOK
  <2>5. CASE IndexPage /\ EndOfCycle
    <3>1. XY_Ind' \in BOOLEAN
      BY <2>5 DEF IndexPage, TypeOK
    <3>2. JumpTo \subseteq PCs
      BY <1>1 DEF JumpTo
    <3>3. NextAddress \in 0..PCSpan
      BY <1>3 DEF NextAddress
    <3>4. PC' \in PCs /\ A' \in 0..PCSpan
      <4>1. PCs \subseteq 0..PCSpan
        BY <1>1 DEF PCs
      <4>2. PC \in PCs
        BY DEF TypeOK
      <4>3. CASE LoadsPC
        BY <2>5, <3>2, <4>1, <4>3 DEF EndOfCycle
      <4>4. CASE ~LoadsPC
        BY <2>5, <3>3, <4>2, <4>4 DEF EndOfCycle
      <4> QED
        BY <4>3, <4>4
    <3>5. BTR_r' \in BOOLEAN
      BY <2>5 DEF EndOfCycle
    <3>6. DO' \in Bytes
      BY <2>5, <1>3 DEF EndOfCycle, Bytes
    <3> QED
      BY <2>1, <2>2, <3>1, <3>4, <3>5, <3>6
  <2>6. CASE IndexPage /\ MidCycle
    <3>1. XY_Ind' \in BOOLEAN
      BY <2>6 DEF IndexPage, TypeOK
    <3>2. PC' \in PCs
      BY <2>6, <1>1, <1>2, <1>3 DEF MidCycle, TypeOK
    <3> QED
      BY <2>1, <2>2, <2>6, <3>1, <3>2 DEF MidCycle, TypeOK
  <2>7. CASE IndexPage /\ UNCHANGED << PC, A, DO, BTR_r >>
    <3>1. XY_Ind' \in BOOLEAN
      BY <2>7 DEF IndexPage, TypeOK
    <3> QED
      BY <2>1, <2>2, <2>7, <3>1 DEF TypeOK
  <2> QED
    BY <1>5, <2>3, <2>4, <2>5, <2>6, <2>7 DEF DataPath
<1> QED
  BY <1>4, <1>5

LEMMA TypeStep ==
  ASSUME Inv, NEW wait_n \in BOOLEAN, Clock(wait_n)
  PROVE  TypeOK'
<1> USE DEF Inv, Clock, Step
<1>1. /\ IntE_FF1' \in BOOLEAN /\ IntE_FF2' \in BOOLEAN
  BY DEF InterruptEnables, TypeOK
<1>2. /\ Halt_FF' \in BOOLEAN /\ M1_n' \in BOOLEAN
  BY DEF HaltAndM1, TypeOK
<1>3. /\ Auto_Wait_t1' \in BOOLEAN /\ Auto_Wait_t2' \in BOOLEAN /\ No_BTR' \in BOOLEAN
  BY DEF WaitStates, TypeOK
<1>4. /\ NMI_s' \in BOOLEAN /\ OldNMI_n' \in BOOLEAN /\ INT_n_i' \in BOOLEAN
      /\ BusReq_s' \in BOOLEAN
  BY CoreAssumption DEF ConstantsAssumption, Sample, TypeOK
<1> QED
  BY <1>1, <1>2, <1>3, <1>4, SequencerTypes, OpcodeTypes, AddressTypes DEF TypeOK
-------------------------------------------------------------------------------
(***************************************************************************)
(* The sequencer keeps within its machine cycles.                           *)
(***************************************************************************)
\* The facts of the microcode after the step.
LEMMA InstanceAfter ==
  ASSUME TypeOK', NEW mc \in 1..7
  PROVE  /\ Timed(IR', ISet', mc, cc', NMICycle', IntCycle', XY_State')
         /\ Enables(IR', ISet', mc, cc', NMICycle', IntCycle', XY_State')
<1>1. /\ IR' \in AllOpcodes /\ ISet' \in 0..2 /\ Decodes(IR', ISet')
      /\ cc' \in BOOLEAN /\ NMICycle' \in BOOLEAN /\ IntCycle' \in BOOLEAN
      /\ XY_State' \in BOOLEAN
  BY DEF TypeOK
<1> QED
  BY <1>1, Instance

LEMMA TimingAfter ==
  ASSUME TypeOK'
  PROVE  /\ now'.TStates \in 3..6
         /\ MCycle' = 1 => now'.TStates >= 4
         /\ MCycle' = 6 => now'.TStates = 3
         /\ MCycle' = 7 => now'.TStates = 5
<1>1. MCycle' \in 1..7
  BY DEF TypeOK
<1>2. Timed(IR', ISet', MCycle', cc', NMICycle', IntCycle', XY_State')
  BY <1>1, InstanceAfter
<1> QED
  BY <1>2 DEF Timed, now

\* In the middle of a machine cycle the outputs of the microcode change only when the opcode
\* arrives, and in the cycles that fetch a displacement.
LEMMA NowKept ==
  ASSUME TypeOK, KeepsOpcode, UNCHANGED << MCycle, NMICycle, IntCycle >>
  PROVE  now' = now
  BY DEF KeepsOpcode, now

LEMMA TBoundStep ==
  ASSUME Inv, TypeOK', NEW wait_n, Sequencer(wait_n), DataPath(wait_n)
  PROVE  TBound'
<1> USE DEF Inv
<1>1. CASE Stays
  <2>1. CASE Fetches
    BY <1>1, <2>1, TimingAfter DEF Stays, Fetches, TBound
  <2>2. CASE ReadsLast
    BY <1>1, <2>2, Timing, TimingAfter DEF Stays, ReadsLast, TBound, TypeOK
  <2>3. CASE SwitchesPage
    BY <1>1, <2>3, Timing, TimingAfter DEF Stays, SwitchesPage, TBound, TypeOK
  <2>4. CASE KeepsOpcode
    BY <1>1, <2>4, NowKept DEF Stays, TBound
  <2> QED
    BY <2>1, <2>2, <2>3, <2>4, DecodeStep
<1>2. CASE Advances
  <2>1. TState + 1 <= now.TStates
    BY <1>2, Timing DEF Advances, T_Res, TBound, TypeOK
  <2>2. CASE Fetches
    BY <1>2, <2>2, TimingAfter DEF Advances, Fetches, TBound
  <2>3. CASE ReadsLast
    BY <1>2, <2>1, <2>3, Timing, TimingAfter DEF Advances, ReadsLast, TBound, TypeOK
  <2>4. CASE SwitchesPage
    BY <1>2, <2>1, <2>4, Timing, TimingAfter DEF Advances, SwitchesPage, TBound, TypeOK
  <2>5. CASE KeepsOpcode
    BY <1>2, <2>1, <2>5, NowKept DEF Advances, TBound
  <2> QED
    BY <2>2, <2>3, <2>4, <2>5, DecodeStep
<1>3. CASE Enters
  BY <1>3, TimingAfter DEF Enters, TBound
<1> QED
  BY <1>1, <1>2, <1>3, SequencerStep

\* While the bus is granted the machine cycle is over, and its outputs do not change.
LEMMA GrantedStep ==
  ASSUME Inv, TypeOK', NEW wait_n, Sequencer(wait_n), DataPath(wait_n)
  PROVE  GrantedAtEnd'
<1> USE DEF Inv
<1>1. CASE Stays
  <2>1. CASE Held
    BY <1>1, <2>1, NowKept
    DEF Stays, Held, DataPath, ClkEn, datapath, decoded, KeepsOpcode, GrantedAtEnd, T_Res
  <2>2. CASE ~Held /\ BusAck'
    <3>1. T_Res
      BY <1>1, <2>2, SequencerStep DEF Stays, Advances, Enters
    <3>2. TState >= 3
      BY <3>1, Timing DEF T_Res
    <3>3. CASE KeepsOpcode
      BY <1>1, <3>1, <3>3, NowKept DEF Stays, GrantedAtEnd, T_Res
    <3>4. CASE ReadsLast \/ SwitchesPage
      BY <1>1, <3>1, <3>4, Timing, TimingAfter
      DEF Stays, ReadsLast, SwitchesPage, GrantedAtEnd, T_Res
    <3> QED
      BY <3>2, <3>3, <3>4, DecodeStep DEF Fetches
  <2>3. CASE ~BusAck'
    BY <2>3 DEF GrantedAtEnd
  <2> QED
    BY <2>1, <2>2, <2>3
<1>2. CASE Advances \/ Enters
  BY <1>2 DEF Advances, Enters, GrantedAtEnd
<1> QED
  BY <1>1, <1>2, SequencerStep
-------------------------------------------------------------------------------
(***************************************************************************)
(* The microcode is known when the sequencer relies on it.                  *)
(***************************************************************************)
LEMMA CountStep ==
  ASSUME Inv, NEW wait_n, Sequencer(wait_n), DataPath(wait_n)
  PROVE  CountKnown'
<1> USE DEF Inv
<1> SUFFICES ASSUME MCycle' = 1, TState' >= 4
             PROVE  MCycles' =
                      ROMCount(IR', ISet', MCycle', cc', NMICycle', IntCycle', XY_State')
  BY DEF CountKnown
<1>1. MCycle = 1 /\ TState >= 3 /\ UNCHANGED << MCycle, NMICycle, IntCycle >>
  <2>1. TState \in 0..6
    BY DEF TypeOK
  <2>2. Stays \/ Advances
    <3>1. ~Enters
      BY <2>1 DEF Enters
    <3> QED
      BY <3>1, SequencerStep
  <2> QED
    BY <2>1, <2>2 DEF Stays, Advances
<1>2. KeepsOpcode
  BY <1>1, DecodeStep DEF Fetches, ReadsLast, SwitchesPage
<1>3. CASE ClkEn
  BY <1>1, <1>2, <1>3 DEF DataPath, KeepsOpcode
<1>4. CASE ~ClkEn
  <2>1. T_Res
    BY <1>1, <1>4 DEF ClkEn, GrantedAtEnd
  <2>2. TState >= 4
    BY <1>1, <2>1, Timing DEF T_Res
  <2> QED
    BY <1>1, <1>2, <1>4, <2>2 DEF CountKnown, DataPath, datapath, decoded, KeepsOpcode
<1> QED
  BY <1>3, <1>4

\* Whether IR holds EI depends on IR and ISet only.
LEMMA SameOpcode ==
  ASSUME TypeOK, TypeOK', UNCHANGED << IR, ISet >>
  PROVE  IsEI' => IsEI
<1>1. Enables(IR', ISet', 1, cc', NMICycle', IntCycle', XY_State')
  BY InstanceAfter
<1> QED
  BY <1>1 DEF Enables, IsEI, TypeOK

LEMMA EnablingAfter ==
  ASSUME TypeOK'
  PROVE  IsEI' => ISet' = 0 /\ IR' \notin IntAckOps \cup {"NOP", "RST"}
<1>1. Enables(IR', ISet', 1, cc', NMICycle', IntCycle', XY_State')
  BY InstanceAfter
<1> QED
  BY <1>1 DEF Enables, IsEI

LEMMA EIStep ==
  ASSUME Inv, TypeOK', NEW wait_n, Sequencer(wait_n), DataPath(wait_n)
  PROVE  EIIsShort'
<1> USE DEF Inv
<1> SUFFICES ASSUME MCycle' # 1 PROVE ~IsEI'
  BY DEF EIIsShort
<1>1. CASE ReadsLast \/ SwitchesPage
  BY <1>1, EnablingAfter DEF ReadsLast, SwitchesPage
<1>2. CASE Fetches
  BY <1>2, SequencerStep
  DEF Fetches, Stays, Advances, Enters, CycleEnds
<1>3. CASE KeepsOpcode /\ MCycle # 1
  BY <1>3, SameOpcode DEF KeepsOpcode, EIIsShort
<1>4. CASE KeepsOpcode /\ MCycle = 1
  <2>1. CycleEnds /\ (FetchDisplacement \/ NextMachineCycle)
    <3>1. ~Stays /\ ~Advances
      BY <1>4 DEF Stays, Advances
    <3>2. ~ResumeAfterDisplacement /\ ~EndInstruction
      BY <1>4 DEF ResumeAfterDisplacement, EndInstruction, EnterCycle
    <3> QED
      BY <3>1, <3>2, SequencerStep DEF Enters
  <2>2. ASSUME IsEI PROVE FALSE
    <3>1. MCycles = 1
      BY <1>4, <2>1, <2>2, Timing, Enabling DEF CycleEnds, T_Res, CountKnown
    <3>2. ~NextIs_XY_Fetch
      BY <1>4, <2>2, Enabling DEF NextIs_XY_Fetch
    <3>3. Completes
      BY <1>4, <2>1, <3>1, <3>2 DEF Completes
    <3> QED
      BY <2>1, <3>2, <3>3 DEF FetchDisplacement, NextMachineCycle
  <2> QED
    BY <1>4, <2>2, SameOpcode DEF KeepsOpcode
<1> QED
  BY <1>1, <1>2, <1>3, <1>4, DecodeStep

\* Cycle 6 always has its three T states.
LEMMA DisplacementStep ==
  ASSUME Inv, TypeOK', NEW wait_n, Sequencer(wait_n), DataPath(wait_n)
  PROVE  DisplacementMarked'
<1> USE DEF Inv
<1>1. MCycle \in {6, 7} => XY_Ind' = (XY_Ind \/ (MCycle = 6 /\ ClkEn))
  BY DEF DataPath, datapath, decoded, IndexPage, TypeOK
<1>2. MCycle = 6 /\ TState = 1 => ClkEn
  BY Timing DEF ClkEn, GrantedAtEnd, T_Res
<1>3. CASE Stays
  BY <1>1, <1>3 DEF Stays, DisplacementMarked, TypeOK
<1>4. CASE Advances
  BY <1>1, <1>2, <1>4 DEF Advances, DisplacementMarked, TypeOK
<1>5. CASE Enters /\ MCycle = 6
  <2>1. TState = 3
    BY <1>5, Timing DEF Enters, CycleEnds, T_Res
  <2>2. XY_Ind = TRUE
    BY <1>5, <2>1 DEF DisplacementMarked, TypeOK
  <2>3. XY_Ind' = TRUE
    BY <1>1, <1>5, <2>2
  <2> QED
    BY <2>3 DEF DisplacementMarked
<1>6. CASE /\ Enters /\ MCycle # 6
           /\ FetchDisplacement \/ ResumeAfterDisplacement \/ EndInstruction
              \/ NextMachineCycle
  <2>1. MCycle' # 7
    <3>1. CASE FetchDisplacement \/ EndInstruction
      BY <3>1 DEF FetchDisplacement, EndInstruction, EnterCycle
    <3>2. CASE NextMachineCycle
      BY <3>2, <1>6 DEF NextMachineCycle, EnterCycle, TypeOK
    <3>3. CASE ResumeAfterDisplacement
      BY <3>3 DEF ResumeAfterDisplacement, EnterCycle, TypeOK
    <3> QED
      BY <1>6, <3>1, <3>2, <3>3
  <2> QED
    BY <1>6, <2>1 DEF Enters, DisplacementMarked
<1> QED
  BY <1>3, <1>4, <1>5, <1>6, SequencerStep
-------------------------------------------------------------------------------
(***************************************************************************)
(* Interrupts.                                                              *)
(***************************************************************************)
\* A response begins only at the end of an instruction that is no prefix and, for INT, not EI.
LEMMA Acceptance ==
  ASSUME Inv, NEW wait_n, Sequencer(wait_n), TypeOK'
  PROVE  /\ NMICycle' => NMICycle \/ (Prefix = 0 /\ T_Res)
         /\ IntCycle' => IntCycle \/ (AcceptsINT /\ ~IsEI /\ Prefix = 0 /\ T_Res)
<1> USE DEF Inv
<1>1. AcceptsNMI => Prefix = 0 /\ T_Res
  BY DEF AcceptsNMI, Completes, CycleEnds
<1>2. AcceptsINT => Prefix = 0 /\ T_Res /\ ~On("SetEI")
  BY DEF AcceptsINT, Completes, CycleEnds
<1>3. ~On("SetEI") => ~IsEI
  BY Enabling DEF EIIsShort
<1>4. \/ UNCHANGED << NMICycle, IntCycle >>
      \/ NMICycle' = AcceptsNMI /\ IntCycle' = AcceptsINT
  BY DEF Sequencer, HoldForBus, StretchT2, GrantBus, FetchDisplacement,
         ResumeAfterDisplacement, EndInstruction, NextMachineCycle, StretchT1, NextTState,
         sequencer
<1> QED
  BY <1>1, <1>2, <1>3, <1>4

\* At the end of a machine cycle the opcode stays (the last byte of DD CB d comes earlier).
LEMMA EndKeepsOpcode ==
  ASSUME Inv, NEW wait_n, DataPath(wait_n), T_Res
  PROVE  UNCHANGED IR /\ (Prefix = 0 => UNCHANGED ISet)
<1> USE DEF Inv
<1>1. TState # 2 /\ ~(MCycle = 1 /\ TState < 4)
  BY Timing DEF T_Res
<1> QED
  BY <1>1 DEF DataPath, datapath, decoded, IndexPage

LEMMA PrefixAfter ==
  ASSUME TypeOK'
  PROVE  Prefix' # 0 => ISet' = 0 /\ IR' \notin IntAckOps \cup {"NOP", "RST"}
<1>1. PrefixAssumption
  BY CoreAssumption DEF MicrocodeAssumption
<1>2. IR' \in AllOpcodes /\ ISet' \in 0..2 /\ Decodes(IR', ISet')
  BY DEF TypeOK
<1> QED
  BY <1>1, <1>2 DEF PrefixAssumption, Prefix

LEMMA NoPrefixStep ==
  ASSUME Inv, TypeOK', NEW wait_n, Sequencer(wait_n), DataPath(wait_n), HaltAndM1(wait_n)
  PROVE  NoPrefixPending'
<1> USE DEF Inv
<1>1. IntCycle' \/ NMICycle' \/ Halt_FF' => Prefix = 0
  <2>1. Halt_FF' => (T_Res /\ On("Halt")) \/ Halt_FF
    BY DEF HaltAndM1
  <2> QED
    BY <2>1, Acceptance, Prefixing DEF NoPrefixPending
<1> SUFFICES ASSUME IntCycle' \/ NMICycle' \/ Halt_FF', Prefix' # 0 PROVE FALSE
  BY DEF NoPrefixPending
<1>2. ISet' = 0 /\ IR' \notin IntAckOps \cup {"NOP", "RST"}
  BY PrefixAfter
<1>3. CASE Fetches
  <2>1. ~T_Res /\ MCycle = 1 /\ TState = 2 /\ IR' \in OpcodeRead
    BY <1>3 DEF Fetches, FetchOpcode
  <2>2. (IntCycle' => IntCycle) /\ (NMICycle' => NMICycle) /\ (Halt_FF' => Halt_FF)
    BY <2>1, Acceptance DEF HaltAndM1
  <2>3. IntCycle \/ NMICycle \/ Halt_FF
    BY <2>2
  <2> QED
    BY <1>2, <2>1, <2>3 DEF OpcodeRead
<1>4. CASE ReadsLast \/ SwitchesPage
  BY <1>2, <1>4 DEF ReadsLast, SwitchesPage
<1>5. CASE KeepsOpcode
  BY <1>1, <1>5 DEF KeepsOpcode, Prefix
<1> QED
  BY <1>3, <1>4, <1>5, DecodeStep

LEMMA NoResponseToEIStep ==
  ASSUME Inv, TypeOK', NEW wait_n, Sequencer(wait_n), DataPath(wait_n)
  PROVE  NoResponseToEI'
<1> USE DEF Inv
<1> SUFFICES ASSUME IntCycle', IsEI' PROVE FALSE
  BY DEF NoResponseToEI
<1>1. ISet' = 0 /\ IR' \notin IntAckOps \cup {"NOP", "RST"}
  BY EnablingAfter
<1>2. ~IsEI
  BY Acceptance DEF NoResponseToEI
<1>3. CASE Fetches
  <2>1. IntCycle /\ IR' \in OpcodeRead
    BY <1>3, Acceptance DEF Fetches, FetchOpcode
  <2> QED
    BY <1>1, <2>1 DEF OpcodeRead
<1>4. CASE ReadsLast \/ SwitchesPage
  BY <1>1, <1>4 DEF ReadsLast, SwitchesPage
<1>5. CASE KeepsOpcode
  BY <1>2, <1>5, SameOpcode DEF KeepsOpcode
<1> QED
  BY <1>3, <1>4, <1>5, DecodeStep

LEMMA ShutOutStep ==
  ASSUME Inv, TypeOK', NEW wait_n, Sequencer(wait_n), InterruptEnables
  PROVE  InterruptsShutOut'
<1> USE DEF Inv
<1>1. ~(AcceptsNMI /\ AcceptsINT)
  BY DEF AcceptsNMI, AcceptsINT
<1>2. \/ /\ UNCHANGED << NMICycle, IntCycle >> /\ ~AcceptsNMI /\ ~AcceptsINT
      \/ NMICycle' = AcceptsNMI /\ IntCycle' = AcceptsINT
  <2>1. T_Res => TState # 2
    BY Timing DEF T_Res
  <2>2. Completes \/ (~AcceptsNMI /\ ~AcceptsINT)
    BY DEF AcceptsNMI, AcceptsINT
  <2>3. Completes => EndInstruction
    BY <2>1 DEF Sequencer, HoldForBus, StretchT2, Waiting, GrantBus, FetchDisplacement,
         ResumeAfterDisplacement, NextMachineCycle, StretchT1, NextTState, Completes, CycleEnds
  <2>4. EndInstruction \/ UNCHANGED << NMICycle, IntCycle >>
    BY DEF Sequencer, HoldForBus, StretchT2, GrantBus, FetchDisplacement,
         ResumeAfterDisplacement, NextMachineCycle, StretchT1, NextTState, sequencer
  <2> QED
    BY <2>2, <2>3, <2>4 DEF EndInstruction
<1>3. IntCycle => ~On("SetEI")
  BY Enabling DEF NoResponseToEI
<1>4. CASE AcceptsNMI \/ AcceptsINT
  BY <1>1, <1>2, <1>4 DEF InterruptEnables, InterruptsShutOut, TypeOK
<1>5. CASE ~AcceptsNMI /\ ~AcceptsINT
  <2>1. /\ IntE_FF1' => IntE_FF2'
        /\ IntCycle => ~IntE_FF1' /\ ~IntE_FF2'
        /\ NMICycle => ~IntE_FF1'
    BY <1>3, <1>5 DEF InterruptEnables, InterruptsShutOut, TypeOK
  <2> QED
    BY <1>2, <1>5, <2>1 DEF InterruptsShutOut, TypeOK
<1> QED
  BY <1>4, <1>5
-------------------------------------------------------------------------------
(***************************************************************************)
(* The inductive invariant.                                                 *)
(***************************************************************************)
LEMMA InitInv == Init => Inv
<1> SUFFICES ASSUME Init PROVE Inv
  OBVIOUS
<1>1. TypeOK
  <2>1. /\ PCSpan \in Nat \ {0}
        /\ MayRequestBus \in BOOLEAN /\ MayNMI \in BOOLEAN
    BY CoreAssumption DEF ConstantsAssumption
  <2>2. PC \in PCs /\ A \in 0..PCSpan /\ DO \in Bytes
    BY <2>1 DEF Init, PCs, NotPC, Bytes
  <2>3. IR \in AllOpcodes /\ ISet \in 0..2 /\ Decodes(IR, ISet)
    BY DEF Init, AllOpcodes, Decodes
  <2>4. /\ BusReq_s \in BOOLEAN /\ BusAck \in BOOLEAN
        /\ OldNMI_n \in BOOLEAN /\ INT_n_i \in BOOLEAN
    BY <2>1 DEF Init
  <2>5. /\ MCycle \in 1..7 /\ TState \in 0..6 /\ Pre_XY_F_M \in 0..5
        /\ MCycles \in 0..5 /\ IStatus \in 0..2
    BY DEF Init
  <2>6. /\ XY_State \in BOOLEAN /\ XY_Ind \in BOOLEAN /\ cc \in BOOLEAN /\ No_BTR \in BOOLEAN
        /\ BTR_r \in BOOLEAN /\ IntE_FF1 \in BOOLEAN /\ IntE_FF2 \in BOOLEAN /\ Halt_FF \in BOOLEAN
        /\ NMICycle \in BOOLEAN /\ IntCycle \in BOOLEAN /\ NMI_s \in BOOLEAN /\ Auto_Wait_t1 \in BOOLEAN
        /\ Auto_Wait_t2 \in BOOLEAN /\ M1_n \in BOOLEAN
    BY DEF Init
  <2> QED
    BY <2>2, <2>3, <2>4, <2>5, <2>6 DEF TypeOK
<1>2. TBound /\ GrantedAtEnd
  BY <1>1, Timing DEF Init, TBound, GrantedAtEnd
<1>3. NoPrefixPending /\ NoResponseToEI /\ InterruptsShutOut
  BY DEF Init, NoPrefixPending, NoResponseToEI, InterruptsShutOut
<1>4. CountKnown /\ EIIsShort /\ DisplacementMarked
  BY DEF Init, CountKnown, EIIsShort, DisplacementMarked
<1> QED
  BY <1>1, <1>2, <1>3, <1>4 DEF Inv

LEMMA ClockInv ==
  ASSUME Inv, NEW wait_n \in BOOLEAN, Clock(wait_n)
  PROVE  Inv'
<1>1. TypeOK'
  BY TypeStep
<1>2. /\ Sequencer(wait_n) /\ DataPath(wait_n) /\ InterruptEnables /\ HaltAndM1(wait_n)
  BY DEF Clock, Step
<1>3. TBound' /\ GrantedAtEnd'
  BY <1>1, <1>2, TBoundStep, GrantedStep
<1>4. CountKnown' /\ EIIsShort' /\ DisplacementMarked'
  BY <1>1, <1>2, CountStep, EIStep, DisplacementStep
<1>5. NoPrefixPending' /\ NoResponseToEI' /\ InterruptsShutOut'
  BY <1>1, <1>2, NoPrefixStep, NoResponseToEIStep, ShutOutStep
<1> QED
  BY <1>1, <1>3, <1>4, <1>5 DEF Inv

LEMMA ResetInv ==
  ASSUME Inv, Reset
  PROVE  Inv'
<1>1. TypeOK'
  <2>1. PCSpan \in Nat \ {0}
    BY CoreAssumption DEF ConstantsAssumption
  <2>2. PC' \in PCs /\ A' \in 0..PCSpan /\ DO' \in Bytes
    BY <2>1 DEF Reset, PCs, NotPC, Bytes
  <2>3. IR' \in AllOpcodes /\ ISet' \in 0..2 /\ Decodes(IR', ISet')
    BY DEF Reset, AllOpcodes, Decodes
  <2>4. /\ BusReq_s' \in BOOLEAN /\ BusAck' \in BOOLEAN
        /\ OldNMI_n' \in BOOLEAN /\ INT_n_i' \in BOOLEAN
    BY DEF Inv, Reset, TypeOK
  <2>5. /\ MCycle' \in 1..7 /\ TState' \in 0..6 /\ Pre_XY_F_M' \in 0..5
        /\ MCycles' \in 0..5 /\ IStatus' \in 0..2
    BY DEF Reset
  <2>6. /\ XY_State' \in BOOLEAN /\ XY_Ind' \in BOOLEAN /\ cc' \in BOOLEAN /\ No_BTR' \in BOOLEAN
        /\ BTR_r' \in BOOLEAN /\ IntE_FF1' \in BOOLEAN /\ IntE_FF2' \in BOOLEAN /\ Halt_FF' \in BOOLEAN
        /\ NMICycle' \in BOOLEAN /\ IntCycle' \in BOOLEAN /\ NMI_s' \in BOOLEAN /\ Auto_Wait_t1' \in BOOLEAN
        /\ Auto_Wait_t2' \in BOOLEAN /\ M1_n' \in BOOLEAN
    BY DEF Reset
  <2> QED
    BY <2>2, <2>3, <2>4, <2>5, <2>6 DEF TypeOK
<1>2. TBound' /\ GrantedAtEnd'
  BY <1>1, TimingAfter DEF Reset, TBound, GrantedAtEnd
<1>3. NoPrefixPending' /\ NoResponseToEI' /\ InterruptsShutOut'
  BY DEF Reset, NoPrefixPending, NoResponseToEI, InterruptsShutOut
<1>4. CountKnown' /\ EIIsShort' /\ DisplacementMarked'
  BY DEF Reset, CountKnown, EIIsShort, DisplacementMarked
<1> QED
  BY <1>1, <1>2, <1>3, <1>4 DEF Inv

\* Every reachable state of the core satisfies Inv.
THEOREM Invariance == Spec => []Inv
<1>1. Inv /\ [Next]_vars => Inv'
  <2> SUFFICES ASSUME Inv, [Next]_vars PROVE Inv'
    OBVIOUS
  <2>1. CASE Next
    <3>1. WaitInputs \subseteq BOOLEAN
      BY DEF WaitInputs
    <3> QED
      BY <2>1, <3>1, ClockInv, ResetInv DEF Next
  <2>2. CASE UNCHANGED vars
    BY <2>2 DEF vars, sequencer, datapath, decoded, waits, irqs, Inv, TypeOK, TBound,
       GrantedAtEnd, CountKnown, EIIsShort, NoPrefixPending, DisplacementMarked,
       NoResponseToEI, InterruptsShutOut, now, T_Res, Prefix, IsEI
  <2> QED
    BY <2>1, <2>2
<1> QED
  BY InitInv, <1>1, PTL DEF Spec

\* The registers of the core keep to their widths, and IR always holds an opcode of the page
\* that it is decoded in, also while interrupts, displacements and prefixes replace it.
THEOREM TypeCorrect == Spec => []TypeOK
<1>1. Inv => TypeOK
  BY DEF Inv
<1> QED
  BY Invariance, <1>1, PTL

\* No response to an interrupt can itself be interrupted by INT, and IFF1 implies IFF2,
\* whatever the order in which EI, RETN, NMI and INT meet (T80.vhd:1345-1359, 1396-1405).
THEOREM InterruptSafety == Spec => []InterruptsShutOut
<1>1. Inv => InterruptsShutOut
  BY DEF Inv
<1> QED
  BY Invariance, <1>1, PTL

LEMMA GrantedClock ==
  ASSUME Inv, NEW wait_n, Clock(wait_n), BusAck
  PROVE  /\ T_Res \/ TState = 0
         /\ UNCHANGED datapath
         /\ BusAck' => UNCHANGED << sequencer, IntE_FF1, IntE_FF2 >>
<1> USE DEF Inv
<1>1. /\ Sequencer(wait_n) /\ DataPath(wait_n) /\ InterruptEnables
  BY DEF Clock, Step
<1>2. T_Res \/ TState = 0
  BY DEF GrantedAtEnd
<1>3. UNCHANGED datapath
  BY <1>1 DEF DataPath, ClkEn
<1>4. ASSUME BusAck' PROVE UNCHANGED << sequencer, IntE_FF1, IntE_FF2 >>
  <2>1. UNCHANGED sequencer
    BY <1>1, <1>4, SequencerStep DEF Stays, Advances, Enters, sequencer
  <2>2. Held
    BY <1>1, <1>2, <1>4, Timing
    DEF Sequencer, HoldForBus, StretchT2, Waiting, GrantBus, FetchDisplacement,
        ResumeAfterDisplacement, EndInstruction, NextMachineCycle, EnterCycle, StretchT1,
        NextTState, Held, T_Res
  <2>3. ~AcceptsNMI /\ ~AcceptsINT
    BY <2>2 DEF AcceptsNMI, AcceptsINT, Completes, CycleEnds
  <2>4. TState # 2 /\ ~(TState = 3 /\ On("SetDI"))
    BY <1>2, Timing, Enabling DEF T_Res
  <2>5. UNCHANGED << IntE_FF1, IntE_FF2 >>
    BY <1>1, <2>3, <2>4 DEF InterruptEnables, TypeOK
  <2> QED
    BY <2>1, <2>5
<1> QED
  BY <1>2, <1>3, <1>4

\* The bus is given away between machine cycles only, and an execution with a grant is the
\* execution without it, delayed (T80.vhd:1366-1376).
THEOREM GrantTransparency == Spec => GrantFreezes
<1>1. Inv /\ [Next]_vars =>
        [ BusAck /\ TState' # 0 =>
            /\ T_Res \/ TState = 0
            /\ UNCHANGED datapath
            /\ BusAck' => UNCHANGED << sequencer, IntE_FF1, IntE_FF2 >> ]_vars
  <2> SUFFICES ASSUME Inv, Next, BusAck, TState' # 0
               PROVE  /\ T_Res \/ TState = 0
                      /\ UNCHANGED datapath
                      /\ BusAck' => UNCHANGED << sequencer, IntE_FF1, IntE_FF2 >>
    OBVIOUS
  <2>1. PICK wait_n \in WaitInputs : Clock(wait_n)
    BY DEF Next, Reset
  <2> QED
    BY <2>1, GrantedClock
<1> QED
  BY Invariance, <1>1, PTL DEF Spec, GrantFreezes
-------------------------------------------------------------------------------
\* The number of machine cycles that the microcode gives in machine cycle mc.
Count(mc) == ROMCount(IR, ISet, mc, cc, NMICycle, IntCycle, XY_State)

\* MCycles, a register, has it by the second clock of a machine cycle.
CountSettled == MCycle \in 2..5 /\ TState >= 2 => MCycles = Count(MCycle)

\* No machine cycle begins after the last one.
CyclesCounted == MCycle <= 5 => Count(MCycle) >= MCycle

\* While a displacement is fetched, the machine cycle to come back to exists.
Displacing ==
  MCycle \in 6..7 =>
    /\ XY_State /\ Pre_XY_F_M >= 1
    /\ ISet = 1 => Pre_XY_F_M = 1
    /\ IF Prefix = 1 THEN Pre_XY_F_M = 1 /\ MCycle = 6 /\ TState = 1
       ELSE Count(Pre_XY_F_M + 1) > Pre_XY_F_M

\* An opcode of the CB page after DD has had its displacement.
IndexedOnce ==
  /\ XY_Ind => Prefix \notin {1, 3}
  /\ Prefix = 1 /\ XY_State /\ MCycle = 1 => TState >= 3
  /\ ISet = 1 /\ XY_State => XY_Ind

\* T1 of an M1 cycle has its automatic wait states before T2, where there are none.
AckWaits ==
  /\ TState = 0 => MCycle = 1 /\ ~IntCycle
  /\ MCycle = 1 /\ TState = 1 /\ IntCycle /\ Auto_Wait_t2 => Auto_Wait_t1
  /\ MCycle = 1 /\ TState = 2 =>
       /\ IntCycle => Auto_Wait_t1 /\ Auto_Wait_t2
       /\ On("IORQ") => Auto_Wait_t1

FInv == /\ CountSettled /\ CyclesCounted /\ Displacing /\ IndexedOnce /\ AckWaits
        /\ M1MarksFetch
-------------------------------------------------------------------------------
LEMMA CountInstance ==
  ASSUME NEW ir \in AllOpcodes, NEW iset \in 0..2, Decodes(ir, iset),
         NEW c \in BOOLEAN, NEW n \in BOOLEAN, NEW i \in BOOLEAN, NEW x \in BOOLEAN
  PROVE  /\ \A mc \in 1..6 : Counted(ir, iset, mc, c, n, i, x)
         /\ DisplacedCount(ir, iset, c, n, i, x)
         /\ \A mc \in 1..7 : ROMCount(ir, iset, mc, c, n, i, x) \in 1..5
         /\ ROMPrefix(ir, iset) = 1 <=> ir = "CB" /\ iset = 0
         /\ ROMPrefix(ir, iset) \in 0..3
         /\ ROMPrefix(ir, iset) # 0 => iset = 0
<1>1. CountAssumption /\ PrefixAssumption
  BY CoreAssumption DEF MicrocodeAssumption
<1>2. /\ \A mc \in 1..6 : Counted(ir, iset, mc, c, n, i, x)
      /\ DisplacedCount(ir, iset, c, n, i, x)
  BY <1>1, SMTT(20) DEF CountAssumption
<1>3. \A mc \in 1..7 : ROMCount(ir, iset, mc, c, n, i, x) \in 1..5
  <2> SUFFICES ASSUME NEW mc \in 1..7 PROVE ROMCount(ir, iset, mc, c, n, i, x) \in 1..5
    OBVIOUS
  <2> QED BY Instance DEF Timed
<1> QED
  BY <1>1, <1>2, <1>3 DEF PrefixAssumption

\* What the microcode says of the opcode in IR.
LEMMA Counting ==
  ASSUME TypeOK
  PROVE  /\ \A mc \in 1..7 : Count(mc) \in 1..5
         /\ \A mc \in 1..6 : Count(mc) > mc => Count(mc + 1) > mc
         /\ Prefix # 0 => ISet = 0 /\ \A mc \in 1..6 : Count(mc) = 1
         /\ Prefix = 1 <=> IR = "CB" /\ ISet = 0
         /\ IR = "LDHLn" /\ ISet = 0 => Count(3) > 2
         /\ ISet = 1 /\ XY_State => Count(2) > 1
         /\ MCycle <= 5 /\ On("aXY") => Count(MCycle + 1) > MCycle
<1>1. /\ \A mc \in 1..6 : Counted(IR, ISet, mc, cc, NMICycle, IntCycle, XY_State)
      /\ DisplacedCount(IR, ISet, cc, NMICycle, IntCycle, XY_State)
      /\ \A mc \in 1..7 : Count(mc) \in 1..5
      /\ ROMPrefix(IR, ISet) = 1 <=> IR = "CB" /\ ISet = 0
      /\ ROMPrefix(IR, ISet) # 0 => ISet = 0
  BY ArgumentTypes, CountInstance DEF Count
<1>2. MCycle <= 5 => MCycle \in 1..6
  BY DEF TypeOK
<1> QED
  BY <1>1, <1>2 DEF Counted, DisplacedCount, Count, Prefix, On, now

LEMMA CountingAfter ==
  ASSUME TypeOK'
  PROVE  /\ \A mc \in 1..7 :
              ROMCount(IR', ISet', mc, cc', NMICycle', IntCycle', XY_State') \in 1..5
         /\ Prefix' \in 0..3 /\ (Prefix' # 0 => ISet' = 0)
         /\ Prefix' = 1 <=> IR' = "CB" /\ ISet' = 0
         /\ ISet' = 1 /\ XY_State' =>
              ROMCount(IR', ISet', 2, cc', NMICycle', IntCycle', XY_State') > 1
<1>1. /\ IR' \in AllOpcodes /\ ISet' \in 0..2 /\ Decodes(IR', ISet')
      /\ cc' \in BOOLEAN /\ NMICycle' \in BOOLEAN /\ IntCycle' \in BOOLEAN
      /\ XY_State' \in BOOLEAN
  BY DEF TypeOK
<1>2. /\ DisplacedCount(IR', ISet', cc', NMICycle', IntCycle', XY_State')
      /\ \A mc \in 1..7 :
           ROMCount(IR', ISet', mc, cc', NMICycle', IntCycle', XY_State') \in 1..5
      /\ ROMPrefix(IR', ISet') = 1 <=> IR' = "CB" /\ ISet' = 0
      /\ ROMPrefix(IR', ISet') \in 0..3
      /\ ROMPrefix(IR', ISet') # 0 => ISet' = 0
  BY <1>1, CountInstance
<1> QED
  BY <1>2 DEF DisplacedCount, Prefix

\* What a clock does to the decoded opcode and to the mark of its displacement.
LEMMA MarkStep ==
  ASSUME Inv, NEW wait_n, DataPath(wait_n)
  PROVE  \/ Fetches /\ wait_n
         \/ /\ XY_Ind' = (XY_Ind \/ (MCycle = 6 /\ ClkEn))
            /\ ReadsLast \/ (SwitchesPage /\ ClkEn) \/ KeepsOpcode
            /\ MCycle = 6 /\ ClkEn /\ Prefix = 1 => ISet' = 1
<1> USE DEF Inv
<1>1. CASE ~ClkEn
  BY <1>1 DEF DataPath, datapath, decoded, KeepsOpcode, TypeOK
<1>2. CASE ClkEn /\ MCycle = 1 /\ TState < 4
  <2>1. TState = 2 => ~T_Res
    BY <1>2, Timing DEF T_Res, TypeOK
  <2> QED
    BY <1>2, <2>1 DEF DataPath, Fetches, KeepsOpcode, TypeOK
<1>3. CASE ClkEn /\ ~(MCycle = 1 /\ TState < 4)
  <2>1. IndexPage
    BY <1>3 DEF DataPath
  <2>2. XY_Ind' = (XY_Ind \/ (MCycle = 6 /\ ClkEn))
    BY <1>3, <2>1 DEF IndexPage
  <2>3. ~Fetches \/ T_Res
    BY <1>3 DEF Fetches
  <2>4. ReadsLast \/ SwitchesPage \/ KeepsOpcode
    BY <1>3, DecodeStep DEF Fetches
  <2> QED
    BY <1>3, <2>1, <2>2, <2>4 DEF IndexPage
<1> QED
  BY <1>1, <1>2, <1>3

LEMMA SameCount ==
  ASSUME KeepsOpcode, UNCHANGED << NMICycle, IntCycle >>
  PROVE  /\ Prefix' = Prefix
         /\ \A mc : ROMCount(IR', ISet', mc, cc', NMICycle', IntCycle', XY_State') = Count(mc)
BY DEF KeepsOpcode, Count, Prefix

\* The end of a machine cycle does not change the opcode, but for the page that a
\* displacement switches to.
LEMMA EndMarks ==
  ASSUME Inv, NEW wait_n, DataPath(wait_n), CycleEnds, MCycle <= 5
  PROVE  KeepsOpcode /\ XY_Ind' = XY_Ind
<1> USE DEF Inv
<1>1. MCycle # 6 /\ MCycle # 7 /\ T_Res
  BY DEF TypeOK, CycleEnds
<1>2. ~Fetches /\ ~ReadsLast /\ ~SwitchesPage
  BY <1>1 DEF Fetches, ReadsLast, SwitchesPage
<1> QED
  BY <1>1, <1>2, MarkStep DEF TypeOK

\* An instruction that goes on has another machine cycle to go on with.
LEMMA GoesOn ==
  ASSUME Inv, FInv, CycleEnds, ~NextIs_XY_Fetch, ~Completes, MCycle <= 5
  PROVE  MCycle <= 4 /\ Count(MCycle + 1) > MCycle
<1> USE DEF Inv, FInv
<1>1. MCycle \in 1..5 /\ T_Res /\ MCycle # MCycles
  BY DEF TypeOK, Completes, CycleEnds
<1>2. TState >= 3 /\ (MCycle = 1 => TState >= 4)
  BY <1>1, Timing DEF T_Res
<1>3. MCycles = Count(MCycle)
  BY <1>1, <1>2 DEF CountSettled, CountKnown, Count, TypeOK
<1>4. Count(MCycle) > MCycle
  BY <1>1, <1>3, Counting DEF CyclesCounted
<1> QED
  BY <1>1, <1>4, Counting

LEMMA SettledStep ==
  ASSUME Inv, FInv, TypeOK', NEW wait_n, Sequencer(wait_n), DataPath(wait_n)
  PROVE  CountSettled'
<1> USE DEF Inv, FInv
<1> SUFFICES ASSUME MCycle' \in 2..5, TState' >= 2 PROVE MCycles' = Count(MCycle)'
  BY DEF CountSettled
<1>1. MCycle' = MCycle /\ UNCHANGED << NMICycle, IntCycle >> /\ (Stays \/ Advances)
  <2>1. ~Enters
    BY DEF Enters
  <2>2. Stays \/ Advances
    BY <2>1, SequencerStep
  <2> QED
    BY <2>2 DEF Stays, Advances
<1>2. KeepsOpcode
  BY <1>1, DecodeStep DEF Fetches, ReadsLast, SwitchesPage
<1>3. Count(MCycle)' = Count(MCycle)
  BY <1>1, <1>2 DEF Count, KeepsOpcode
<1>4. CASE ClkEn
  BY <1>3, <1>4 DEF DataPath, Count
<1>5. CASE ~ClkEn
  <2>1. T_Res /\ MCycle \in 2..5
    BY <1>1, <1>5 DEF ClkEn, GrantedAtEnd, AckWaits
  <2>2. MCycles = Count(MCycle)
    BY <2>1, Timing DEF T_Res, CountSettled
  <2> QED
    BY <1>3, <1>5, <2>2 DEF DataPath, datapath, decoded
<1> QED
  BY <1>4, <1>5

LEMMA CountedStep ==
  ASSUME Inv, FInv, TypeOK', NEW wait_n, Sequencer(wait_n), DataPath(wait_n)
  PROVE  CyclesCounted'
<1> USE DEF Inv, FInv
<1>a. Count(MCycle)' = ROMCount(IR', ISet', MCycle', cc', NMICycle', IntCycle', XY_State')
  BY DEF Count
<1> SUFFICES ASSUME MCycle' <= 5 PROVE Count(MCycle)' >= MCycle'
  BY DEF CyclesCounted
<1>1. CASE MCycle' = 1
  BY <1>1, <1>a, CountingAfter
<1>2. CASE (Stays \/ Advances) /\ MCycle' # 1
  <2>1. MCycle' = MCycle /\ UNCHANGED << NMICycle, IntCycle >> /\ MCycle \in 2..5
    BY <1>2 DEF Stays, Advances, TypeOK
  <2>2. KeepsOpcode
    BY <2>1, DecodeStep DEF Fetches, ReadsLast, SwitchesPage
  <2> QED
    BY <2>1, <2>2, <1>a, SameCount DEF CyclesCounted
<1>3. CASE NextMachineCycle /\ MCycle <= 5
  <2>1. /\ CycleEnds /\ ~NextIs_XY_Fetch /\ ~Completes
        /\ MCycle' = MCycle + 1 /\ UNCHANGED << NMICycle, IntCycle >>
    BY <1>3 DEF NextMachineCycle, EnterCycle
  <2>2. Count(MCycle + 1) > MCycle
    BY <1>3, <2>1, GoesOn
  <2>3. KeepsOpcode
    BY <1>3, <2>1, EndMarks
  <2>4. Count(MCycle)' = Count(MCycle + 1)
    BY <2>1, <2>3, <1>a, SameCount
  <2>5. Count(MCycle + 1) \in 1..5
    BY <1>3, Counting DEF TypeOK
  <2> QED
    BY <2>1, <2>2, <2>4, <2>5 DEF TypeOK
<1>4. CASE NextMachineCycle /\ MCycle > 5
  BY <1>4 DEF NextMachineCycle, EnterCycle, TypeOK
<1>5. CASE ResumeAfterDisplacement
  <2>1. /\ MCycle = 7 /\ MCycle' = Pre_XY_F_M + 1 /\ UNCHANGED << NMICycle, IntCycle >>
    BY <1>5 DEF ResumeAfterDisplacement, EnterCycle
  <2>2. /\ XY_State /\ (ISet = 1 => Pre_XY_F_M = 1) /\ Count(Pre_XY_F_M + 1) > Pre_XY_F_M
    BY <2>1 DEF Displacing
  <2>3. KeepsOpcode \/ ReadsLast
    BY <2>1, DecodeStep DEF Fetches, SwitchesPage
  <2>4. CASE KeepsOpcode
    <3>1. Count(MCycle)' = Count(Pre_XY_F_M + 1)
      BY <2>1, <2>4, <1>a, SameCount
    <3>2. Pre_XY_F_M \in 0..5 /\ Count(Pre_XY_F_M + 1) \in 1..5
      BY Counting DEF TypeOK
    <3> QED
      BY <2>1, <2>2, <3>1, <3>2
  <2>5. CASE ReadsLast
    <3>1. ISet' = 1 /\ XY_State' /\ MCycle' = 2
      BY <2>1, <2>2, <2>5 DEF ReadsLast
    <3>2. ROMCount(IR', ISet', 2, cc', NMICycle', IntCycle', XY_State') \in 1..5
      BY CountingAfter
    <3>3. ROMCount(IR', ISet', 2, cc', NMICycle', IntCycle', XY_State') > 1
      BY <3>1, CountingAfter
    <3>4. Count(MCycle)' = ROMCount(IR', ISet', 2, cc', NMICycle', IntCycle', XY_State')
      <4>1. MCycle' = 2
        BY <3>1
      <4> QED
        BY <4>1, <1>a
    <3>5. Count(MCycle)' >= 2
      BY <3>2, <3>3, <3>4
    <3> QED
      BY <3>1, <3>5
  <2> QED
    BY <2>3, <2>4, <2>5
<1>6. CASE FetchDisplacement \/ EndInstruction
  BY <1>6, <1>1 DEF FetchDisplacement, EndInstruction, EnterCycle
<1> QED
  BY <1>1, <1>2, <1>3, <1>4, <1>5, <1>6, SequencerStep DEF TypeOK
-------------------------------------------------------------------------------
\* T1 of an M1 cycle is left when its automatic wait states are over.
LEMMA LeavesT1 ==
  ASSUME Inv, NEW wait_n, Sequencer(wait_n), TState = 1, TState' = 2
  PROVE  ~AutoWaiting
BY DEF Sequencer, HoldForBus, StretchT2, GrantBus, FetchDisplacement,
       ResumeAfterDisplacement, EndInstruction, NextMachineCycle, EnterCycle, StretchT1,
       NextTState, sequencer

\* T2 of an M1 cycle lasts until WAIT_n is high.
LEMMA FetchWaits ==
  ASSUME Inv, FInv, NEW wait_n, Sequencer(wait_n), MCycle = 1, TState = 2
  PROVE  IF wait_n THEN Advances ELSE Stays
<1> USE DEF Inv, FInv
<1>1. ~T_Res /\ ~BusAck
  BY Timing DEF T_Res, GrantedAtEnd
<1>2. ~AutoWaiting
  BY DEF AckWaits, AutoWaiting, Auto_Wait
<1>3. ~HoldForBus /\ ~GrantBus /\ ~StretchT1(wait_n)
  BY <1>1, <1>2 DEF HoldForBus, Held, GrantBus, StretchT1
<1>4. ~FetchDisplacement /\ ~ResumeAfterDisplacement /\ ~EndInstruction /\ ~NextMachineCycle
  BY <1>1 DEF FetchDisplacement, ResumeAfterDisplacement, EndInstruction, NextMachineCycle,
              EnterCycle, CycleEnds
<1>5. StretchT2(wait_n) \/ NextTState(wait_n)
  BY <1>3, <1>4 DEF Sequencer
<1> QED
  BY <1>1, <1>5 DEF StretchT2, NextTState, Waiting, Advances, Stays, sequencer

LEMMA AckStep ==
  ASSUME Inv, FInv, TypeOK', NEW wait_n, Sequencer(wait_n), DataPath(wait_n), WaitStates
  PROVE  AckWaits'
<1> USE DEF Inv, FInv
<1>1. TState' = 0 => MCycle' = 1 /\ ~IntCycle'
  <2> SUFFICES ASSUME TState' = 0 PROVE MCycle' = 1 /\ ~IntCycle'
    OBVIOUS
  <2>1. ~Enters /\ ~Advances
    BY DEF Enters, Advances, TypeOK
  <2>2. Stays
    BY <2>1, SequencerStep
  <2> QED
    BY <2>2 DEF Stays, AckWaits
<1>2. ASSUME MCycle' = 1, TState' = 1, IntCycle', Auto_Wait_t2' PROVE Auto_Wait_t1'
  <2>1. ~T_Res
    BY <1>2 DEF WaitStates
  <2>2. ~Enters
    BY <2>1 DEF Enters, CycleEnds
  <2>3. MCycle = 1 /\ IntCycle
    BY <1>2, <2>2, SequencerStep DEF Stays, Advances
  <2> QED
    BY <2>1, <2>3 DEF WaitStates, Auto_Wait
<1>3. ASSUME MCycle' = 1, TState' = 2
      PROVE  /\ IntCycle' => Auto_Wait_t1' /\ Auto_Wait_t2'
             /\ On("IORQ")' => Auto_Wait_t1'
  <2>1. Stays \/ Advances
    <3>1. ~Enters
      BY <1>3 DEF Enters
    <3> QED
      BY <3>1, SequencerStep
  <2>2. MCycle = 1 /\ TState \in {1, 2} /\ UNCHANGED << NMICycle, IntCycle >>
    BY <1>3, <2>1 DEF Stays, Advances, TypeOK
  <2>3. ~T_Res
    BY <2>2, Timing DEF T_Res
  <2>4. ~(Fetches /\ wait_n)
    <3> SUFFICES ASSUME Fetches, wait_n PROVE FALSE
      OBVIOUS
    <3>1. TState = 2
      BY DEF Fetches
    <3>2. Advances
      BY <2>2, <3>1, FetchWaits
    <3> QED
      BY <1>3, <3>1, <3>2 DEF Advances
  <2>5. KeepsOpcode
    BY <2>2, <2>4, MarkStep DEF ReadsLast, SwitchesPage
  <2>6. On("IORQ")' = On("IORQ")
    BY <1>3, <2>2, <2>5, NowKept DEF On
  <2>7. IntCycle \/ On("IORQ") => Auto_Wait_t1'
    BY <2>2, <2>3 DEF WaitStates, Auto_Wait
  <2>8. IntCycle => Auto_Wait_t1
    <3>1. CASE TState = 2
      BY <2>2, <3>1 DEF AckWaits
    <3>2. CASE TState = 1
      BY <1>3, <2>2, <3>2, LeavesT1 DEF AutoWaiting, Auto_Wait, AckWaits
    <3> QED
      BY <2>2, <3>1, <3>2
  <2>9. IntCycle => Auto_Wait_t2'
    BY <2>3, <2>8 DEF WaitStates
  <2> QED
    BY <2>2, <2>6, <2>7, <2>9
<1> QED
  BY <1>1, <1>2, <1>3 DEF AckWaits
-------------------------------------------------------------------------------
LEMMA DisplacingStep ==
  ASSUME Inv, FInv, TypeOK', NEW wait_n, Sequencer(wait_n), DataPath(wait_n)
  PROVE  Displacing'
<1> USE DEF Inv, FInv
<1>a. /\ Count(Pre_XY_F_M + 1)' =
           ROMCount(IR', ISet', Pre_XY_F_M' + 1, cc', NMICycle', IntCycle', XY_State')
      /\ Pre_XY_F_M \in 0..5 /\ MCycle \in 1..7
  BY DEF Count, TypeOK
<1> SUFFICES ASSUME MCycle' \in 6..7
             PROVE  /\ XY_State' /\ Pre_XY_F_M' >= 1
                    /\ ISet' = 1 => Pre_XY_F_M' = 1
                    /\ IF Prefix' = 1
                       THEN Pre_XY_F_M' = 1 /\ MCycle' = 6 /\ TState' = 1
                       ELSE Count(Pre_XY_F_M + 1)' > Pre_XY_F_M'
  BY DEF Displacing
<1>b. ASSUME XY_State', ISet' = 1, Pre_XY_F_M' = 1
      PROVE  Prefix' # 1 /\ Count(Pre_XY_F_M + 1)' > Pre_XY_F_M'
  <2>1. Prefix' # 1 /\ ROMCount(IR', ISet', 2, cc', NMICycle', IntCycle', XY_State') > 1
    <3>1. Prefix' # 1
      BY <1>b, CountingAfter
    <3>2. ROMCount(IR', ISet', 2, cc', NMICycle', IntCycle', XY_State') > 1
      BY <1>b, CountingAfter
    <3> QED
      BY <3>1, <3>2
  <2>2. Pre_XY_F_M' + 1 = 2
    BY <1>b
  <2> QED
    BY <1>a, <1>b, <2>1, <2>2
<1>c. ASSUME KeepsOpcode, UNCHANGED << NMICycle, IntCycle >>, Pre_XY_F_M' \in 1..5,
             Count(Pre_XY_F_M' + 1) > Pre_XY_F_M'
      PROVE  Count(Pre_XY_F_M + 1)' > Pre_XY_F_M'
  BY <1>a, <1>c, SameCount
<1>1. CASE Stays \/ Advances
  <2>1. UNCHANGED << MCycle, Pre_XY_F_M, NMICycle, IntCycle >>
    BY <1>1 DEF Stays, Advances
  <2>2. /\ MCycle \in 6..7 /\ XY_State /\ Pre_XY_F_M >= 1
        /\ ISet = 1 => Pre_XY_F_M = 1
        /\ IF Prefix = 1 THEN Pre_XY_F_M = 1 /\ MCycle = 6 /\ TState = 1
           ELSE Count(Pre_XY_F_M + 1) > Pre_XY_F_M
    BY <2>1 DEF Displacing
  <2>3. CASE ReadsLast \/ SwitchesPage
    <3>1. XY_State' /\ ISet' = 1 /\ Pre_XY_F_M = 1
      BY <2>2, <2>3, Counting DEF ReadsLast, SwitchesPage
    <3> QED
      BY <2>1, <3>1, <1>b
  <2>4. CASE KeepsOpcode
    <3>1. Prefix # 1
      <4> SUFFICES ASSUME Prefix = 1 PROVE FALSE
        OBVIOUS
      <4>1. MCycle = 6 /\ TState = 1 /\ ISet = 0
        BY <2>2, Counting
      <4>2. ClkEn
        BY <4>1, Timing DEF ClkEn, GrantedAtEnd, T_Res
      <4>3. ISet' = 1
        BY <4>1, <4>2, MarkStep DEF Fetches
      <4> QED
        BY <2>4, <4>1, <4>3 DEF KeepsOpcode
    <3>2. Prefix' # 1
      BY <2>1, <2>4, <3>1, SameCount
    <3>3. Count(Pre_XY_F_M + 1)' > Pre_XY_F_M'
      BY <1>a, <1>c, <2>1, <2>2, <2>4, <3>1
    <3> QED
      BY <2>1, <2>2, <2>4, <3>2, <3>3 DEF KeepsOpcode
  <2>5. ~Fetches
    BY <2>2 DEF Fetches
  <2> QED
    BY <2>3, <2>4, <2>5, DecodeStep
<1>2. CASE FetchDisplacement
  <2>1. /\ NextIs_XY_Fetch /\ XY_State /\ ~XY_Ind /\ CycleEnds /\ T_Res
        /\ MCycle' = 6 /\ TState' = 1 /\ UNCHANGED << NMICycle, IntCycle >>
    BY <1>2 DEF FetchDisplacement, NextIs_XY_Fetch, EnterCycle, CycleEnds
  <2>2. MCycle \in 1..5
    BY <1>a, <2>1, Timing DEF T_Res, DisplacementMarked
  <2>3. KeepsOpcode
    BY <2>1, <2>2, EndMarks
  <2>4. ISet # 1
    BY <2>1 DEF IndexedOnce
  <2>5. Prefix' = Prefix /\ ISet' # 1 /\ XY_State'
    BY <2>1, <2>3, <2>4, SameCount DEF KeepsOpcode
  <2>6. CASE IR = "LDHLn" /\ ISet = 0
    <3>1. Pre_XY_F_M' = 2 /\ Prefix # 1 /\ Count(3) > 2
      BY <1>2, <2>6, Counting DEF FetchDisplacement
    <3> QED
      BY <1>c, <2>1, <2>3, <2>5, <3>1
  <2>7. CASE ~(IR = "LDHLn" /\ ISet = 0) /\ Prefix = 1
    <3>1. Pre_XY_F_M' = MCycle
      BY <1>2, <2>7 DEF FetchDisplacement
    <3>2. Count(MCycle) = 1 /\ Count(MCycle) >= MCycle
      BY <2>2, <2>7, Counting DEF CyclesCounted
    <3> QED
      BY <2>1, <2>2, <2>5, <2>7, <3>1, <3>2
  <2>8. CASE ~(IR = "LDHLn" /\ ISet = 0) /\ Prefix # 1
    <3>1. Pre_XY_F_M' = MCycle
      BY <1>2, <2>8 DEF FetchDisplacement
    <3>2. On("aXY")
      BY <2>1, <2>8, Counting DEF NextIs_XY_Fetch
    <3>3. Count(MCycle + 1) > MCycle
      BY <2>2, <3>2, Counting
    <3> QED
      BY <1>c, <2>1, <2>2, <2>3, <2>5, <2>8, <3>1, <3>3
  <2> QED
    BY <2>6, <2>7, <2>8
<1>3. CASE ResumeAfterDisplacement
  <2>1. MCycle = 7 /\ MCycle' = Pre_XY_F_M + 1
    BY <1>3 DEF ResumeAfterDisplacement, EnterCycle
  <2>2. Count(Pre_XY_F_M + 1) > Pre_XY_F_M
    BY <2>1 DEF Displacing
  <2>3. Pre_XY_F_M + 1 \in 6..7 /\ Pre_XY_F_M + 1 \in 1..7
    BY <1>a, <2>1
  <2>4. Count(Pre_XY_F_M + 1) \in 1..5
    BY <2>3, Counting
  <2> QED
    BY <1>a, <2>2, <2>3, <2>4
<1>4. CASE NextMachineCycle
  <2>1. /\ CycleEnds /\ T_Res /\ ~NextIs_XY_Fetch /\ ~Completes /\ MCycle' = MCycle + 1
        /\ UNCHANGED << Pre_XY_F_M, NMICycle, IntCycle >> /\ MCycle \in 5..6
    BY <1>4, <1>a DEF NextMachineCycle, EnterCycle, CycleEnds
  <2>2. MCycle = 6
    BY <2>1, GoesOn
  <2>3. TState = 3
    BY <2>1, <2>2, Timing DEF T_Res
  <2>4. /\ XY_State /\ Pre_XY_F_M >= 1 /\ (ISet = 1 => Pre_XY_F_M = 1)
        /\ Prefix # 1 /\ Count(Pre_XY_F_M + 1) > Pre_XY_F_M
    BY <2>2, <2>3 DEF Displacing
  <2>5. KeepsOpcode
    <3>1. ~Fetches
      BY <2>2 DEF Fetches
    <3>2. ~ReadsLast
      BY <2>2 DEF ReadsLast
    <3>3. ~SwitchesPage
      BY <2>4 DEF SwitchesPage
    <3> QED
      BY <3>1, <3>2, <3>3, DecodeStep
  <2>6. Count(Pre_XY_F_M + 1)' > Pre_XY_F_M'
    BY <1>a, <1>c, <2>1, <2>4, <2>5
  <2>7. Prefix' # 1
    BY <2>1, <2>4, <2>5, SameCount
  <2> QED
    BY <2>1, <2>4, <2>5, <2>6, <2>7 DEF KeepsOpcode
<1>5. CASE EndInstruction
  BY <1>5 DEF EndInstruction, EnterCycle
<1> QED
  BY <1>1, <1>2, <1>3, <1>4, <1>5, SequencerStep
-------------------------------------------------------------------------------
\* No displacement cycle belongs to a prefix, but for the first T state of the one of CB.
LEMMA PrefixInDisplacement ==
  ASSUME Inv, FInv, MCycle \in 6..7, Prefix # 0
  PROVE  Prefix = 1 /\ MCycle = 6 /\ TState = 1
<1> USE DEF Inv, FInv
<1>1. Pre_XY_F_M \in 0..5
  BY DEF TypeOK
<1>2. SUFFICES ASSUME Prefix # 1 PROVE FALSE
  BY DEF Displacing
<1>3. Pre_XY_F_M >= 1 /\ Count(Pre_XY_F_M + 1) > Pre_XY_F_M
  BY <1>2 DEF Displacing
<1>4. Count(Pre_XY_F_M + 1) = 1
  BY <1>1, Counting
<1> QED
  BY <1>1, <1>3, <1>4

LEMMA IndexedStep ==
  ASSUME Inv, FInv, TypeOK', NEW wait_n, Sequencer(wait_n), DataPath(wait_n)
  PROVE  IndexedOnce'
<1> USE DEF Inv, FInv
<1>a. Prefix' # 0 => ISet' = 0
  BY CountingAfter
<1>1. CASE Fetches /\ wait_n
  <2>1. MCycle = 1 /\ TState = 2 /\ FetchOpcode
    BY <1>1 DEF Fetches
  <2>2. XY_Ind' = FALSE
    BY <2>1 DEF FetchOpcode, IndexedOnce
  <2>3. ISet' = 1 => Prefix = 1 /\ XY_State' = XY_State
    BY <2>1, Prefixing DEF FetchOpcode
  <2>4. ~(ISet' = 1 /\ XY_State')
    BY <2>1, <2>3 DEF IndexedOnce
  <2>5. TState' = 3
    <3>1. Advances
      BY <1>1, <2>1, FetchWaits
    <3> QED
      BY <2>1, <3>1 DEF Advances
  <2> QED
    BY <2>2, <2>4, <2>5 DEF IndexedOnce
<1>2. CASE ~(Fetches /\ wait_n)
  <2>1. /\ XY_Ind' = (XY_Ind \/ (MCycle = 6 /\ ClkEn))
        /\ ReadsLast \/ (SwitchesPage /\ ClkEn) \/ KeepsOpcode
        /\ MCycle = 6 /\ ClkEn /\ Prefix = 1 => ISet' = 1
    BY <1>2, MarkStep
  <2>2. CASE ReadsLast
    <3>1. ISet' = 1 /\ XY_Ind
      BY <2>2 DEF ReadsLast, DisplacementMarked
    <3>2. Prefix' = 0
      BY <1>a, <3>1
    <3>3. XY_Ind'
      BY <2>1, <3>1
    <3> QED
      BY <3>2, <3>3 DEF IndexedOnce
  <2>3. CASE SwitchesPage /\ ClkEn
    <3>1. ISet' = 1 /\ MCycle = 6
      BY <2>3 DEF SwitchesPage
    <3>2. Prefix' = 0
      BY <1>a, <3>1
    <3>3. XY_Ind'
      BY <2>1, <2>3, <3>1
    <3> QED
      BY <3>2, <3>3 DEF IndexedOnce
  <2>4. CASE KeepsOpcode
    <3>1. Prefix' = Prefix /\ ISet' = ISet /\ XY_State' = XY_State
      BY <2>4 DEF KeepsOpcode, Prefix
    <3>2. XY_Ind' => Prefix \notin {1, 3}
      <4>1. CASE XY_Ind
        BY <4>1 DEF IndexedOnce
      <4>2. CASE MCycle = 6 /\ ClkEn
        <5>1. Prefix # 1
          BY <2>1, <3>1, <4>2, Counting
        <5>2. Prefix # 3
          BY <4>2, PrefixInDisplacement
        <5> QED
          BY <5>1, <5>2
      <4> QED
        BY <2>1, <4>1, <4>2
    <3>3. ISet = 1 /\ XY_State => XY_Ind'
      BY <2>1 DEF IndexedOnce
    <3>4. ASSUME Prefix = 1, XY_State, MCycle' = 1 PROVE TState' >= 3
      <4>1. CASE Stays \/ Advances
        BY <3>4, <4>1 DEF Stays, Advances, IndexedOnce, TypeOK
      <4>2. CASE ResumeAfterDisplacement
        <5>1. MCycle = 7
          BY <4>2 DEF ResumeAfterDisplacement
        <5> QED
          BY <3>4, <5>1, PrefixInDisplacement
      <4>3. CASE EndInstruction
        <5>1. Completes /\ ~NextIs_XY_Fetch /\ T_Res
          BY <4>3 DEF EndInstruction, Completes, CycleEnds
        <5>2. IR = "CB" /\ ISet = 0 /\ ~XY_Ind
          BY <3>4, Counting DEF IndexedOnce
        <5>3. MCycle # 1
          BY <3>4, <5>1, <5>2 DEF NextIs_XY_Fetch
        <5>4. MCycle \notin 2..5
          BY <3>4, Counting DEF CyclesCounted
        <5>5. MCycle \notin 6..7
          BY <3>4, <5>1, PrefixInDisplacement, Timing DEF T_Res
        <5> QED
          BY <5>3, <5>4, <5>5 DEF TypeOK
      <4>4. ~FetchDisplacement /\ ~NextMachineCycle
        BY <3>4 DEF FetchDisplacement, NextMachineCycle, EnterCycle, TypeOK
      <4> QED
        BY <4>1, <4>2, <4>3, <4>4, SequencerStep
    <3> QED
      BY <3>1, <3>2, <3>3, <3>4 DEF IndexedOnce
  <2> QED
    BY <2>1, <2>2, <2>3, <2>4
<1> QED
  BY <1>1, <1>2
-------------------------------------------------------------------------------
LEMMA CompletesEnds ==
  ASSUME Inv, NEW wait_n, Sequencer(wait_n), Completes
  PROVE  EndInstruction
<1> USE DEF Inv
<1>1. T_Res /\ TState # 2
  BY Timing DEF Completes, CycleEnds, T_Res
<1> QED
  BY <1>1 DEF Sequencer, HoldForBus, StretchT2, Waiting, GrantBus, FetchDisplacement,
     ResumeAfterDisplacement, NextMachineCycle, StretchT1, NextTState, Completes, CycleEnds

LEMMA M1Step ==
  ASSUME Inv, FInv, NEW wait_n \in BOOLEAN, Sequencer(wait_n), HaltAndM1(wait_n)
  PROVE  M1MarksFetch'
<1> USE DEF Inv, FInv
<1>1. CASE TState = 0
  <2>1. MCycle = 1 /\ ~T_Res /\ M1_n' = FALSE
    BY <1>1, Timing DEF AckWaits, T_Res, HaltAndM1
  <2>2. ~Enters
    BY <2>1 DEF Enters, CycleEnds
  <2>3. Stays \/ Advances
    BY <2>2, SequencerStep
  <2>4. MCycle' = 1 /\ TState' \in 0..1
    BY <1>1, <2>1, <2>3 DEF Stays, Advances
  <2> QED
    BY <2>1, <2>4 DEF M1MarksFetch
<1>2. CASE Completes
  <2>1. MCycle' = 1 /\ TState' = 1
    BY <1>2, CompletesEnds DEF EndInstruction, EnterCycle
  <2>2. M1_n' = FALSE
    BY <1>2 DEF HaltAndM1
  <2> QED
    BY <2>1, <2>2 DEF M1MarksFetch
<1>3. CASE TState # 0 /\ ~Completes /\ MCycle = 1 /\ TState = 2
  <2>1. M1_n' <=> wait_n
    <3>1. M1_n = FALSE
      BY <1>3 DEF M1MarksFetch, TypeOK
    <3> QED
      BY <1>3, <3>1 DEF HaltAndM1
  <2>2. IF wait_n THEN Advances ELSE Stays
    BY <1>3, FetchWaits
  <2>3. CASE wait_n
    <3>1. Advances
      BY <2>2, <2>3
    <3>2. TState' = 3
      BY <1>3, <3>1 DEF Advances
    <3> QED
      BY <2>1, <2>3, <3>2 DEF M1MarksFetch
  <2>4. CASE ~wait_n
    <3>1. Stays
      BY <2>2, <2>4
    <3>2. MCycle' = 1 /\ TState' = 2
      BY <1>3, <3>1 DEF Stays
    <3> QED
      BY <2>1, <2>4, <3>2 DEF M1MarksFetch
  <2> QED
    BY <2>3, <2>4
<1>4. CASE TState # 0 /\ ~Completes /\ MCycle = 1 /\ TState = 1
  <2>1. M1_n' = FALSE /\ ~T_Res
    BY <1>4, Timing DEF M1MarksFetch, HaltAndM1, T_Res, TypeOK
  <2>2. ~Enters
    BY <2>1 DEF Enters, CycleEnds
  <2>3. Stays \/ Advances
    BY <2>2, SequencerStep
  <2>4. MCycle' = 1 /\ TState' \in 1..2
    BY <1>4, <2>3 DEF Stays, Advances
  <2> QED
    BY <2>1, <2>4 DEF M1MarksFetch
<1>5. CASE TState # 0 /\ ~Completes /\ ~(MCycle = 1 /\ TState \in 1..2)
  <2>1. M1_n' = TRUE
    BY <1>5 DEF M1MarksFetch, HaltAndM1, TypeOK
  <2>2. ASSUME MCycle' = 1, TState' \in 1..2 PROVE FALSE
    <3>1. ~Stays
      BY <1>5, <2>2 DEF Stays
    <3>2. ~Advances
      BY <1>5, <2>2 DEF Advances, TypeOK
    <3>3. ~FetchDisplacement /\ ~EndInstruction
      BY <1>5, <2>2 DEF FetchDisplacement, EndInstruction, EnterCycle
    <3>4. ~NextMachineCycle
      BY <2>2 DEF NextMachineCycle, EnterCycle, TypeOK
    <3>5. ~ResumeAfterDisplacement
      BY <2>2 DEF ResumeAfterDisplacement, EnterCycle, Displacing, TypeOK
    <3> QED
      BY <3>1, <3>2, <3>3, <3>4, <3>5, SequencerStep
  <2> QED
    BY <2>1, <2>2 DEF M1MarksFetch
<1> QED
  BY <1>1, <1>2, <1>3, <1>4, <1>5
-------------------------------------------------------------------------------
LEMMA FInit == Init => FInv
<1> SUFFICES ASSUME Init PROVE FInv
  OBVIOUS
<1>1. TypeOK /\ Prefix = 0
  <2>1. TypeOK
    BY InitInv DEF Inv
  <2> QED
    BY <2>1, Counting, Prefixing DEF Init
<1>2. CyclesCounted
  BY <1>1, Counting DEF Init, CyclesCounted
<1> QED
  BY <1>1, <1>2 DEF Init, FInv, CountSettled, Displacing, IndexedOnce, AckWaits, M1MarksFetch

LEMMA FReset ==
  ASSUME Inv, Reset
  PROVE  FInv'
<1>1. TypeOK'
  BY ResetInv DEF Inv
<1>2. CyclesCounted'
  <2>1. Count(MCycle)' = ROMCount(IR', ISet', 1, cc', NMICycle', IntCycle', XY_State')
    BY DEF Reset, Count
  <2> QED
    BY <1>1, <2>1, CountingAfter DEF Reset, CyclesCounted
<1> QED
  BY <1>2 DEF Reset, FInv, CountSettled, Displacing, IndexedOnce, AckWaits, M1MarksFetch

LEMMA FClock ==
  ASSUME Inv, FInv, NEW wait_n \in BOOLEAN, Clock(wait_n)
  PROVE  FInv'
<1>1. TypeOK'
  BY TypeStep
<1>2. Sequencer(wait_n) /\ DataPath(wait_n) /\ HaltAndM1(wait_n) /\ WaitStates
  BY DEF Clock, Step
<1>3. CountSettled' /\ CyclesCounted' /\ Displacing'
  BY <1>1, <1>2, SettledStep, CountedStep, DisplacingStep
<1>4. IndexedOnce' /\ AckWaits' /\ M1MarksFetch'
  BY <1>1, <1>2, IndexedStep, AckStep, M1Step
<1> QED
  BY <1>3, <1>4 DEF FInv

\* Every reachable state of the core satisfies FInv.
THEOREM FetchInvariance == Spec => []FInv
<1>1. Inv /\ FInv /\ [Next]_vars => FInv'
  <2> SUFFICES ASSUME Inv, FInv, [Next]_vars PROVE FInv'
    OBVIOUS
  <2>1. CASE Next
    <3>1. WaitInputs \subseteq BOOLEAN
      BY DEF WaitInputs
    <3> QED
      BY <2>1, <3>1, FClock, FReset DEF Next
  <2>2. CASE UNCHANGED vars
    BY <2>2 DEF vars, sequencer, datapath, decoded, waits, irqs, FInv, CountSettled,
       CyclesCounted, Displacing, IndexedOnce, AckWaits, M1MarksFetch, Count, Prefix, On, now
  <2> QED
    BY <2>1, <2>2
<1> QED
  BY Invariance, FInit, <1>1, PTL DEF Spec

\* M1_n is low in the two clocks of an opcode fetch and nowhere else, whatever the microcode
\* makes of an opcode, and through prefixes, displacements, wait states, bus grants and
\* resets (T80.vhd:1363-1365, 1394, 1420-1422).
THEOREM FetchMarked == Spec => []M1MarksFetch
<1>1. FInv => M1MarksFetch
  BY DEF FInv
<1> QED
  BY FetchInvariance, <1>1, PTL
-------------------------------------------------------------------------------
(***************************************************************************)
(* Opcodes and operands are read at PC.                                     *)
(***************************************************************************)
\* What the microcode raises in machine cycle mc.
Out(mc) == ROMCycle(IR, ISet, mc, cc, NMICycle, IntCycle, XY_State).out

\* No_BTR, a register, knows by the end of a machine cycle whether it is the last round.
RoundsSettled ==
  \/ MCycle \in 2..5 /\ TState >= 2
  \/ MCycle = 6 /\ TState >= 3
  \/ MCycle = 1 /\ TState >= 4
  => (No_BTR <=> EndsRounds(now.out, cc))

\* The end of the machine cycle puts A at PC.
Prepares == MCycle # 7 /\ (NextIs_XY_Fetch \/ LeavesPC(now.out, cc))

\* A is at PC where it is needed, and while the bus is away where it will be.
AtPC ==
  /\ TState = 0 => A = PC
  /\ MCycle \in {1, 6} /\ TState \in 1..2 => A = PC
  /\ TakesOperand(now.out) /\ MCycle # 1 /\ TState \in 1..2 => A = PC
  /\ BusAck /\ TState # 0 /\ Prepares => A = PC

\* After a displacement the instruction goes on with an access to memory.
GoesOnElsewhere == MCycle \in 6..7 /\ Prefix # 1 => ~TakesOperand(Out(Pre_XY_F_M + 1))

AInv == RoundsSettled /\ AtPC /\ GoesOnElsewhere

LEMMA AddressInstance ==
  ASSUME NEW ir \in AllOpcodes, NEW iset \in 0..2, Decodes(ir, iset),
         NEW c \in BOOLEAN, NEW n \in BOOLEAN, NEW i \in BOOLEAN, NEW x \in BOOLEAN
  PROVE  Addressed(ir, iset, c, n, i, x)
<1>1. AddressAssumption
  BY CoreAssumption DEF MicrocodeAssumption
<1> QED
  BY <1>1, SMTT(20) DEF AddressAssumption

LEMMA AddressRules ==
  ASSUME TypeOK
  PROVE  /\ \A mc \in 1..6 :
              \/ LeavesPC(Out(mc), cc)
              \/ /\ Count(mc) # mc
                 /\ ~EndsRounds(Out(mc), cc) /\ ~("I_DJNZ" \in Out(mc) /\ mc = 2 /\ ~cc)
                 /\ ~TakesOperand(Out(mc + 1))
         /\ XY_State /\ ISet = 0 /\ IR \in {"CB", "LDHLn"} => LeavesPC(Out(1), cc)
         /\ XY_State /\ ISet = 0 /\ IR = "LDHLn" => ~TakesOperand(Out(3))
         /\ \A mc \in 2..7 : "IORQ" \in Out(mc) => mc < 6 /\ ~TakesOperand(Out(mc))
         /\ \A mc \in 1..6 :
              "aXY" \in Out(mc) => "aReg" \notin Out(mc) /\ "I_BTR" \notin Out(mc)
         /\ now.out = Out(MCycle)
<1>1. Addressed(IR, ISet, cc, NMICycle, IntCycle, XY_State)
  BY ArgumentTypes, AddressInstance
<1> QED
  BY <1>1 DEF Addressed, Out, Count, now

\* The last byte of a DD CB instruction is its opcode: what it does next is not at PC.
LEMMA IndexedAfter ==
  ASSUME TypeOK', ISet' = 1, XY_State'
  PROVE  ~TakesOperand(ROMCycle(IR', ISet', 2, cc', NMICycle', IntCycle', XY_State').out)
<1>1. /\ IR' \in AllOpcodes /\ ISet' \in 0..2 /\ Decodes(IR', ISet')
      /\ cc' \in BOOLEAN /\ NMICycle' \in BOOLEAN /\ IntCycle' \in BOOLEAN
      /\ XY_State' \in BOOLEAN
  BY DEF TypeOK
<1>2. Addressed(IR', ISet', cc', NMICycle', IntCycle', XY_State')
  BY <1>1, AddressInstance
<1> QED
  BY <1>2 DEF Addressed

LEMMA SameOut ==
  ASSUME KeepsOpcode, UNCHANGED << NMICycle, IntCycle >>
  PROVE  /\ Prefix' = Prefix /\ cc' = cc
         /\ now' = ROMCycle(IR, ISet, MCycle', cc, NMICycle, IntCycle, XY_State)
         /\ \A mc : ROMCycle(IR', ISet', mc, cc', NMICycle', IntCycle', XY_State').out = Out(mc)
BY DEF KeepsOpcode, Out, Prefix, now

\* At the last T state of a machine cycle the opcode is settled.
LEMMA AtEnd ==
  ASSUME Inv, FInv, NEW wait_n, DataPath(wait_n), T_Res
  PROVE  /\ KeepsOpcode /\ XY_Ind' = XY_Ind
         /\ IF ClkEn THEN EndOfCycle ELSE UNCHANGED << PC, A >>
<1> USE DEF Inv, FInv
<1>1. /\ TState >= 3 /\ (MCycle = 1 => TState >= 4)
      /\ (MCycle = 6 => TState = 3) /\ (MCycle = 7 => TState = 5)
  BY Timing DEF T_Res, TypeOK
<1>2. CASE ~ClkEn
  BY <1>2 DEF DataPath, datapath, decoded, KeepsOpcode
<1>3. CASE ClkEn
  <2>1. IndexPage /\ EndOfCycle /\ IR' = IR
    <3>1. ~(MCycle = 1 /\ TState < 4) /\ TState # 2
      BY <1>1 DEF TypeOK
    <3> QED
      BY <1>3, <3>1 DEF DataPath
  <2>2. ISet' = ISet
    BY <1>1, <2>1 DEF IndexPage, Displacing
  <2>3. XY_Ind' = XY_Ind
    BY <1>1, <2>1 DEF IndexPage, DisplacementMarked, TypeOK
  <2> QED
    BY <1>3, <2>1, <2>2, <2>3 DEF IndexPage, KeepsOpcode
<1> QED
  BY <1>2, <1>3

LEMMA Settled ==
  ASSUME TypeOK, RoundsSettled, T_Res, MCycle # 7
  PROVE  No_BTR <=> EndsRounds(now.out, cc)
<1>1. TState >= 3 /\ (MCycle = 1 => TState >= 4) /\ MCycle \in 1..6
  BY Timing DEF T_Res, TypeOK
<1>2. \/ MCycle \in 2..5 /\ TState >= 2
      \/ MCycle = 6 /\ TState >= 3
      \/ MCycle = 1 /\ TState >= 4
  BY <1>1 DEF TypeOK
<1> QED
  BY <1>2 DEF RoundsSettled

\* The end of a machine cycle puts A at PC, or has put it there when the bus was given away.
LEMMA EndsAtPC ==
  ASSUME Inv, FInv, AInv, NEW wait_n, DataPath(wait_n), T_Res, Prepares
  PROVE  A' = PC'
<1> USE DEF Inv, FInv, AInv
<1>1. /\ TState >= 3 /\ (MCycle = 1 => TState >= 4) /\ MCycle \in 1..6
  BY Timing DEF T_Res, TypeOK, Prepares
<1>2. CASE ~ClkEn
  <2>1. A = PC
    BY <1>1, <1>2 DEF ClkEn, AtPC
  <2> QED
    BY <1>2, <2>1, AtEnd
<1>3. CASE ClkEn
  <2>1. EndOfCycle
    BY <1>3, AtEnd
  <2>2. No_BTR <=> EndsRounds(now.out, cc)
    BY <1>1, Settled
  <2>3. LeavesPC(now.out, cc) \/ (NextIs_XY_Fetch /\ On("aXY"))
    <3>1. CASE NextIs_XY_Fetch /\ ~On("aXY")
      <4>1. MCycle = 1 /\ XY_State /\ ISet = 0 /\ IR \in {"CB", "LDHLn"}
        BY <3>1 DEF NextIs_XY_Fetch
      <4> QED
        BY <4>1, AddressRules
    <3> QED
      BY <3>1 DEF Prepares
  <2>4. NextAddress = PC
    <3>1. CASE NextIs_XY_Fetch /\ On("aXY")
      <4>1. ~On("aReg") /\ ~On("I_BTR")
        BY <1>1, <3>1, AddressRules DEF On
      <4> QED
        BY <3>1, <4>1 DEF NextAddress, On
    <3>2. CASE LeavesPC(now.out, cc)
      <4>1. ~On("aXY") /\ ~On("aReg")
        BY <3>2 DEF LeavesPC, On
      <4>2. ~(On("I_BTR") /\ ~On("One") /\ ~No_BTR)
        BY <2>2, <3>2 DEF LeavesPC, On
      <4>3. ~On("No_PC") \/ No_BTR \/ DJNZExhausted
        BY <2>2, <3>2 DEF LeavesPC, On, DJNZExhausted
      <4> QED
        BY <4>1, <4>2, <4>3 DEF NextAddress, On
    <3> QED
      BY <2>3, <3>1, <3>2
  <2> QED
    BY <2>1, <2>4 DEF EndOfCycle
<1> QED
  BY <1>2, <1>3

\* Whatever makes a machine cycle the last one of its instruction, it leaves A at PC.
LEMMA CompletesAtPC ==
  ASSUME Inv, FInv, AInv, Completes
  PROVE  Prepares
<1> USE DEF Inv, FInv, AInv
<1>1. T_Res /\ MCycle \in 1..6 /\ MCycles \in 0..5
  BY DEF Completes, CycleEnds, TypeOK
<1>2. TState >= 3 /\ (MCycle = 1 => TState >= 4)
  BY <1>1, Timing DEF T_Res
<1>a. now.out = Out(MCycle)
  BY AddressRules
<1>b. ASSUME LeavesPC(Out(MCycle), cc) PROVE Prepares
  BY <1>1, <1>a, <1>b DEF Prepares
<1>3. CASE MCycle = MCycles
  <2>1. MCycle \in 1..5 /\ TState \in 0..6
    BY <1>1, <1>3 DEF TypeOK
  <2>2. MCycle = 1 => Count(MCycle) = MCycle
    BY <1>2, <1>3 DEF CountKnown, Count, TypeOK
  <2>3. MCycle \in 2..5 => Count(MCycle) = MCycle
    BY <1>2, <1>3, <2>1 DEF CountSettled
  <2>4. Count(MCycle) = MCycle
    BY <2>1, <2>2, <2>3
  <2>5. LeavesPC(Out(MCycle), cc)
    BY <1>1, <2>4, AddressRules
  <2> QED
    BY <1>b, <2>5
<1>4. CASE No_BTR
  <2>1. EndsRounds(now.out, cc)
    BY <1>1, <1>4, Settled
  <2>2. EndsRounds(Out(MCycle), cc)
    BY <1>a, <2>1
  <2>3. LeavesPC(Out(MCycle), cc)
    BY <1>1, <2>2, AddressRules
  <2> QED
    BY <1>b, <2>3
<1>5. CASE MCycle = 2 /\ DJNZExhausted
  <2>1. "I_DJNZ" \in Out(2) /\ ~cc /\ now.out = Out(2)
    BY <1>5, AddressRules DEF DJNZExhausted, On
  <2>2. LeavesPC(Out(2), cc)
    BY <2>1, AddressRules
  <2> QED
    BY <1>5, <2>1, <2>2 DEF Prepares
<1> QED
  BY <1>3, <1>4, <1>5 DEF Completes
-------------------------------------------------------------------------------
LEMMA RoundsStep ==
  ASSUME Inv, FInv, NEW wait_n, Sequencer(wait_n), DataPath(wait_n), WaitStates
  PROVE  RoundsSettled'
<1> USE DEF Inv, FInv
<1> SUFFICES ASSUME \/ MCycle' \in 2..5 /\ TState' >= 2
                    \/ MCycle' = 6 /\ TState' >= 3
                    \/ MCycle' = 1 /\ TState' >= 4
             PROVE  No_BTR' <=> EndsRounds(now'.out, cc')
  BY DEF RoundsSettled
<1>1. /\ MCycle' = MCycle /\ UNCHANGED << NMICycle, IntCycle >>
      /\ TState' = TState \/ TState' = TState + 1
  <2>1. ~Enters
    BY DEF Enters
  <2> QED
    BY <2>1, SequencerStep DEF Stays, Advances
<1>2. KeepsOpcode
  <2>1. ~Fetches /\ ~ReadsLast
    BY <1>1 DEF Fetches, ReadsLast, TypeOK
  <2>2. ~SwitchesPage
    BY <1>1 DEF SwitchesPage, Displacing, TypeOK
  <2> QED
    BY <2>1, <2>2, DecodeStep
<1>3. now' = now /\ cc' = cc
  BY <1>1, <1>2, NowKept DEF KeepsOpcode
<1>4. No_BTR' <=> EndsRounds(now.out, cc)
  BY DEF WaitStates, On, EndsRounds
<1> QED
  BY <1>3, <1>4

LEMMA ElsewhereStep ==
  ASSUME Inv, FInv, AInv, TypeOK', NEW wait_n, Sequencer(wait_n), DataPath(wait_n)
  PROVE  GoesOnElsewhere'
<1> USE DEF Inv, FInv, AInv
<1>a. /\ Out(Pre_XY_F_M + 1)' =
           ROMCycle(IR', ISet', Pre_XY_F_M' + 1, cc', NMICycle', IntCycle', XY_State').out
      /\ Pre_XY_F_M \in 0..5 /\ MCycle \in 1..7
  BY DEF Out, TypeOK
<1> SUFFICES ASSUME MCycle' \in 6..7, Prefix' # 1
             PROVE  ~TakesOperand(Out(Pre_XY_F_M + 1)')
  BY DEF GoesOnElsewhere
<1>b. ASSUME XY_State', ISet' = 1, Pre_XY_F_M' = 1
      PROVE  ~TakesOperand(Out(Pre_XY_F_M + 1)')
  <2>1. Pre_XY_F_M' + 1 = 2
    BY <1>b
  <2> QED
    BY <1>a, <1>b, <2>1, IndexedAfter
<1>1. CASE Stays \/ Advances
  <2>1. UNCHANGED << MCycle, Pre_XY_F_M, NMICycle, IntCycle >> /\ MCycle \in 6..7
    BY <1>1 DEF Stays, Advances
  <2>2. CASE ReadsLast \/ SwitchesPage
    <3>1. XY_State' /\ ISet' = 1 /\ Pre_XY_F_M = 1
      BY <2>1, <2>2, Counting DEF Displacing, ReadsLast, SwitchesPage
    <3> QED
      BY <2>1, <3>1, <1>b
  <2>3. CASE KeepsOpcode
    <3>1. Out(Pre_XY_F_M + 1)' = Out(Pre_XY_F_M + 1) /\ Prefix # 1
      BY <1>a, <2>1, <2>3, SameOut
    <3> QED
      BY <2>1, <3>1 DEF GoesOnElsewhere
  <2>4. ~Fetches
    BY <2>1 DEF Fetches
  <2> QED
    BY <2>2, <2>3, <2>4, DecodeStep
<1>2. CASE FetchDisplacement
  <2>1. /\ NextIs_XY_Fetch /\ XY_State /\ ~XY_Ind /\ T_Res
        /\ UNCHANGED << NMICycle, IntCycle >>
    BY <1>2 DEF FetchDisplacement, NextIs_XY_Fetch, EnterCycle, CycleEnds
  <2>2. MCycle \in 1..5
    BY <1>a, <2>1, Timing DEF T_Res, DisplacementMarked
  <2>3. KeepsOpcode
    BY <2>1, AtEnd
  <2>4. Out(Pre_XY_F_M + 1)' = Out(Pre_XY_F_M' + 1) /\ Prefix # 1
    BY <1>a, <2>1, <2>3, SameOut
  <2>5. CASE IR = "LDHLn" /\ ISet = 0
    <3>1. Pre_XY_F_M' = 2 /\ ~TakesOperand(Out(3))
      BY <1>2, <2>1, <2>5, AddressRules DEF FetchDisplacement
    <3>2. Pre_XY_F_M' + 1 = 3
      BY <3>1
    <3> QED
      BY <2>4, <3>1, <3>2
  <2>6. CASE ~(IR = "LDHLn" /\ ISet = 0)
    <3>1. Pre_XY_F_M' = MCycle
      BY <1>2, <2>6 DEF FetchDisplacement
    <3>2. "aXY" \in Out(MCycle)
      BY <2>1, <2>4, <2>6, Counting, AddressRules DEF NextIs_XY_Fetch, On
    <3>3. ~LeavesPC(Out(MCycle), cc)
      BY <3>2 DEF LeavesPC
    <3>4. ~TakesOperand(Out(MCycle + 1))
      BY <2>2, <3>3, AddressRules
    <3> QED
      BY <2>4, <3>1, <3>4
  <2> QED
    BY <2>5, <2>6
<1>3. CASE ResumeAfterDisplacement
  <2>1. MCycle = 7 /\ MCycle' = Pre_XY_F_M + 1
    BY <1>3 DEF ResumeAfterDisplacement, EnterCycle
  <2>2. Count(Pre_XY_F_M + 1) > Pre_XY_F_M
    BY <2>1 DEF Displacing
  <2>3. Pre_XY_F_M + 1 \in 6..7 /\ Pre_XY_F_M + 1 \in 1..7
    BY <1>a, <2>1
  <2>4. Count(Pre_XY_F_M + 1) \in 1..5
    BY <2>3, Counting
  <2> QED
    BY <1>a, <2>2, <2>3, <2>4
<1>4. CASE NextMachineCycle
  <2>1. /\ CycleEnds /\ T_Res /\ ~NextIs_XY_Fetch /\ ~Completes /\ MCycle' = MCycle + 1
        /\ UNCHANGED << Pre_XY_F_M, NMICycle, IntCycle >> /\ MCycle \in 5..6
    BY <1>4, <1>a DEF NextMachineCycle, EnterCycle, CycleEnds
  <2>2. MCycle = 6
    BY <2>1, GoesOn
  <2>3. KeepsOpcode
    BY <2>1, AtEnd
  <2>4. Out(Pre_XY_F_M + 1)' = Out(Pre_XY_F_M + 1) /\ Prefix # 1
    BY <1>a, <2>1, <2>3, SameOut
  <2> QED
    BY <2>2, <2>4 DEF GoesOnElsewhere
<1>5. CASE EndInstruction
  BY <1>5 DEF EndInstruction, EnterCycle
<1> QED
  BY <1>1, <1>2, <1>3, <1>4, <1>5, SequencerStep
-------------------------------------------------------------------------------
\* In the first T state of a machine cycle, and while T2 is stretched, A and PC stand still.
LEMMA StaysAtPC ==
  ASSUME Inv, FInv, AInv, NEW wait_n \in BOOLEAN, Sequencer(wait_n), DataPath(wait_n),
         Stays \/ Advances, TState' \in 0..2
  PROVE  /\ TState' = 0 => A' = PC'
         /\ MCycle' \in {1, 6} /\ TState' \in 1..2 => A' = PC'
         /\ TakesOperand(now'.out) /\ MCycle' # 1 /\ TState' \in 1..2 => A' = PC'
<1> USE DEF Inv, FInv, AInv
<1>1. /\ MCycle' = MCycle /\ UNCHANGED << NMICycle, IntCycle >>
      /\ Stays => TState' = TState
      /\ Advances => TState' = TState + 1
      /\ TState \in 0..2 /\ TState' \in TState .. TState + 1
  BY DEF Stays, Advances, TypeOK
<1>2. ~T_Res
  BY <1>1, Timing DEF T_Res
<1>3. CASE MCycle = 1
  <2>1. ASSUME TState = 2, wait_n PROVE FALSE
    <3>1. Advances
      BY <1>3, <2>1, FetchWaits
    <3> QED
      BY <1>1, <2>1, <3>1
  <2>2. UNCHANGED << PC, A >>
    BY <1>1, <1>3, <2>1 DEF DataPath, datapath
  <2>3. A = PC
    BY <1>1, <1>3 DEF AtPC
  <2> QED
    BY <2>2, <2>3
<1>4. CASE MCycle # 1
  <2>1. TState \in 1..2 /\ ClkEn
    BY <1>1, <1>2, <1>4 DEF AckWaits, GrantedAtEnd, ClkEn
  <2>2. CASE TState = 2 /\ (wait_n \/ On("NoRead"))
    <3>1. ~Advances
      BY <1>1, <2>2 DEF Advances
    <3>2. StretchT1(wait_n)
      BY <1>1, <1>2, <1>4, <2>1, <2>2, <3>1
      DEF Sequencer, HoldForBus, Held, ClkEn, StretchT2, Waiting, GrantBus, FetchDisplacement,
          ResumeAfterDisplacement, EndInstruction, NextMachineCycle, EnterCycle, CycleEnds,
          NextTState
    <3>3. On("IORQ")
      BY <1>4, <3>2 DEF StretchT1, AutoWaiting, Auto_Wait
    <3>4. MCycle < 6 /\ ~TakesOperand(now.out)
      <4>1. MCycle \in 2..7 /\ "IORQ" \in Out(MCycle) /\ now.out = Out(MCycle)
        BY <1>4, <3>3, AddressRules DEF On, TypeOK
      <4> QED
        BY <4>1, AddressRules
    <3>5. KeepsOpcode
      BY <1>4, <3>4, DecodeStep DEF Fetches, ReadsLast, SwitchesPage
    <3>6. now' = now
      BY <1>1, <3>5, NowKept
    <3> QED
      BY <1>1, <1>4, <2>1, <2>2, <3>4, <3>6
  <2>3. CASE ~(TState = 2 /\ (wait_n \/ On("NoRead")))
    <3>1. IndexPage /\ UNCHANGED << PC, A, IR >>
      BY <1>2, <1>4, <2>1, <2>3 DEF DataPath
    <3>2. MCycle # 6 => now' = now
      <4> SUFFICES ASSUME MCycle # 6 PROVE now' = now
        OBVIOUS
      <4>1. KeepsOpcode
        BY <3>1 DEF IndexPage, KeepsOpcode
      <4> QED
        BY <1>1, <4>1, NowKept
    <3> QED
      BY <1>1, <1>4, <2>1, <3>1, <3>2 DEF AtPC
  <2> QED
    BY <2>2, <2>3
<1> QED
  BY <1>3, <1>4

\* A machine cycle that begins finds A where it needs it.
LEMMA EntersAtPC ==
  ASSUME Inv, FInv, AInv, NEW wait_n, DataPath(wait_n),
         FetchDisplacement \/ ResumeAfterDisplacement \/ EndInstruction \/ NextMachineCycle
  PROVE  /\ MCycle' \in {1, 6} => A' = PC'
         /\ TakesOperand(now'.out) /\ MCycle' # 1 => A' = PC'
<1> USE DEF Inv, FInv, AInv
<1>1. T_Res /\ CycleEnds
  BY DEF FetchDisplacement, ResumeAfterDisplacement, EndInstruction, NextMachineCycle,
         EnterCycle, CycleEnds
<1>2. KeepsOpcode /\ Prepares => A' = PC'
  BY <1>1, EndsAtPC
<1>3. KeepsOpcode
  BY <1>1, AtEnd
<1>4. CASE FetchDisplacement
  <2>1. Prepares
    BY <1>1, <1>4, Timing
    DEF FetchDisplacement, Prepares, NextIs_XY_Fetch, DisplacementMarked, T_Res
  <2> QED
    BY <1>2, <1>3, <2>1
<1>5. CASE EndInstruction
  <2>1. Prepares
    BY <1>5, CompletesAtPC DEF EndInstruction
  <2> QED
    BY <1>2, <1>3, <2>1
<1>6. CASE NextMachineCycle
  <2>1. /\ ~NextIs_XY_Fetch /\ ~Completes /\ MCycle # 7 /\ MCycle' = MCycle + 1
        /\ UNCHANGED << NMICycle, IntCycle >>
    BY <1>6 DEF NextMachineCycle, EnterCycle
  <2>2. MCycle \in 1..4 \/ MCycle = 6
    BY <1>1, <2>1, GoesOn DEF TypeOK
  <2>3. now'.out = Out(MCycle + 1)
    BY <1>3, <2>1, SameOut DEF Out
  <2>4. TakesOperand(now'.out) => Prepares
    BY <2>1, <2>2, <2>3, AddressRules DEF Prepares
  <2> QED
    BY <1>2, <1>3, <2>1, <2>2, <2>4
<1>7. CASE ResumeAfterDisplacement
  <2>1. MCycle = 7 /\ MCycle' = Pre_XY_F_M + 1 /\ UNCHANGED << NMICycle, IntCycle >>
    BY <1>7 DEF ResumeAfterDisplacement, EnterCycle
  <2>2. /\ Pre_XY_F_M >= 1 /\ Prefix # 1 /\ Count(Pre_XY_F_M + 1) > Pre_XY_F_M
        /\ Pre_XY_F_M \in 0..5
    BY <2>1 DEF Displacing, TypeOK
  <2>3. Pre_XY_F_M + 1 \in 1..7 /\ Count(Pre_XY_F_M + 1) \in 1..5
    BY <2>2, Counting
  <2>4. MCycle' \notin {1, 6}
    BY <2>1, <2>2, <2>3
  <2>5. now'.out = Out(Pre_XY_F_M + 1)
    BY <1>3, <2>1, SameOut DEF Out
  <2>6. ~TakesOperand(now'.out)
    BY <2>1, <2>2, <2>5 DEF GoesOnElsewhere
  <2> QED
    BY <2>4, <2>6
<1> QED
  BY <1>4, <1>5, <1>6, <1>7

LEMMA AtPCStep ==
  ASSUME Inv, FInv, AInv, NEW wait_n \in BOOLEAN, Sequencer(wait_n), DataPath(wait_n),
         WaitStates
  PROVE  AtPC'
<1> USE DEF Inv, FInv, AInv
<1>a. Prepares' <=> MCycle' # 7 /\ (NextIs_XY_Fetch' \/ LeavesPC(now'.out, cc'))
  BY DEF Prepares
<1>b. AtPC' <=> /\ TState' = 0 => A' = PC'
                /\ MCycle' \in {1, 6} /\ TState' \in 1..2 => A' = PC'
                /\ TakesOperand(now'.out) /\ MCycle' # 1 /\ TState' \in 1..2 => A' = PC'
                /\ BusAck' /\ TState' # 0 /\ Prepares' => A' = PC'
  BY DEF AtPC
<1>1. CASE Enters /\ ( FetchDisplacement \/ ResumeAfterDisplacement
                       \/ EndInstruction \/ NextMachineCycle )
  BY <1>1, <1>b, EntersAtPC DEF Enters
<1>2. CASE Advances
  <2>1. BusAck' = FALSE
    BY <1>2 DEF Advances
  <2> QED
    BY <1>2, <1>b, <2>1, StaysAtPC DEF TypeOK
<1>3. CASE Stays /\ (BusAck' => T_Res \/ Held)
  <2>1. ASSUME BusAck', TState' # 0, Prepares' PROVE A' = PC'
    <3>1. T_Res
      BY <1>3, <2>1 DEF Stays, Held, GrantedAtEnd
    <3>2. KeepsOpcode /\ XY_Ind' = XY_Ind
      BY <3>1, AtEnd
    <3>3. now' = now /\ cc' = cc /\ MCycle' = MCycle
      BY <1>3, <3>2, NowKept DEF Stays, KeepsOpcode
    <3>4. NextIs_XY_Fetch' => NextIs_XY_Fetch
      BY <3>2, <3>3 DEF NextIs_XY_Fetch, On, KeepsOpcode
    <3>5. Prepares
      BY <1>a, <2>1, <3>3, <3>4 DEF Prepares
    <3> QED
      BY <3>1, <3>5, EndsAtPC
  <2>2. TState' \in 0..2 =>
          /\ TState' = 0 => A' = PC'
          /\ MCycle' \in {1, 6} /\ TState' \in 1..2 => A' = PC'
          /\ TakesOperand(now'.out) /\ MCycle' # 1 /\ TState' \in 1..2 => A' = PC'
    BY <1>3, StaysAtPC
  <2> QED
    BY <1>b, <2>1, <2>2
<1> QED
  BY <1>1, <1>2, <1>3, SequencerStep

\* Every reachable state of the core satisfies AInv.
THEOREM AddressInvariance == Spec => []AInv
<1>1. Init => AInv
  BY DEF Init, AInv, RoundsSettled, AtPC, GoesOnElsewhere
<1>2. Inv /\ FInv /\ AInv /\ Inv' /\ [Next]_vars => AInv'
  <2> SUFFICES ASSUME Inv, FInv, AInv, Inv', [Next]_vars PROVE AInv'
    OBVIOUS
  <2>1. ASSUME NEW wait_n \in BOOLEAN, Clock(wait_n) PROVE AInv'
    <3>1. Sequencer(wait_n) /\ DataPath(wait_n) /\ WaitStates /\ TypeOK'
      BY <2>1 DEF Clock, Step, Inv
    <3> QED
      BY <3>1, RoundsStep, AtPCStep, ElsewhereStep DEF AInv
  <2>2. CASE Reset
    BY <2>2 DEF Reset, AInv, RoundsSettled, AtPC, GoesOnElsewhere
  <2>3. CASE UNCHANGED vars
    BY <2>3 DEF vars, sequencer, datapath, decoded, waits, irqs, AInv, RoundsSettled, AtPC,
       GoesOnElsewhere, Prepares, NextIs_XY_Fetch, Prefix, On, Out, now
  <2>4. WaitInputs \subseteq BOOLEAN
    BY DEF WaitInputs
  <2> QED
    BY <2>1, <2>2, <2>3, <2>4 DEF Next
<1> QED
  BY Invariance, FetchInvariance, <1>1, <1>2, PTL DEF Spec

\* A byte that PC will be moved past is read at PC, whatever the instructions before it were,
\* through displacements, repeats, interrupts, wait states and grants (T80.vhd:623-711).
THEOREM FetchesAtPC == Spec => []ReadsAtPC
<1>1. AInv => ReadsAtPC
  BY DEF AInv, AtPC, ReadsAtPC, TakesOperand, On
<1> QED
  BY AddressInvariance, <1>1, PTL
-------------------------------------------------------------------------------
(***************************************************************************)
(* T80 implements Z80: from here on the microcode ROM meets                 *)
(* ProgramAssumption.  PC counts modulo PCSpan.                             *)
(***************************************************************************)
LEMMA PCWidth == PCSpan \in Nat \ {0}
BY CoreAssumption DEF ConstantsAssumption

LEMMA Division ==
  ASSUME NEW a \in Nat
  PROVE  /\ Mod(a) \in PCs
         /\ a \div PCSpan \in Nat
         /\ a = PCSpan * (a \div PCSpan) + Mod(a)
BY PCWidth, Z3 DEF Mod, PCs

LEMMA NotLess ==
  ASSUME NEW u \in Nat, NEW v \in Nat, NEW r \in PCs, NEW s \in PCs,
         PCSpan * u + r = PCSpan * v + s
  PROVE  ~(u < v)
<1> SUFFICES ASSUME u < v PROVE FALSE
  OBVIOUS
<1>1. PICK d \in Nat : v = u + 1 + d
  <2>1. v - u - 1 \in Nat /\ v = u + 1 + (v - u - 1)
    OBVIOUS
  <2> QED
    BY <2>1
<1>2. PCSpan * v = PCSpan * u + PCSpan + PCSpan * d
  BY <1>1, PCWidth
<1>3. PCSpan * d \in Nat /\ PCSpan * u \in Nat
  BY <1>1, PCWidth
<1> QED
  BY <1>2, <1>3, PCWidth DEF PCs

LEMMA OneRemainder ==
  ASSUME NEW u \in Nat, NEW v \in Nat, NEW r \in PCs, NEW s \in PCs,
         PCSpan * u + r = PCSpan * v + s
  PROVE  r = s
<1>1. ~(u < v) /\ ~(v < u)
  BY NotLess
<1>2. u = v
  BY <1>1
<1>3. PCSpan * u \in Nat /\ PCSpan * u + r = PCSpan * u + s
  BY <1>2, PCWidth
<1> QED
  BY <1>3 DEF PCs

LEMMA ModPlus ==
  ASSUME NEW a \in Nat, NEW b \in Nat
  PROVE  Mod(Mod(a) + b) = Mod(a + b)
<1> DEFINE q == a \div PCSpan
           r == Mod(a) + b
           q2 == r \div PCSpan
           q3 == (a + b) \div PCSpan
<1>1. Mod(a) \in Nat /\ q \in Nat /\ a = PCSpan * q + Mod(a)
  <2>1. Mod(a) \in PCs /\ q \in Nat /\ a = PCSpan * q + Mod(a)
    BY Division
  <2> HIDE DEF q
  <2> QED
    BY <2>1, PCWidth DEF PCs
<1>2. /\ Mod(r) \in PCs /\ q2 \in Nat /\ r = PCSpan * q2 + Mod(r)
  <2>1. r \in Nat
    BY <1>1
  <2> HIDE DEF r
  <2> QED
    BY <2>1, Division
<1>3. /\ Mod(a + b) \in PCs /\ q3 \in Nat /\ a + b = PCSpan * q3 + Mod(a + b)
  <2>1. a + b \in Nat
    OBVIOUS
  <2> QED
    BY <2>1, Division
<1>4. PCSpan * (q + q2) = PCSpan * q + PCSpan * q2 /\ PCSpan * q \in Nat /\ PCSpan * q2 \in Nat
      /\ q + q2 \in Nat
  <2> HIDE DEF q, q2
  <2> QED
    BY <1>1, <1>2, PCWidth
<1>5. PCSpan * (q + q2) + Mod(r) = PCSpan * q3 + Mod(a + b)
  <2>1. r = Mod(a) + b
    OBVIOUS
  <2>2. PCSpan * q3 \in Nat
    <3> HIDE DEF q3
    <3> QED BY <1>3, PCWidth
  <2> DEFINE x == PCSpan * q
             y == PCSpan * q2
             z == PCSpan * q3
             w == PCSpan * (q + q2)
             m1 == Mod(a)
             m2 == Mod(r)
             m3 == Mod(a + b)
  <2>3. /\ a = x + m1 /\ r = y + m2 /\ a + b = z + m3 /\ w = x + y /\ r = m1 + b
        /\ x \in Nat /\ y \in Nat /\ z \in Nat /\ m1 \in Nat /\ m2 \in Nat /\ m3 \in Nat
    BY <1>1, <1>2, <1>3, <1>4, <2>1, <2>2, PCWidth DEF PCs
  <2> HIDE DEF x, y, z, w, m1, m2, m3, r
  <2>4. w + m2 = z + m3
    BY <2>3
  <2> QED
    BY <2>4 DEF w, m2, z, m3
<1> HIDE DEF q, r, q2, q3
<1>6. Mod(r) = Mod(a + b)
  BY <1>2, <1>3, <1>4, <1>5, OneRemainder
<1> QED
  BY <1>6 DEF r

LEMMA ModSame ==
  ASSUME NEW a \in PCs
  PROVE  Mod(a) = a
BY PCWidth DEF Mod, PCs

LEMMA ModTurn ==
  ASSUME NEW a \in Nat
  PROVE  Mod(a + PCSpan) = Mod(a)
<1>1. Mod(PCSpan) = 0
  BY PCWidth, Z3 DEF Mod
<1>2. Mod(Mod(PCSpan) + a) = Mod(PCSpan + a)
  BY PCWidth, ModPlus
<1>3. PCSpan + a = a + PCSpan /\ 0 + a = a
  BY PCWidth
<1> QED
  BY <1>1, <1>2, <1>3

\* Two bytes back from one byte on is one byte back.
LEMMA ModBack ==
  ASSUME NEW a \in PCs
  PROVE  Mod(Mod(a + 1) + 2 * PCSpan - 2) = Mod(a + (PCSpan - 1))
<1>1. a \in Nat /\ PCSpan - 1 \in Nat /\ 2 * PCSpan - 2 \in Nat /\ Mod(a + 1) \in Nat
  BY PCWidth, Division DEF PCs
<1>2. Mod(Mod(a + 1) + (2 * PCSpan - 2)) = Mod((a + 1) + (2 * PCSpan - 2))
  BY <1>1, ModPlus
<1>3. (a + 1) + (2 * PCSpan - 2) = (a + (PCSpan - 1)) + PCSpan
  BY <1>1, PCWidth
<1>4. Mod((a + (PCSpan - 1)) + PCSpan) = Mod(a + (PCSpan - 1))
  BY <1>1, ModTurn
<1>5. Mod(a + 1) + 2 * PCSpan - 2 = Mod(a + 1) + (2 * PCSpan - 2)
  BY <1>1, PCWidth
<1> QED
  BY <1>2, <1>3, <1>4, <1>5
-------------------------------------------------------------------------------
(***************************************************************************)
(* The invariant.  w is the opcode in IR and s what the last boundary       *)
(* showed; what relates the two to a machine cycle is constant.             *)
(***************************************************************************)
This == [ir |-> IR, iset |-> ISet, cc |-> cc, nmi |-> NMICycle, int |-> IntCycle, xy |-> XY_State]

Views == [pc : PCs, page : 0..3, ret : 0 .. PCSpan + 1, iff1 : BOOLEAN, iff2 : BOOLEAN,
          im : 0..2, halted : BOOLEAN, response : {"none", "NMI", "INT"}]

Ordinary(s) == s.response = "none" /\ ~s.halted
Responds(s) == s.response # "none"

\* The core responds to what was accepted at the boundary, and nothing is accepted
\* between a prefix and its opcode.
Answers(w, s) ==
  /\ w.nmi <=> s.response = "NMI"
  /\ w.int <=> s.response = "INT"
  /\ Responds(s) => ~s.halted
  /\ ~Ordinary(s) => s.page = 0

\* What M1 fetches: an opcode of the page, or what the core puts in its place.
Fits(w, s) ==
  /\ w.cc => w.ir \in FlagTested
  /\ IF Ordinary(s)
     THEN /\ w.xy <=> s.page = 3
          /\ ~w.xy => w.iset = s.page
          /\ w.xy => w.iset \in 0..1
          /\ w.ir \in Opcodes[w.iset] \/ (w.ir = "CB" /\ w.iset = 1 /\ w.xy)
     ELSE /\ w.iset = 0 /\ ~w.xy /\ ~w.cc
          /\ w.ir = IF s.response = "INT" /\ s.im # 2 THEN "RST" ELSE "NOP"

\* PC before the byte of machine cycle k, after it, and at the end of the cycle.
From(s, n) == Mod(s.pc + n)
Least(a, b) == IF a < b THEN a ELSE b
Displaced(w) == IF ~w.xy THEN 0
                ELSE IF w.iset = 1 THEN 2 ELSE IF w.ir \in Program!Indirect THEN 1 ELSE 0
Passed(w, k) == IF k = 1 THEN 1 ELSE 1 + (Least(k - 1, Operands(w)) + Displaced(w))
JumpsIn(w, k) == Raised(w, k) \cap Jumping # {}
Repeats(w, k) == k > 1 /\ "I_BT" \in Raised(w, k - 1)

EarlyPC(w, s, k, p) ==
  IF s.halted THEN p = s.pc
  ELSE IF Responds(s) THEN k <= 3 => p = s.pc
  ELSE /\ k = 6 => p = From(s, 1)
       /\ k = 7 => p = From(s, 2)
       /\ k \in 2..5 => p = From(s, 1 + (Least(k - 2, Operands(w)) + Displaced(w)))

LatePC(w, s, k, p) ==
  IF s.halted THEN p = s.pc
  ELSE IF Responds(s) THEN k <= 3 => p = s.pc
  ELSE /\ k = 6 => p = From(s, 2)
       /\ k = 7 => p = From(s, IF "Inc_PC" \in Raised(w, 7) THEN 3 ELSE 2)
       /\ k \in 1..5 => IF "JumpE" \in Raised(w, k) THEN p \in JumpTargets
                        ELSE IF Repeats(w, k) THEN p = From(s, PCSpan - 1)
                        ELSE p = From(s, Passed(w, k))

EndPC(w, s, k, p) ==
  IF s.halted THEN p = s.pc
  ELSE IF Responds(s)
  THEN /\ k <= 2 => p = s.pc
       /\ k = 3 => IF w.nmi THEN p = NMIVector
                   ELSE IF s.im = 1 THEN p = IM1Vector ELSE p \in JumpTargets
       /\ k = 5 => p \in JumpTargets
  ELSE /\ k = 6 => p = From(s, 2)
       /\ k = 7 => p = From(s, IF "Inc_PC" \in Raised(w, 7) THEN 3 ELSE 2)
       /\ k \in 1..5 => IF JumpsIn(w, k) THEN p \in JumpTargets
                        ELSE IF Repeats(w, k) THEN p = From(s, PCSpan - 1)
                        ELSE p = From(s, Passed(w, k))

\* The address that the instruction has to push, its halves, and what has become of them
\* after machine cycle k.
Return(w, s) == IF Responds(s) THEN s.pc ELSE From(s, Program!Length(w.ir, s.page))
High(w, s) == << "high", Return(w, s) >>
Low(w, s) == << "low", Return(w, s) >>
Others(written) == written[1][1] = "other" /\ written[2][1] = "other"

OutData(w, s, k, do) ==
  do = IF "PCH" \in Raised(w, k) THEN High(w, s)
       ELSE IF "PCL" \in Raised(w, k) THEN Low(w, s) ELSE NoByte
Round(w, k, btr) == btr <=> "I_BT" \in Raised(w, k) /\ ~EndsRounds(Raised(w, k), w.cc)
OnStack(w, s, k, written) ==
  IF k > 1 /\ "PCH" \in Raised(w, k - 1) THEN written[2] = High(w, s)
  ELSE IF \E j \in 1 .. k - 2 : "PCH" \in Raised(w, j)
       THEN written = << High(w, s), Low(w, s) >>
       ELSE Others(written)

Carried(w, s, k, do, btr, written) ==
  OutData(w, s, k, do) /\ Round(w, k, btr) /\ OnStack(w, s, k, written)
Nothing(do, btr, written) == do = NoByte /\ ~btr /\ Others(written)

\* The opcode of this instruction is in IR; the end of the cycle has been clocked already,
\* and the bus is away.
Fetched == MCycle # 1 \/ TState >= 3
Done == BusAck /\ TState # 0

SeenOK == seen \in Views
ResponseKnown == Answers(This, seen)

\* Halt_FF follows the boundary: ahead of it when the bus is given away at the end of HALT,
\* behind it for a clock when an interrupt wakes the core.
HaltKnown ==
  /\ seen.halted => Halt_FF
  /\ Halt_FF /\ ~seen.halted =>
       \/ MCycle = 1 /\ TState = 1 /\ Responds(seen)
       \/ Done /\ IR = "HALT" /\ MCycle = 1
  /\ ~Fetched /\ IR = "HALT" => Halt_FF \/ Responds(seen)

\* Until T2 of M1 the registers are as the boundary shows them; EI has yet to act.
AtBoundary ==
  ~Fetched =>
    /\ PC = seen.pc /\ Prefix = seen.page /\ IStatus = seen.im
    /\ \A m \in 1..3 : IR = Modes[m] => seen.im = m - 1
    /\ IF IR = "EI" THEN (seen.iff1 <=> ~NMICycle) /\ seen.iff2
       ELSE IntE_FF1 = seen.iff1 /\ IntE_FF2 = seen.iff2

\* What IR holds once it is fetched.  DD CB has its opcode when T2 of cycle 7 is over.
OpcodeKnown ==
  Fetched =>
    /\ Fits(This, seen)
    /\ IR = "CB" /\ XY_State => MCycle \in {1, 6} \/ (MCycle = 7 /\ TState <= 2)
    /\ ISet = 1 /\ (MCycle = 6 \/ (MCycle = 7 /\ TState <= 2)) => IR = "CB"

\* No machine cycle is begun after the last one; a displacement is fetched once, after M1.
FlowKnown ==
  Fetched =>
    /\ MCycle \in 2..5 => Reaches(This, MCycle)
    /\ MCycle = 1 => ~XY_Ind
    /\ MCycle \in 2..5 /\ XY_State /\ IR \in Program!Indirect => XY_Ind
    /\ MCycle \in 6..7 =>
         /\ ISet = 1 \/ IR = "CB" \/ IR \in Program!Indirect
         /\ Pre_XY_F_M = IF IR = "LDHLn" /\ ISet = 0 THEN 2 ELSE 1

\* The flip-flops and the mode are those of the boundary until the opcode has acted.
FlagsKnown ==
  Fetched =>
    /\ IF IR = "DI"
       THEN (MCycle = 1 /\ TState = 3) \/ (~IntE_FF1 /\ ~IntE_FF2)
       ELSE /\ IntE_FF2 = seen.iff2
            /\ IF "I_RETN" \in Raised(This, MCycle)
               THEN TState >= 3 => IntE_FF1 = seen.iff2
               ELSE IntE_FF1 = seen.iff1
    /\ \/ MCycle = 1 /\ TState = 3 /\ IR \in {"IM0", "IM1", "IM2"}
       \/ IStatus = CASE IR = "IM0" -> 0 [] IR = "IM1" -> 1 [] IR = "IM2" -> 2
                      [] OTHER -> seen.im

DataKnown ==
  /\ MCycle = 1 /\ ~Done => pushed = NoPush
  /\ pushed = << pushed[1], pushed[2] >>
  /\ Fetched /\ ~Done =>
       /\ IF TState <= 2 THEN EarlyPC(This, seen, MCycle, PC) ELSE LatePC(This, seen, MCycle, PC)
       /\ MCycle \in 2..5 => Carried(This, seen, MCycle - 1, DO, BTR_r, pushed)
       /\ MCycle \in 6..7 => Nothing(DO, BTR_r, pushed)
  /\ Fetched /\ Done =>
       /\ EndPC(This, seen, MCycle, PC)
       /\ IF MCycle <= 5 THEN Carried(This, seen, MCycle, DO, BTR_r, pushed)
          ELSE Nothing(DO, BTR_r, pushed)

IOWaits == TState = 2 /\ On("IORQ") => Auto_Wait_t1

ArchInv == /\ SeenOK /\ ResponseKnown /\ HaltKnown /\ AtBoundary /\ OpcodeKnown
           /\ FlowKnown /\ FlagsKnown /\ DataKnown /\ IOWaits

-------------------------------------------------------------------------------
(***************************************************************************)
(* The microcode, of an opcode that fits the boundary.                      *)
(***************************************************************************)
LEMMA DecodedFacts ==
  ASSUME NEW w \in Decoded
  PROVE  /\ w.ir \in AllOpcodes /\ w.iset \in 0..2 /\ w.cc \in BOOLEAN
         /\ w.nmi \in BOOLEAN /\ w.int \in BOOLEAN /\ w.xy \in BOOLEAN
         /\ Decodes(w.ir, w.iset)
BY DEF Decoded

LEMMA ReachesDown ==
  ASSUME NEW w, NEW k \in 1..5, Reaches(w, k), NEW j \in 1..k
  PROVE  Reaches(w, j) /\ (j < k => ~LastCycle(w, j))
BY DEF Reaches

LEMMA CommonRules ==
  ASSUME NEW w \in Decoded, NEW m \in 1..5, Reaches(w, m)
  PROVE  FlagRule(w, m) /\ PushRule(w, m)
BY ProgramIsCoded DEF ProgramAssumption

LEMMA OpcodeRules ==
  ASSUME NEW w \in Programmed, NEW m \in 1..5, Reaches(w, m)
  PROVE  /\ OperandRule(w, m) /\ JumpRule(w, m) /\ RepeatRule(w, m)
         /\ w.xy => IndexRule(w, m) /\ DisplacementRule(w)
BY ProgramIsCoded DEF ProgramAssumption

LEMMA NotResponding ==
  ASSUME NEW w \in Decoded, NEW s \in Views, Answers(w, s), Fits(w, s), ~Responds(s)
  PROVE  w \in Programmed
<1>1. ~w.nmi /\ ~w.int
  BY DEF Answers, Responds
<1>2. (w.cc => w.ir \in FlagTested) /\ (w.xy => w.iset < 2)
  BY DecodedFacts DEF Fits
<1> QED
  BY <1>1, <1>2 DEF Programmed

ResponseLength(w) == IF w.ir = "NOP" /\ w.int THEN 5 ELSE 3

LEMMA Responding ==
  ASSUME NEW w \in Decoded, NEW s \in Views, Answers(w, s), Fits(w, s), Responds(s)
  PROVE  /\ ResponseRule(w) /\ w.iset = 0 /\ ~w.xy /\ ~w.cc
         /\ w.ir \in {"NOP", "RST"} /\ (w.ir = "RST" => w.int)
         /\ w.nmi <=> ~w.int
         /\ w.int /\ w.ir = "NOP" <=> s.response = "INT" /\ s.im = 2
         /\ \A m \in 1..5 : LastCycle(w, m) <=> m = ResponseLength(w)
<1>1. s.response \in {"NMI", "INT"} /\ s.im \in 0..2
  BY DEF Responds, Views
<1>2. /\ w.iset = 0 /\ w.xy = FALSE /\ w.cc = FALSE
      /\ w.ir = IF s.response = "INT" /\ s.im # 2 THEN "RST" ELSE "NOP"
  BY DecodedFacts DEF Fits, Ordinary, Responds
<1>3. (w.nmi <=> s.response = "NMI") /\ (w.int <=> s.response = "INT")
  BY DEF Answers
<1>4. \/ w = Response("NOP", TRUE, FALSE)
      \/ w = Response("NOP", FALSE, TRUE)
      \/ w = Response("RST", FALSE, TRUE)
  <2>1. w = [ir |-> w.ir, iset |-> w.iset, cc |-> w.cc, nmi |-> w.nmi, int |-> w.int, xy |-> w.xy]
    BY DEF Decoded
  <2> QED
    BY <1>1, <1>2, <1>3, <2>1, DecodedFacts DEF Response
<1>5. ResponseRule(w)
  BY <1>4, ProgramIsCoded DEF ProgramAssumption
<1>6. ASSUME NEW m \in 1..5 PROVE LastCycle(w, m) <=> m = ResponseLength(w)
  <2>1. /\ Counts(w, m) = ResponseLength(w) /\ "I_BT" \notin Raised(w, m)
        /\ m = 2 => "I_DJNZ" \notin Raised(w, m)
    BY <1>5 DEF ResponseRule, ResponseLength
  <2> QED
    BY <2>1 DEF LastCycle, EndsRounds, ResponseLength
<1> QED
  BY <1>1, <1>2, <1>3, <1>5, <1>6

\* What a halted core runs.
LEMMA Idling ==
  ASSUME NEW w \in Decoded, NEW s \in Views, Answers(w, s), Fits(w, s), s.halted
  PROVE  /\ ~Responds(s) /\ w.ir = "NOP" /\ w.iset = 0 /\ ~w.xy /\ ~w.cc /\ s.page = 0
         /\ \A m \in 1..5 : Reaches(w, m) =>
              /\ m > 1 => "Inc_PC" \notin Raised(w, m)
              /\ ~JumpsIn(w, m) /\ "PCH" \notin Raised(w, m) /\ "PCL" \notin Raised(w, m)
              /\ "I_BT" \notin Raised(w, m)
<1>1. ~Responds(s) /\ ~Ordinary(s) /\ s.response = "none"
  BY DEF Answers, Ordinary, Responds
<1>2. w.ir = "NOP" /\ w.iset = 0 /\ ~w.xy /\ ~w.cc /\ s.page = 0
  BY <1>1 DEF Fits, Answers
<1>3. w \in Programmed
  BY <1>1, NotResponding
<1>4. /\ "NOP" \notin Program!Branches /\ "NOP" \notin Program!Pushes
      /\ Program!OperandBytes("NOP") = 0
  BY DEF Program!Branches, Program!Pushes, Program!OperandBytes
<1>5. ASSUME NEW m \in 1..5, Reaches(w, m)
      PROVE  /\ m > 1 => "Inc_PC" \notin Raised(w, m)
             /\ ~JumpsIn(w, m) /\ "PCH" \notin Raised(w, m) /\ "PCL" \notin Raised(w, m)
             /\ "I_BT" \notin Raised(w, m)
  <2>1. OperandRule(w, m) /\ JumpRule(w, m) /\ RepeatRule(w, m) /\ PushRule(w, m)
    BY <1>3, <1>5, OpcodeRules, CommonRules
  <2>2. m > 1 => "Inc_PC" \notin Raised(w, m)
    BY <1>2, <1>4, <2>1 DEF OperandRule, Operands
  <2>3. ~JumpsIn(w, m) /\ "PCH" \notin Raised(w, m)
    BY <1>2, <1>4, <2>1 DEF JumpRule, JumpsIn
  <2>4. "I_BT" \notin Raised(w, m)
    BY <1>2, <2>1 DEF RepeatRule
  <2>5. "PCL" \notin Raised(w, m)
    <3>1. SUFFICES ASSUME m > 1 PROVE "PCH" \notin Raised(w, m - 1)
      BY <2>1 DEF PushRule
    <3>2. m - 1 \in 1..5 /\ Reaches(w, m - 1)
      BY <1>5, <3>1, ReachesDown
    <3>3. JumpRule(w, m - 1)
      BY <1>3, <3>2, OpcodeRules
    <3> QED
      BY <1>2, <1>4, <3>3 DEF JumpRule
  <2> QED
    BY <2>2, <2>3, <2>4, <2>5
<1> QED
  BY <1>1, <1>2, <1>5
-------------------------------------------------------------------------------
(***************************************************************************)
(* PC through a machine cycle.                                              *)
(***************************************************************************)
LEMMA OperandsNat == ASSUME NEW w PROVE Operands(w) \in 0..2
BY DEF Operands, Program!OperandBytes

LEMMA FromType ==
  ASSUME NEW s \in Views, NEW n \in Nat
  PROVE  /\ From(s, n) \in PCs /\ s.pc \in PCs /\ s.pc \in Nat
         /\ Mod(From(s, n) + 1) = From(s, n + 1)
<1>1. s.pc \in PCs /\ s.pc \in Nat /\ s.pc + n \in Nat /\ (s.pc + n) + 1 = s.pc + (n + 1)
  BY PCWidth DEF Views, PCs
<1>2. Mod(s.pc + n) \in PCs
  BY <1>1, Division
<1>3. Mod(Mod(s.pc + n) + 1) = Mod((s.pc + n) + 1)
  BY <1>1, ModPlus
<1> QED
  BY <1>1, <1>2, <1>3 DEF From

LEMMA PassedType ==
  ASSUME NEW w, NEW k \in 1..5
  PROVE  /\ Passed(w, k) \in Nat
         /\ k > 1 => Least(k - 2, Operands(w)) + Displaced(w) \in Nat
         /\ k > 1 => Passed(w, k) = (1 + (Least(k - 2, Operands(w)) + Displaced(w)))
                                      + (IF k - 1 <= Operands(w) THEN 1 ELSE 0)
<1>1. Operands(w) \in 0..2 /\ Displaced(w) \in 0..2
  BY OperandsNat DEF Displaced
<1> QED
  BY <1>1 DEF Passed, Least

\* The byte of machine cycle k.
ByteTo(w, k, btr, p, q) ==
  IF btr THEN q = Mod(p + 2 * PCSpan - 2)
  ELSE IF "JumpE" \in Raised(w, k) THEN q \in JumpTargets
  ELSE IF "Inc_PC" \in Raised(w, k) THEN q = Mod(p + 1) ELSE q = p

LEMMA ByteOfCycle ==
  ASSUME NEW w \in Decoded, NEW s \in Views, Answers(w, s), Fits(w, s),
         NEW k \in 2..5, Reaches(w, k), NEW p, NEW q, NEW btr \in BOOLEAN,
         EarlyPC(w, s, k, p), Round(w, k - 1, btr), ByteTo(w, k, btr, p, q)
  PROVE  LatePC(w, s, k, q)
<1>1. k \in 1..5 /\ k - 1 \in 1..5 /\ Reaches(w, k - 1) /\ ~LastCycle(w, k - 1)
  BY ReachesDown
<1>2. CASE s.halted
  <2>1. /\ "Inc_PC" \notin Raised(w, k) /\ "JumpE" \notin Raised(w, k)
        /\ "I_BT" \notin Raised(w, k - 1)
    BY <1>1, <1>2, Idling DEF JumpsIn, Jumping
  <2>2. ~btr
    BY <2>1 DEF Round
  <2> QED
    BY <1>2, <2>1, <2>2 DEF EarlyPC, LatePC, ByteTo
<1>3. CASE Responds(s)
  <2>1. ~s.halted
    BY <1>3 DEF Answers
  <2>2. SUFFICES ASSUME k <= 3 PROVE q = s.pc
    BY <1>3, <2>1 DEF LatePC
  <2>3. k \in 1..3 /\ ResponseRule(w)
    BY <1>3, <2>2, Responding
  <2>4. "Inc_PC" \notin Raised(w, k) /\ "JumpE" \notin Raised(w, k)
    BY <2>3 DEF ResponseRule, Jumping
  <2>5. ~btr
    BY <1>1, <2>3 DEF ResponseRule, Round
  <2> QED
    BY <1>3, <2>1, <2>2, <2>4, <2>5 DEF EarlyPC, ByteTo
<1>4. CASE ~s.halted /\ ~Responds(s)
  <2> DEFINE b == Least(k - 2, Operands(w)) + Displaced(w)
  <2>1. p = From(s, 1 + b)
    BY <1>4 DEF EarlyPC
  <2>2. b \in Nat /\ Passed(w, k) = (1 + b) + (IF k - 1 <= Operands(w) THEN 1 ELSE 0)
    BY <1>1, PassedType
  <2> HIDE DEF b
  <2>3. /\ w \in Programmed /\ OperandRule(w, k) /\ JumpRule(w, k) /\ RepeatRule(w, k - 1)
    BY <1>1, <1>4, NotResponding, OpcodeRules
  <2>4. CASE Repeats(w, k)
    <3>1. /\ "I_BT" \in Raised(w, k - 1) /\ w.iset = 2 /\ w.ir \notin Program!Branches
          /\ Operands(w) = 0
      BY <2>3, <2>4 DEF Repeats, RepeatRule
    <3>2. btr
      BY <1>1, <3>1 DEF Round, LastCycle
    <3>3. "JumpE" \notin Raised(w, k)
      BY <2>3, <3>1 DEF JumpRule, Jumping
    <3>4. ~w.xy
      BY <1>4, <3>1, DecodedFacts DEF Fits, Ordinary, Responds
    <3>5. p = Mod(s.pc + 1)
      <4>1. b = 0
        BY <3>1, <3>4 DEF b, Displaced, Least
      <4> QED
        BY <2>1, <4>1 DEF From
    <3>6. q = Mod(s.pc + (PCSpan - 1))
      <4>1. s.pc \in PCs
        BY DEF Views
      <4>2. q = Mod(Mod(s.pc + 1) + 2 * PCSpan - 2)
        BY <3>2, <3>5 DEF ByteTo
      <4> QED
        BY <4>1, <4>2, ModBack
    <3> QED
      BY <1>4, <2>4, <3>3, <3>6 DEF LatePC, From
  <2>5. CASE ~Repeats(w, k)
    <3>1. ~btr
      BY <2>5 DEF Repeats, Round
    <3>2. CASE "JumpE" \in Raised(w, k)
      BY <1>4, <3>1, <3>2 DEF LatePC, ByteTo
    <3>3. CASE "JumpE" \notin Raised(w, k)
      <4>1. "Inc_PC" \in Raised(w, k) <=> k - 1 <= Operands(w)
        BY <2>3 DEF OperandRule
      <4>2. q = From(s, Passed(w, k))
        <5>1. CASE k - 1 <= Operands(w)
          <6>1. q = Mod(p + 1)
            BY <3>1, <3>3, <4>1, <5>1 DEF ByteTo
          <6>2. Mod(From(s, 1 + b) + 1) = From(s, (1 + b) + 1)
            <7>1. 1 + b \in Nat
              BY <2>2
            <7> QED
              BY <7>1, FromType
          <6>3. Passed(w, k) = (1 + b) + 1
            BY <2>2, <5>1
          <6> QED
            BY <2>1, <6>1, <6>2, <6>3
        <5>2. CASE ~(k - 1 <= Operands(w))
          <6>1. q = p
            BY <3>1, <3>3, <4>1, <5>2 DEF ByteTo
          <6>2. Passed(w, k) = 1 + b
            BY <2>2, <5>2
          <6> QED
            BY <2>1, <6>1, <6>2
        <5> QED
          BY <5>1, <5>2
      <4> QED
        BY <1>1, <1>4, <2>5, <3>3, <4>2 DEF LatePC
    <3> QED
      BY <3>2, <3>3
  <2> QED
    BY <2>4, <2>5
<1> QED
  BY <1>2, <1>3, <1>4

\* The displacement, and the opcode or the operand after it.
LEMMA ByteOfDisplacement ==
  ASSUME NEW w \in Decoded, NEW s \in Views, Answers(w, s), Fits(w, s), w.xy,
         NEW k \in 6..7, NEW p, NEW q, NEW btr \in BOOLEAN, ~btr,
         EarlyPC(w, s, k, p), ByteTo(w, k, btr, p, q)
  PROVE  LatePC(w, s, k, q)
<1>1. Ordinary(s)
  BY DEF Fits
<1>2. ~s.halted /\ ~Responds(s)
  BY <1>1 DEF Ordinary, Responds
<1>3. DisplacementRule(w)
  <2>1. w \in Programmed /\ Reaches(w, 1)
    BY <1>2, NotResponding DEF Reaches
  <2> QED
    BY <2>1, ProgramIsCoded DEF ProgramAssumption
<1>4. "JumpE" \notin Raised(w, k) /\ "Inc_PC" \in Raised(w, 6)
  BY <1>3 DEF DisplacementRule, Jumping
<1>5. Mod(From(s, 1) + 1) = From(s, 2) /\ Mod(From(s, 2) + 1) = From(s, 3)
  BY FromType
<1>6. CASE k = 6
  <2>1. p = From(s, 1)
    BY <1>2, <1>6 DEF EarlyPC
  <2>2. q = Mod(p + 1)
    BY <1>4, <1>6 DEF ByteTo
  <2> QED
    BY <1>2, <1>5, <1>6, <2>1, <2>2 DEF LatePC
<1>7. CASE k = 7
  <2>1. p = From(s, 2)
    BY <1>2, <1>7 DEF EarlyPC
  <2>2. IF "Inc_PC" \in Raised(w, 7) THEN q = Mod(p + 1) ELSE q = p
    BY <1>4, <1>7 DEF ByteTo
  <2> QED
    BY <1>2, <1>5, <1>7, <2>1, <2>2 DEF LatePC
<1> QED
  BY <1>6, <1>7
-------------------------------------------------------------------------------
(***************************************************************************)
(* The stack, and PC at the end of an instruction.                          *)
(***************************************************************************)
LEMMA SetFacts ==
  /\ Program!Pushes \subseteq Program!Branches
  /\ Program!Pushes \cap Program!Indirect = {} /\ Program!Branches \cap Program!Indirect = {}
  /\ Program!Repeating \cap Program!Branches = {}
  /\ {"CB", "ED", "DD", "EI", "DI", "HALT", "IM0", "IM1", "IM2"} \cap
       (Program!Branches \cup Program!Repeating \cup Program!Indirect) = {}
  /\ \A ir \in {"CB", "ED", "DD"} : Program!OperandBytes(ir) = 0
  /\ Program!OperandBytes("LDHLn") = 1
  /\ \A ir \in Program!Indirect \ {"LDHLn"} : Program!OperandBytes(ir) = 0
BY DEF Program!Pushes, Program!Branches, Program!Indirect, Program!Repeating,
       Program!OperandBytes

LEMMA PageFacts ==
  /\ FlagTested \subseteq Program!Conditional \cup Program!Repeating
  /\ IntAckOps \subseteq {"RST"} /\ "none" \notin AllOpcodes
  /\ \A iset \in 1..2 : Opcodes[iset] \cap {"CB", "ED", "DD"} = {}
  /\ Opcodes[0] \cap Opcodes[1] = {}
  /\ \A ir \in AllOpcodes :
       Decodes(ir, 0) => ROMPrefix(ir, 0) = CASE ir = "CB" -> 1 [] ir = "ED" -> 2
                                              [] ir = "DD" -> 3 [] OTHER -> 0
BY ProgramIsCoded DEF ProgramAssumption, OpcodeAssumption

\* The instruction pushes at most once, and the address in PC is the one to come back to.
LEMMA PushesOnce ==
  ASSUME NEW w \in Decoded, NEW k \in 1..5, Reaches(w, k),
         NEW j \in 1..k, NEW l \in 1..k, "PCH" \in Raised(w, j), "PCH" \in Raised(w, l)
  PROVE  j = l
<1>1. Reaches(w, j) /\ Reaches(w, l)
  BY ReachesDown
<1>2. \A i \in 1 .. j + 1 : "PCH" \in Raised(w, i) => i = j
  BY <1>1, CommonRules DEF PushRule
<1>3. \A i \in 1 .. l + 1 : "PCH" \in Raised(w, i) => i = l
  BY <1>1, CommonRules DEF PushRule
<1> QED
  BY <1>2, <1>3

LEMMA PushedAddress ==
  ASSUME NEW w \in Decoded, NEW s \in Views, Answers(w, s), Fits(w, s),
         NEW k \in 1..5, Reaches(w, k), NEW p, LatePC(w, s, k, p),
         Raised(w, k) \cap {"PCH", "PCL"} # {}
  PROVE  p = Return(w, s)
<1>1. PICK m \in 1..k : /\ "PCH" \in Raised(w, m) /\ m \in {k, k - 1} /\ Reaches(w, m)
                        /\ ~LastCycle(w, m) /\ ~LastCycle(w, m + 1)
  <2>1. CASE "PCH" \in Raised(w, k)
    BY <2>1, CommonRules DEF PushRule
  <2>2. CASE "PCL" \in Raised(w, k)
    <3>1. k > 1 /\ "PCH" \in Raised(w, k - 1)
      BY <2>2, CommonRules DEF PushRule
    <3>2. k - 1 \in 1..5 /\ Reaches(w, k - 1)
      BY <3>1, ReachesDown
    <3> QED
      BY <3>1, <3>2, CommonRules DEF PushRule
  <2> QED
    BY <2>1, <2>2
<1>2. CASE Responds(s)
  <2>1. "PCH" \in Raised(w, 1) /\ 1 \in 1..k
    BY <1>2, Responding DEF ResponseRule
  <2>2. m = 1
    BY <1>1, <2>1, PushesOnce
  <2>3. k <= 3
    BY <1>1, <2>2
  <2>4. ~s.halted
    BY <1>2 DEF Answers
  <2> QED
    BY <1>2, <2>3, <2>4 DEF LatePC, Return
<1>3. CASE ~Responds(s)
  <2>1. w \in Programmed /\ m \in 1..5
    BY <1>1, <1>3, NotResponding
  <2>2. /\ w.iset = 0 /\ w.ir \in Program!Pushes /\ m > Operands(w)
    BY <1>1, <2>1, OpcodeRules DEF JumpRule
  <2>3. ~s.halted
    <3>1. "PCH" \notin Raised(w, m) \/ ~s.halted
      BY <1>1, <2>1, Idling
    <3> QED
      BY <1>1, <3>1
  <2>4. Ordinary(s)
    BY <1>3, <2>3 DEF Ordinary, Responds
  <2>5. ~JumpsIn(w, k) /\ "JumpE" \notin Raised(w, k)
    <3>1. ~LastCycle(w, k)
      BY <1>1
    <3> QED
      BY <2>1, <3>1, OpcodeRules DEF JumpRule, JumpsIn, Jumping
  <2>6. ~Repeats(w, k)
    <3>1. SUFFICES ASSUME k > 1 PROVE "I_BT" \notin Raised(w, k - 1)
      BY DEF Repeats
    <3>2. k - 1 \in 1..5 /\ Reaches(w, k - 1)
      BY <3>1, ReachesDown
    <3> QED
      BY <2>1, <2>2, <3>2, OpcodeRules, SetFacts DEF RepeatRule
  <2>7. p = From(s, Passed(w, k))
    BY <1>3, <2>3, <2>5, <2>6 DEF LatePC
  <2>8. w.ir \notin Program!Indirect /\ Displaced(w) = 0
    BY <2>2, SetFacts DEF Displaced
  <2>9. Passed(w, k) = 1 + Operands(w)
    <3>1. Operands(w) \in 0..2 /\ k > Operands(w)
      BY <1>1, <2>2, OperandsNat
    <3> QED
      BY <2>8, <3>1 DEF Passed, Least
  <2>10. w.ir \notin Opcodes[1]
    <3>1. w.ir \in Opcodes[0]
      BY <2>2, <2>4 DEF Fits
    <3> QED
      BY <3>1, PageFacts
  <2>11. Program!Length(w.ir, s.page) = 1 + Operands(w)
    <3>1. Operands(w) \in 0..2
      BY OperandsNat
    <3> QED
      BY <2>8, <2>10, <3>1 DEF Program!Length, Operands
  <2> QED
    BY <1>3, <2>7, <2>9, <2>11 DEF Return
<1> QED
  BY <1>2, <1>3

\* A write cycle takes the half of PC that the machine cycle before left in DO.
LEMMA StackStep ==
  ASSUME NEW w \in Decoded, NEW s, NEW k \in 1..5, Reaches(w, k), NEW do, NEW pushes, NEW written,
         pushes = << pushes[1], pushes[2] >>,
         k = 1 => pushes = NoPush,
         k > 1 => OutData(w, s, k - 1, do) /\ OnStack(w, s, k - 1, pushes),
         written = IF "Write" \in Raised(w, k) THEN << pushes[2], do >> ELSE pushes
  PROVE  OnStack(w, s, k, written)
<1>1. CASE k = 1
  <2>1. written = NoPush
    BY <1>1, CommonRules DEF PushRule
  <2> QED
    BY <1>1, <2>1 DEF OnStack, Others, NoPush, NoByte
<1>2. CASE k > 1 /\ "PCH" \in Raised(w, k - 1)
  <2>1. k - 1 \in 1..5 /\ Reaches(w, k - 1)
    BY <1>2, ReachesDown
  <2>2. "Write" \in Raised(w, (k - 1) + 1)
    BY <1>2, <2>1, CommonRules DEF PushRule
  <2>3. (k - 1) + 1 = k
    OBVIOUS
  <2> QED
    BY <1>2, <2>2, <2>3 DEF OnStack, OutData
<1>3. CASE k > 2 /\ "PCH" \notin Raised(w, k - 1) /\ "PCH" \in Raised(w, k - 2)
  <2>1. k - 2 \in 1..5 /\ Reaches(w, k - 2) /\ k - 2 \in 1 .. k - 2
    BY <1>3, ReachesDown
  <2>2. "Write" \in Raised(w, (k - 2) + 2) /\ "PCL" \in Raised(w, (k - 2) + 1)
    BY <1>3, <2>1, CommonRules DEF PushRule
  <2>3. (k - 2) + 2 = k /\ (k - 2) + 1 = k - 1 /\ (k - 1) - 1 = k - 2 /\ k - 1 > 1
    BY <1>3
  <2>4. do = Low(w, s) /\ pushes[2] = High(w, s)
    BY <1>3, <2>2, <2>3 DEF OutData, OnStack
  <2>5. written = << High(w, s), Low(w, s) >>
    BY <2>2, <2>3, <2>4
  <2> QED
    BY <1>3, <2>1, <2>5 DEF OnStack
<1>4. CASE k > 1 /\ "PCH" \notin Raised(w, k - 1) /\ ~(k > 2 /\ "PCH" \in Raised(w, k - 2))
  <2>1. "PCL" \notin Raised(w, k - 1)
    <3>1. k - 1 \in 1..5 /\ Reaches(w, k - 1) /\ (k - 1) - 1 = k - 2
      BY <1>4, ReachesDown
    <3> QED
      BY <1>4, <3>1, CommonRules DEF PushRule
  <2>2. do = NoByte
    BY <1>4, <2>1 DEF OutData
  <2>3. IF \E j \in 1 .. (k - 1) - 2 : "PCH" \in Raised(w, j)
        THEN pushes = << High(w, s), Low(w, s) >> ELSE Others(pushes)
    <3>1. (k - 1) - 1 = k - 2 /\ (k - 1 > 1 => k > 2)
      OBVIOUS
    <3> QED
      BY <1>4, <3>1 DEF OnStack
  <2>4. CASE \E j \in 1 .. (k - 1) - 2 : "PCH" \in Raised(w, j)
    <3>1. "Write" \notin Raised(w, k)
      BY <2>4, CommonRules DEF PushRule
    <3>2. \E j \in 1 .. k - 2 : "PCH" \in Raised(w, j)
      BY <2>4
    <3> QED
      BY <1>4, <2>3, <2>4, <3>1, <3>2 DEF OnStack
  <2>5. CASE ~ \E j \in 1 .. (k - 1) - 2 : "PCH" \in Raised(w, j)
    <3>1. ~ \E j \in 1 .. k - 2 : "PCH" \in Raised(w, j)
      BY <1>4, <2>5
    <3>2. Others(pushes)
      BY <2>3, <2>5
    <3>3. Others(written)
      BY <2>2, <3>2 DEF Others, NoByte
    <3> QED
      BY <1>4, <3>1, <3>3 DEF OnStack
  <2> QED
    BY <2>4, <2>5
<1> QED
  BY <1>1, <1>2, <1>3, <1>4

\* What the whole instruction has pushed.
LEMMA PushedInAll ==
  ASSUME NEW w \in Decoded, NEW s \in Views, Answers(w, s), Fits(w, s),
         NEW k \in 1..5, Reaches(w, k), LastCycle(w, k), NEW written, OnStack(w, s, k, written)
  PROVE  IF Responds(s) \/ (w.ir \in Program!Pushes /\ BranchTaken(w))
         THEN written = << High(w, s), Low(w, s) >> ELSE Others(written)
<1>1. ASSUME NEW j \in 1..k, "PCH" \in Raised(w, j) PROVE j <= k - 2
  <2>1. ~LastCycle(w, j) /\ ~LastCycle(w, j + 1)
    BY <1>1, ReachesDown, CommonRules DEF PushRule
  <2>2. j # k /\ j + 1 # k
    BY <2>1
  <2> QED
    BY <2>2
<1>2. ~(k > 1 /\ "PCH" \in Raised(w, k - 1))
  <2> SUFFICES ASSUME k > 1, "PCH" \in Raised(w, k - 1) PROVE FALSE
    OBVIOUS
  <2>1. k - 1 \in 1..k
    OBVIOUS
  <2> QED
    BY <1>1, <2>1
<1>3. IF \E j \in 1 .. k - 2 : "PCH" \in Raised(w, j)
      THEN written = << High(w, s), Low(w, s) >> ELSE Others(written)
  BY <1>2 DEF OnStack
<1>4. CASE Responds(s)
  <2>1. "PCH" \in Raised(w, 1) /\ 1 \in 1..k
    BY <1>4, Responding DEF ResponseRule
  <2>2. 1 \in 1 .. k - 2
    BY <1>1, <2>1
  <2> QED
    BY <1>3, <1>4, <2>1, <2>2
<1>5. CASE ~Responds(s) /\ w.ir \in Program!Pushes /\ BranchTaken(w)
  <2>1. k > 2 /\ "PCH" \in Raised(w, k - 2)
    BY <1>5, NotResponding, OpcodeRules DEF JumpRule
  <2>2. k - 2 \in 1 .. k - 2
    BY <2>1
  <2> QED
    BY <1>3, <1>5, <2>1, <2>2
<1>6. CASE ~Responds(s) /\ ~(w.ir \in Program!Pushes /\ BranchTaken(w))
  <2>1. ASSUME NEW j \in 1..k PROVE "PCH" \notin Raised(w, j)
    BY <1>6, <2>1, NotResponding, OpcodeRules, ReachesDown DEF JumpRule
  <2>2. ~ \E j \in 1 .. k - 2 : "PCH" \in Raised(w, j)
    BY <2>1
  <2> QED
    BY <1>3, <1>6, <2>2
<1> QED
  BY <1>4, <1>5, <1>6

\* An instruction that takes a displacement neither pushes, nor branches, nor repeats.
LEMMA IndexedIsPlain ==
  ASSUME NEW w \in Decoded, NEW s \in Views, Answers(w, s), Fits(w, s), w.xy,
         w.iset = 1 \/ w.ir = "CB" \/ w.ir \in Program!Indirect,
         NEW k \in 1..5, Reaches(w, k)
  PROVE  /\ Ordinary(s) /\ ~Responds(s) /\ ~s.halted /\ w \in Programmed
         /\ "PCH" \notin Raised(w, k) /\ "PCL" \notin Raised(w, k)
         /\ "I_BT" \notin Raised(w, k)
         /\ w.iset = 0 => ~JumpsIn(w, k)
<1>1. Ordinary(s) /\ ~Responds(s) /\ ~s.halted
  BY DEF Fits, Ordinary, Responds
<1>2. w \in Programmed
  BY <1>1, NotResponding
<1>3. w.iset \in 0..1
  BY <1>1 DEF Fits
<1>4. w.iset = 0 => w.ir \notin Program!Branches /\ w.ir \notin Program!Pushes
  BY SetFacts
<1>5. ASSUME NEW j \in 1..k PROVE "PCH" \notin Raised(w, j)
  BY <1>2, <1>4, <1>5, OpcodeRules, ReachesDown DEF JumpRule
<1>6. "PCL" \notin Raised(w, k)
  <2> SUFFICES ASSUME "PCL" \in Raised(w, k) PROVE FALSE
    OBVIOUS
  <2>1. k > 1 /\ "PCH" \in Raised(w, k - 1)
    BY CommonRules DEF PushRule
  <2>2. k - 1 \in 1..k
    BY <2>1
  <2> QED
    BY <1>5, <2>1, <2>2
<1>7. "I_BT" \notin Raised(w, k)
  BY <1>2, <1>3, OpcodeRules DEF RepeatRule
<1>8. w.iset = 0 => ~JumpsIn(w, k)
  BY <1>2, <1>4, OpcodeRules DEF JumpRule, JumpsIn
<1> QED
  BY <1>1, <1>2, <1>5, <1>6, <1>7, <1>8

\* The next machine cycle goes on where this one stops.
LEMMA GoesOnAtPC ==
  ASSUME NEW w \in Decoded, NEW s \in Views, Answers(w, s), Fits(w, s),
         NEW k \in 1..4, Reaches(w, k), ~LastCycle(w, k), NEW p, EndPC(w, s, k, p),
         k = 1 => Displaced(w) = 0
  PROVE  EarlyPC(w, s, k + 1, p)
<1>1. k \in 1..5 /\ k + 1 \in 2..5
  OBVIOUS
<1>2. CASE s.halted
  BY <1>2 DEF EndPC, EarlyPC
<1>3. CASE ~s.halted /\ Responds(s)
  BY <1>3 DEF EndPC, EarlyPC
<1>4. CASE ~s.halted /\ ~Responds(s)
  <2>1. w \in Programmed
    BY <1>4, NotResponding
  <2>2. ~JumpsIn(w, k)
    BY <1>1, <2>1, OpcodeRules DEF JumpRule, JumpsIn
  <2>3. ~Repeats(w, k)
    <3>1. SUFFICES ASSUME k > 1 PROVE "I_BT" \notin Raised(w, k - 1)
      BY DEF Repeats
    <3>2. k - 1 \in 1..5 /\ Reaches(w, k - 1) /\ ~LastCycle(w, k - 1) /\ (k - 1) + 1 = k
      BY <1>1, <3>1, ReachesDown
    <3> QED
      BY <2>1, <3>2, OpcodeRules DEF RepeatRule
  <2>4. p = From(s, Passed(w, k))
    BY <1>1, <1>4, <2>2, <2>3 DEF EndPC
  <2>5. Passed(w, k) = 1 + (Least((k + 1) - 2, Operands(w)) + Displaced(w))
    <3>1. Operands(w) \in 0..2 /\ Displaced(w) \in 0..2
      BY OperandsNat DEF Displaced
    <3>2. CASE k = 1
      BY <3>1, <3>2 DEF Passed, Least
    <3>3. CASE k # 1
      <4>1. (k + 1) - 2 = k - 1
        OBVIOUS
      <4> QED
        BY <3>3, <4>1 DEF Passed
    <3> QED
      BY <3>2, <3>3
  <2> QED
    BY <1>1, <1>4, <2>4, <2>5 DEF EarlyPC
<1> QED
  BY <1>2, <1>3, <1>4

\* M1 of an opcode with a displacement that is to come stands before it.
LEMMA DisplacementAtPC ==
  ASSUME NEW w \in Decoded, NEW s \in Views, Answers(w, s), Fits(w, s), w.xy, w.iset = 0,
         w.ir = "CB" \/ w.ir \in Program!Indirect, NEW p, EndPC(w, s, 1, p)
  PROVE  EarlyPC(w, s, 6, p)
<1>1. Reaches(w, 1)
  BY DEF Reaches
<1>2. ~Responds(s) /\ ~s.halted /\ ~JumpsIn(w, 1)
  BY <1>1, IndexedIsPlain
<1>3. ~Repeats(w, 1) /\ Passed(w, 1) = 1
  BY DEF Repeats, Passed
<1> QED
  BY <1>2, <1>3 DEF EndPC, EarlyPC

\* After the displacement, the instruction goes on past it.
LEMMA ResumesAtPC ==
  ASSUME NEW w \in Decoded, NEW s \in Views, Answers(w, s), Fits(w, s), w.xy,
         w.iset = 1 \/ w.ir \in Program!Indirect,
         NEW p, EndPC(w, s, 7, p),
         NEW pre, pre = IF w.ir = "LDHLn" /\ w.iset = 0 THEN 2 ELSE 1
  PROVE  /\ EarlyPC(w, s, pre + 1, p)
         /\ Reaches(w, pre + 1)
<1>1. Reaches(w, 1)
  BY DEF Reaches
<1>2. w \in Programmed /\ ~Responds(s) /\ ~s.halted /\ w.iset \in 0..1
  <2>1. w \in Programmed /\ ~Responds(s) /\ ~s.halted /\ Ordinary(s)
    BY <1>1, IndexedIsPlain
  <2> QED
    BY <2>1 DEF Fits
<1>3. IndexRule(w, 1) /\ DisplacementRule(w)
  BY <1>1, <1>2, OpcodeRules
<1>4. "Inc_PC" \in Raised(w, 7) <=> w.iset = 1 \/ w.ir = "LDHLn"
  BY <1>3 DEF DisplacementRule
<1>5. ~LastCycle(w, 1) /\ (w.iset = 0 /\ w.ir = "LDHLn" => ~LastCycle(w, 2))
      /\ (w.iset = 1 => Operands(w) = 0)
  BY <1>2, <1>3 DEF IndexRule
<1>6. Operands(w) = IF w.ir = "LDHLn" /\ w.iset = 0 THEN 1 ELSE 0
  BY <1>2, <1>5, SetFacts DEF Operands
<1>7. Displaced(w) = IF w.iset = 1 THEN 2 ELSE 1
  BY <1>2 DEF Displaced
<1>8. CASE w.iset = 0 /\ w.ir = "LDHLn"
  <2>1. pre = 2
    BY <1>8
  <2>2. p = From(s, 3)
    BY <1>2, <1>4, <1>8 DEF EndPC
  <2>3. 1 + (Least(1, Operands(w)) + Displaced(w)) = 3
    BY <1>6, <1>7, <1>8 DEF Least
  <2>4. EarlyPC(w, s, 3, p)
    BY <1>2, <2>2, <2>3 DEF EarlyPC
  <2>5. Reaches(w, 3)
    BY <1>5, <1>8 DEF Reaches
  <2> QED
    BY <2>1, <2>4, <2>5
<1>9. CASE ~(w.iset = 0 /\ w.ir = "LDHLn")
  <2>1. pre = 1
    BY <1>9
  <2>2. p = From(s, IF w.iset = 1 THEN 3 ELSE 2)
    BY <1>2, <1>4, <1>9 DEF EndPC
  <2>3. 1 + (Least(0, Operands(w)) + Displaced(w)) = IF w.iset = 1 THEN 3 ELSE 2
    BY <1>6, <1>7, <1>9 DEF Least
  <2>4. EarlyPC(w, s, 2, p)
    BY <1>2, <2>2, <2>3 DEF EarlyPC
  <2>5. Reaches(w, 2)
    BY <1>5 DEF Reaches
  <2> QED
    BY <2>1, <2>4, <2>5
<1> QED
  BY <1>8, <1>9

\* Where the last machine cycle leaves PC.
LEMMA FinalPC ==
  ASSUME NEW w \in Decoded, NEW s \in Views, Answers(w, s), Fits(w, s), Ordinary(s),
         ~(w.ir = "CB" /\ w.xy),
         NEW k \in 1..5, Reaches(w, k), LastCycle(w, k), NEW p, EndPC(w, s, k, p)
  PROVE  IF w.ir \in Program!Branches /\ BranchTaken(w) THEN p \in JumpTargets
         ELSE IF w.ir \in Program!Repeating /\ w.cc THEN p = From(s, PCSpan - 1)
         ELSE p = From(s, Program!Length(w.ir, s.page))
<1>1. w \in Programmed /\ ~Responds(s) /\ ~s.halted
  BY NotResponding DEF Ordinary, Responds
<1>2. OperandRule(w, k) /\ JumpRule(w, k) /\ RepeatRule(w, k)
  BY <1>1, OpcodeRules
<1>3. JumpsIn(w, k) <=> w.ir \in Program!Branches /\ BranchTaken(w)
  BY <1>2 DEF JumpRule, JumpsIn
<1>4. Repeats(w, k) <=> w.ir \in Program!Repeating /\ w.cc
  <2>1. w.ir \in Program!Repeating /\ w.cc => Repeats(w, k)
    BY <1>2 DEF RepeatRule, Repeats
  <2>2. ASSUME Repeats(w, k) PROVE w.ir \in Program!Repeating /\ w.cc
    <3>1. k > 1 /\ "I_BT" \in Raised(w, k - 1)
      BY <2>2 DEF Repeats
    <3>2. k - 1 \in 1..5 /\ Reaches(w, k - 1) /\ ~LastCycle(w, k - 1)
      BY <3>1, ReachesDown
    <3> QED
      BY <1>1, <3>1, <3>2, OpcodeRules DEF RepeatRule
  <2> QED
    BY <2>1, <2>2
<1>5. Passed(w, k) = Program!Length(w.ir, s.page)
  <2>1. Operands(w) \in 0..2 /\ k > Operands(w)
    BY <1>2, OperandsNat DEF OperandRule
  <2>2. (w.xy <=> s.page = 3) /\ w.iset \in 0..2 /\ (w.xy => w.iset \in 0..1)
    BY DecodedFacts DEF Fits
  <2>3. w.ir \in Opcodes[w.iset]
    BY DEF Fits
  <2>4. s.page = 3 /\ w.ir \in Opcodes[1] <=> w.xy /\ w.iset = 1
    BY <2>2, <2>3, PageFacts
  <2>5. w.xy => IndexRule(w, 1)
    <3>1. Reaches(w, 1)
      BY DEF Reaches
    <3> QED
      BY <1>1, <3>1, OpcodeRules
  <2>6. k = 1 => Displaced(w) = 0
    <3> SUFFICES ASSUME k = 1, w.xy PROVE w.iset # 1 /\ w.ir \notin Program!Indirect
      BY DEF Displaced
    <3>1. LastCycle(w, 1)
      OBVIOUS
    <3> QED
      BY <2>2, <2>5, <3>1 DEF IndexRule
  <2>7. w.xy /\ w.iset = 1 => Operands(w) = 0
    BY <2>5 DEF IndexRule
  <2>8. Displaced(w) \in 0..2
    BY DEF Displaced
  <2>9. Passed(w, k) = 1 + (Operands(w) + Displaced(w))
    <3>1. CASE k = 1
      BY <2>1, <2>6, <3>1 DEF Passed
    <3>2. CASE k # 1
      <4>1. Least(k - 1, Operands(w)) = Operands(w)
        BY <2>1 DEF Least
      <4> QED
        BY <3>2, <4>1 DEF Passed
    <3> QED
      BY <3>1, <3>2
  <2>10. CASE w.xy /\ w.iset = 1
    <3>1. Program!Length(w.ir, s.page) = 3
      BY <2>4, <2>10 DEF Program!Length
    <3>2. Displaced(w) = 2
      BY <2>10 DEF Displaced
    <3> QED
      BY <2>7, <2>9, <2>10, <3>1, <3>2
  <2>11. CASE ~(w.xy /\ w.iset = 1)
    <3>1. Program!Length(w.ir, s.page) =
            1 + Operands(w) + IF s.page = 3 /\ w.ir \in Program!Indirect THEN 1 ELSE 0
      BY <2>4, <2>11 DEF Program!Length, Operands
    <3>2. Displaced(w) = IF s.page = 3 /\ w.ir \in Program!Indirect THEN 1 ELSE 0
      BY <2>2, <2>11 DEF Displaced
    <3> QED
      BY <2>1, <2>9, <3>1, <3>2
  <2> QED
    BY <2>10, <2>11
<1> QED
  BY <1>1, <1>3, <1>4, <1>5 DEF EndPC
-------------------------------------------------------------------------------
(***************************************************************************)
(* The opcode in IR, before and after a step.                               *)
(***************************************************************************)
Known == Inv /\ FInv /\ AInv /\ ArchInv

LEMMA ThisFacts ==
  ASSUME TypeOK
  PROVE  /\ This \in Decoded
         /\ This.ir = IR /\ This.iset = ISet /\ This.cc = cc /\ This.xy = XY_State
         /\ This.nmi = NMICycle /\ This.int = IntCycle
         /\ \A m : Raised(This, m) = Out(m) /\ Counts(This, m) = Count(m)
         /\ now.out = Raised(This, MCycle)
BY ArgumentTypes DEF Decoded, This, Raised, Counts, Out, Count, now

LEMMA ThisAfter ==
  ASSUME TypeOK'
  PROVE  /\ This' \in Decoded
         /\ This'.ir = IR' /\ This'.iset = ISet' /\ This'.cc = cc' /\ This'.xy = XY_State'
         /\ This'.nmi = NMICycle' /\ This'.int = IntCycle'
         /\ now'.out = Raised(This', MCycle')
<1>1. /\ IR' \in AllOpcodes /\ ISet' \in 0..2 /\ Decodes(IR', ISet')
      /\ cc' \in BOOLEAN /\ NMICycle' \in BOOLEAN /\ IntCycle' \in BOOLEAN
      /\ XY_State' \in BOOLEAN
  BY DEF TypeOK
<1> QED
  BY <1>1 DEF Decoded, This, Raised, now

LEMMA ThisKept ==
  ASSUME KeepsOpcode, UNCHANGED << NMICycle, IntCycle >>
  PROVE  This' = This
BY DEF KeepsOpcode, This

LEMMA Whereabouts ==
  ASSUME Known
  PROVE  /\ MCycle \in 1..7 /\ TState \in 0..6 /\ seen \in Views /\ Answers(This, seen)
         /\ Fetched => Fits(This, seen)
         /\ MCycle \in 1..5 => Reaches(This, MCycle)
         /\ MCycle \in 6..7 =>
              /\ Fetched /\ This.xy /\ Ordinary(seen) /\ ~Responds(seen) /\ ~seen.halted
              /\ This.iset = 1 \/ This.ir = "CB" \/ This.ir \in Program!Indirect
              /\ This \in Programmed /\ DisplacementRule(This)
         /\ T_Res => Fetched /\ (MCycle = 1 => TState >= 4)
<1> USE DEF Known, Inv, FInv, ArchInv
<1>1. MCycle \in 1..7 /\ TState \in 0..6 /\ seen \in Views /\ Answers(This, seen)
  BY DEF TypeOK, SeenOK, ResponseKnown
<1>2. Fetched => Fits(This, seen)
  BY DEF OpcodeKnown
<1>3. MCycle \in 1..5 => Reaches(This, MCycle)
  <2>1. CASE MCycle = 1
    BY <2>1 DEF Reaches
  <2>2. CASE MCycle # 1
    BY <2>2 DEF FlowKnown, Fetched
  <2> QED
    BY <2>1, <2>2
<1>4. ASSUME MCycle \in 6..7
      PROVE  /\ Fetched /\ This.xy /\ Ordinary(seen) /\ ~Responds(seen) /\ ~seen.halted
             /\ This.iset = 1 \/ This.ir = "CB" \/ This.ir \in Program!Indirect
             /\ This \in Programmed /\ DisplacementRule(This)
  <2>1. Fetched
    BY <1>4 DEF Fetched
  <2>2. This.xy
    BY <1>4, ThisFacts DEF Displacing
  <2>3. This.iset = 1 \/ This.ir = "CB" \/ This.ir \in Program!Indirect
    BY <1>4, <2>1, ThisFacts DEF FlowKnown
  <2>4. This \in Decoded /\ Reaches(This, 1)
    BY ThisFacts DEF Reaches
  <2>5. Ordinary(seen) /\ ~Responds(seen) /\ ~seen.halted /\ This \in Programmed
    BY <1>1, <1>2, <2>1, <2>2, <2>3, <2>4, IndexedIsPlain
  <2>6. DisplacementRule(This)
    BY <2>2, <2>4, <2>5, OpcodeRules
  <2> QED
    BY <2>1, <2>2, <2>3, <2>5, <2>6
<1>5. T_Res => Fetched /\ (MCycle = 1 => TState >= 4)
  BY Timing DEF T_Res, Fetched
<1> QED
  BY <1>1, <1>2, <1>3, <1>4, <1>5

\* The machine cycles in which an opcode acts on the flip-flops and the mode.
LEMMA Acts ==
  ASSUME Known
  PROVE  /\ On("SetEI") <=> IR = "EI" /\ MCycle = 1
         /\ On("SetDI") <=> IR = "DI" /\ MCycle = 1
         /\ On("Halt") <=> IR = "HALT" /\ MCycle = 1
         /\ On("IM0") <=> IR = "IM0" /\ MCycle = 1
         /\ On("IM1") <=> IR = "IM1" /\ MCycle = 1
         /\ On("IM2") <=> IR = "IM2" /\ MCycle = 1
         /\ On("I_RETN") => IR = "RETN" /\ MCycle \in 2..5
         /\ MCycle \in 1..5 => (On("I_RETN") <=> IR = "RETN" /\ LastCycle(This, MCycle))
         /\ On("I_RETN") <=> "I_RETN" \in Raised(This, MCycle)
<1>1. TypeOK
  BY DEF Known, Inv
<1>2. /\ \A o : On(o) <=> o \in Raised(This, MCycle)
      /\ This \in Decoded /\ This.ir = IR
  BY <1>1, ThisFacts DEF On
<1>3. CASE MCycle \in 1..5
  <2>1. FlagRule(This, MCycle)
    BY <1>2, <1>3, Whereabouts, CommonRules
  <2>2. Modes[1] = "IM0" /\ Modes[2] = "IM1" /\ Modes[3] = "IM2"
    BY DEF Modes
  <2> QED
    BY <1>2, <1>3, <2>1, <2>2 DEF FlagRule
<1>4. CASE MCycle \in 6..7
  <2>1. DisplacementRule(This)
    BY <1>4, Whereabouts
  <2> QED
    BY <1>2, <1>4, <2>1 DEF DisplacementRule
<1> QED
  BY <1>3, <1>4, Whereabouts

\* The end of the last machine cycle is the end of the instruction.
LEMMA CompletesLast ==
  ASSUME Known, CycleEnds, ~NextIs_XY_Fetch
  PROVE  /\ Completes => MCycle \in 1..5
         /\ MCycle \in 1..5 => (Completes <=> LastCycle(This, MCycle))
<1> USE DEF Known, Inv, FInv, AInv
<1>1. T_Res /\ MCycle \in 1..7 /\ Fetched /\ (MCycle = 1 => TState >= 4)
  BY Whereabouts DEF CycleEnds
<1>2. TState >= 3 /\ MCycles \in 0..5
  BY <1>1, Timing DEF T_Res, TypeOK
<1>3. MCycle # 7 => (No_BTR <=> EndsRounds(Raised(This, MCycle), cc))
  BY <1>1, Settled, ThisFacts
<1>4. MCycle \in 1..5 => MCycles = Counts(This, MCycle)
  <2>1. Counts(This, MCycle) = Count(MCycle)
    BY ThisFacts
  <2>2. MCycle = 1 => MCycles = Count(MCycle)
    BY <1>1 DEF CountKnown, Count
  <2>3. MCycle \in 2..5 => MCycles = Count(MCycle)
    BY <1>2, Whereabouts DEF CountSettled
  <2> QED
    BY <2>1, <2>2, <2>3
<1>5. DJNZExhausted <=> "I_DJNZ" \in Raised(This, MCycle) /\ ~cc
  BY ThisFacts DEF DJNZExhausted, On
<1>6. MCycle \in 1..5 => (Completes <=> LastCycle(This, MCycle))
  BY <1>3, <1>4, <1>5, ThisFacts DEF Completes, LastCycle
<1>7. MCycle # 6 \/ ~Completes
  <2> SUFFICES ASSUME MCycle = 6 PROVE ~Completes
    OBVIOUS
  <2>1. "I_BT" \notin Raised(This, 6)
    BY Whereabouts DEF DisplacementRule
  <2> QED
    BY <1>2, <1>3, <2>1 DEF Completes, EndsRounds
<1>8. MCycle = 7 => ~Completes
  BY DEF Completes
<1> QED
  BY <1>1, <1>6, <1>7, <1>8
-------------------------------------------------------------------------------
(***************************************************************************)
(* What a clock does to the data path: nothing; T2 of M1 takes the opcode;  *)
(* T2 of another machine cycle takes a byte; the end of a machine cycle.    *)
(***************************************************************************)
Quiet ==
  /\ ~T_Res /\ ~Done /\ ~Done'
  /\ Stays \/ Advances
  /\ TState' <= 2 <=> TState <= 2
  /\ UNCHANGED << PC, DO, BTR_r, IR, XY_State, cc >>

Takes == MCycle = 1 /\ TState = 2 /\ ~T_Res /\ Advances /\ FetchOpcode /\ UNCHANGED << DO, BTR_r >>

Moves == MCycle # 1 /\ TState = 2 /\ ~T_Res /\ Advances /\ MidCycle /\ IndexPage

Ends ==
  /\ T_Res /\ KeepsOpcode /\ XY_Ind' = XY_Ind
  /\ IF ClkEn THEN EndOfCycle ELSE UNCHANGED << PC, A, DO, BTR_r, IStatus >>

\* T2 of the other machine cycles lasts until WAIT_n is high, or is not read at all.
LEMMA ByteWaits ==
  ASSUME Inv, FInv, IOWaits, NEW wait_n, Sequencer(wait_n), MCycle # 1, TState = 2
  PROVE  IF wait_n \/ On("NoRead") THEN Advances ELSE Stays
<1> USE DEF Inv, FInv
<1>1. ~T_Res /\ ~BusAck
  BY Timing DEF T_Res, GrantedAtEnd
<1>2. ~AutoWaiting
  BY DEF IOWaits, AutoWaiting, Auto_Wait
<1>3. ~HoldForBus /\ ~GrantBus /\ ~StretchT1(wait_n)
  BY <1>1, <1>2 DEF HoldForBus, Held, GrantBus, StretchT1
<1>4. ~FetchDisplacement /\ ~ResumeAfterDisplacement /\ ~EndInstruction /\ ~NextMachineCycle
  BY <1>1 DEF FetchDisplacement, ResumeAfterDisplacement, EndInstruction, NextMachineCycle,
              EnterCycle, CycleEnds
<1>5. StretchT2(wait_n) \/ NextTState(wait_n)
  BY <1>3, <1>4 DEF Sequencer
<1> QED
  BY <1>1, <1>5 DEF StretchT2, NextTState, Waiting, Advances, Stays, sequencer

LEMMA ClockShape ==
  ASSUME Inv, FInv, IOWaits, NEW wait_n \in BOOLEAN, Sequencer(wait_n), DataPath(wait_n)
  PROVE  Quiet \/ Takes \/ Moves \/ Ends
<1> USE DEF Inv, FInv
<1>1. CASE T_Res
  <2>1. KeepsOpcode /\ XY_Ind' = XY_Ind /\ (ClkEn => EndOfCycle)
    BY <1>1, AtEnd
  <2>2. ~ClkEn => UNCHANGED << PC, A, DO, BTR_r, IStatus >>
    BY DEF DataPath, datapath
  <2> QED
    BY <1>1, <2>1, <2>2 DEF Ends
<1>2. CASE ~T_Res
  <2>1. Stays \/ Advances
    <3>1. ~Enters
      BY <1>2 DEF Enters, CycleEnds
    <3> QED
      BY <3>1, SequencerStep
  <2>2. ~Done /\ ~Done'
    <3>1. ~Done
      BY <1>2 DEF Done, GrantedAtEnd
    <3>2. ~Enters
      BY <1>2 DEF Enters, CycleEnds
    <3>3. Advances \/ (Stays /\ (BusAck' => T_Res \/ Held))
      BY <3>2, SequencerStep
    <3>4. CASE Advances
      BY <3>1, <3>4 DEF Advances, Done
    <3>5. CASE Stays /\ (BusAck' => T_Res \/ Held)
      <4>1. TState' = TState /\ (BusAck' => BusAck)
        BY <1>2, <3>5 DEF Stays, Held
      <4> QED
        BY <3>1, <4>1 DEF Done
    <3> QED
      BY <3>1, <3>3, <3>4, <3>5
  <2>3. TState \in 0..6
    BY DEF TypeOK
  <2>4. CASE TState # 2
    <3>1. TState' <= 2 <=> TState <= 2
      BY <2>1, <2>3, <2>4 DEF Stays, Advances
    <3>2. UNCHANGED << PC, DO, BTR_r, IR, XY_State, cc >>
      BY <1>2, <2>4 DEF DataPath, datapath, decoded, IndexPage
    <3> QED
      BY <1>2, <2>1, <2>2, <3>1, <3>2 DEF Quiet
  <2>5. CASE TState = 2
    <3>1. ClkEn
      BY <1>2, <2>5 DEF ClkEn, GrantedAtEnd
    <3>2. CASE MCycle = 1
      <4>1. IF wait_n THEN Advances ELSE Stays
        BY <2>5, <3>2, FetchWaits
      <4>2. CASE wait_n
        BY <1>2, <2>5, <3>1, <3>2, <4>1, <4>2 DEF DataPath, Takes
      <4>3. CASE ~wait_n
        <5>1. UNCHANGED << PC, DO, BTR_r, IR, XY_State, cc >>
          BY <2>5, <3>1, <3>2, <4>3 DEF DataPath
        <5>2. TState' <= 2 <=> TState <= 2
          BY <4>1, <4>3 DEF Stays
        <5> QED
          BY <1>2, <2>1, <2>2, <5>1, <5>2 DEF Quiet
      <4> QED
        BY <4>2, <4>3
    <3>3. CASE MCycle # 1
      <4>1. IF wait_n \/ On("NoRead") THEN Advances ELSE Stays
        BY <2>5, <3>3, ByteWaits
      <4>2. CASE wait_n \/ On("NoRead")
        BY <1>2, <2>5, <3>1, <3>3, <4>1, <4>2 DEF DataPath, Moves
      <4>3. CASE ~(wait_n \/ On("NoRead"))
        <5>1. UNCHANGED << PC, DO, BTR_r, IR, XY_State, cc >>
          BY <1>2, <2>5, <3>1, <3>3, <4>3 DEF DataPath, IndexPage
        <5>2. TState' <= 2 <=> TState <= 2
          BY <4>1, <4>3 DEF Stays
        <5> QED
          BY <1>2, <2>1, <2>2, <5>1, <5>2 DEF Quiet
      <4> QED
        BY <4>2, <4>3
    <3> QED
      BY <3>2, <3>3
  <2> QED
    BY <2>4, <2>5
<1> QED
  BY <1>1, <1>2
-------------------------------------------------------------------------------
(***************************************************************************)
(* In the middle of a machine cycle.                                        *)
(***************************************************************************)
Stepped(wait_n) ==
  /\ Step(wait_n)
  /\ pushed' = IF Completes THEN NoPush ELSE Written
  /\ seen' = IF Completes THEN View ELSE seen

LEMMA Shape ==
  ASSUME Known, NEW wait_n \in BOOLEAN, Stepped(wait_n)
  PROVE  Quiet \/ Takes \/ Moves \/ Ends
BY ClockShape DEF Known, ArchInv, Stepped, Step

LEMMA MidStep ==
  ASSUME Known, NEW wait_n \in BOOLEAN, Stepped(wait_n), ~T_Res
  PROVE  /\ ~Completes /\ ~Done /\ pushed' = pushed /\ seen' = seen
         /\ UNCHANGED << MCycle, NMICycle, IntCycle, Pre_XY_F_M >>
         /\ TState' = TState \/ TState' = TState + 1
         /\ Halt_FF' <=> Halt_FF /\ ~IntCycle /\ ~NMICycle
         /\ IntE_FF1' = IF TState = 3 /\ On("SetDI") THEN FALSE
                        ELSE IF TState = 2 /\ On("I_RETN") THEN IntE_FF2 /\ ~NMICycle
                        ELSE IF TState = 2 /\ On("SetEI") THEN ~NMICycle ELSE IntE_FF1
         /\ IntE_FF2' = IF TState = 3 /\ On("SetDI") THEN FALSE
                        ELSE IntE_FF2 \/ (TState = 2 /\ On("SetEI"))
         /\ IStatus' = IF ~ClkEn THEN IStatus
                       ELSE CASE On("IM0") -> 0 [] On("IM1") -> 1 [] On("IM2") -> 2
                              [] OTHER -> IStatus
         /\ TState # 0 => ClkEn
<1> USE DEF Known, Inv
<1>1. ~Completes /\ ~AcceptsNMI /\ ~AcceptsINT /\ ~Enters
  BY DEF Completes, CycleEnds, AcceptsNMI, AcceptsINT, Enters
<1>2. ~Done /\ (TState # 0 => ClkEn)
  BY DEF Done, ClkEn, GrantedAtEnd
<1>3. pushed' = pushed /\ seen' = seen
  BY <1>1 DEF Stepped, Written
<1>4. Stays \/ Advances
  BY <1>1, SequencerStep DEF Stepped, Step
<1>5. /\ UNCHANGED << MCycle, NMICycle, IntCycle, Pre_XY_F_M >>
      /\ TState' = TState \/ TState' = TState + 1
  BY <1>4 DEF Stays, Advances
<1>6. Halt_FF' <=> Halt_FF /\ ~IntCycle /\ ~NMICycle
  BY DEF Stepped, Step, HaltAndM1
<1>7. /\ IntE_FF1' = IF TState = 3 /\ On("SetDI") THEN FALSE
                     ELSE IF TState = 2 /\ On("I_RETN") THEN IntE_FF2 /\ ~NMICycle
                     ELSE IF TState = 2 /\ On("SetEI") THEN ~NMICycle ELSE IntE_FF1
      /\ IntE_FF2' = IF TState = 3 /\ On("SetDI") THEN FALSE
                     ELSE IntE_FF2 \/ (TState = 2 /\ On("SetEI"))
  BY <1>1 DEF Stepped, Step, InterruptEnables
<1>8. IStatus' = IF ~ClkEn THEN IStatus
                 ELSE CASE On("IM0") -> 0 [] On("IM1") -> 1 [] On("IM2") -> 2
                        [] OTHER -> IStatus
  BY DEF Stepped, Step, DataPath, datapath
<1> QED
  BY <1>1, <1>2, <1>3, <1>5, <1>6, <1>7, <1>8

LEMMA HaltMid ==
  ASSUME Known, NEW wait_n \in BOOLEAN, Stepped(wait_n), ~T_Res,
         ~Fetched' => ~Fetched /\ IR' = IR
  PROVE  HaltKnown'
<1> USE DEF Known, ArchInv
<1>1. /\ seen' = seen /\ ~Done
      /\ Halt_FF' <=> Halt_FF /\ ~IntCycle /\ ~NMICycle
  BY MidStep
<1>2. Responds(seen) <=> NMICycle \/ IntCycle
  BY ThisFacts, Whereabouts DEF Answers, Responds, Views, Inv
<1>3. seen.halted => ~Responds(seen)
  BY Whereabouts DEF Answers
<1>4. seen.halted => Halt_FF'
  BY <1>1, <1>2, <1>3 DEF HaltKnown
<1>5. ~(Halt_FF' /\ ~seen.halted)
  BY <1>1, <1>2 DEF HaltKnown
<1>6. ~Fetched' /\ IR' = "HALT" => Halt_FF' \/ Responds(seen)
  BY <1>1, <1>2 DEF HaltKnown
<1> QED
  BY <1>1, <1>4, <1>5, <1>6 DEF HaltKnown

LEMMA QuietKeeps ==
  ASSUME Known, NEW wait_n \in BOOLEAN, Stepped(wait_n), Quiet
  PROVE  /\ KeepsOpcode \/ (SwitchesPage /\ ClkEn)
         /\ XY_Ind' <=> XY_Ind \/ (MCycle = 6 /\ ClkEn)
         /\ MCycle = 6 /\ ClkEn /\ Prefix = 1 => ISet' = 1
<1> USE DEF Known
<1>1. ~(Fetches /\ wait_n)
  <2> SUFFICES ASSUME Fetches, wait_n PROVE FALSE
    OBVIOUS
  <2>1. MCycle = 1 /\ TState = 2
    BY DEF Fetches
  <2>2. Advances
    BY <2>1, FetchWaits DEF Stepped, Step
  <2> QED
    BY <2>1, <2>2 DEF Quiet, Advances
<1>2. ReadsLast => KeepsOpcode
  BY DEF Quiet, ReadsLast, KeepsOpcode
<1> QED
  BY <1>1, <1>2, MarkStep DEF Stepped, Step

\* Until T2 of M1 is over nothing that a boundary shows changes.
LEMMA BoundaryMid ==
  ASSUME Known, NEW wait_n \in BOOLEAN, Stepped(wait_n), Quiet, ~Fetched
  PROVE  AtBoundary' /\ ~Fetched' /\ IR' = IR /\ ISet' = ISet /\ This' = This
<1> USE DEF Known, ArchInv
<1>1. ~T_Res /\ MCycle = 1 /\ TState <= 2 /\ TState \in 0..6
  BY Whereabouts DEF Quiet, Fetched
<1>2. UNCHANGED << MCycle, NMICycle, IntCycle, seen >>
  BY <1>1, MidStep
<1>3. TState' <= 2 /\ PC' = PC /\ IR' = IR /\ XY_State' = XY_State /\ cc' = cc
  BY <1>1 DEF Quiet
<1>4. ~Fetched'
  <2>1. TState' = TState \/ TState' = TState + 1
    BY <1>1, MidStep
  <2> QED
    BY <1>1, <1>2, <1>3, <2>1 DEF Fetched
<1>5. KeepsOpcode
  BY <1>1, QuietKeeps DEF SwitchesPage
<1>6. This' = This /\ ISet' = ISet
  BY <1>2, <1>5, ThisKept DEF KeepsOpcode
<1>7. PC' = seen.pc /\ Prefix' = seen.page
  <2>1. Prefix' = Prefix
    BY <1>2, <1>5, SameCount
  <2> QED
    BY <1>3, <2>1 DEF AtBoundary
<1>8. Modes[1] = "IM0" /\ Modes[2] = "IM1" /\ Modes[3] = "IM2"
  BY DEF Modes
<1>9. \A m \in 1..3 : IR = Modes[m] => seen.im = m - 1
  BY DEF AtBoundary
<1>10. IStatus' = seen.im
  <2>1. IStatus = seen.im
    BY DEF AtBoundary
  <2>2. /\ IR = "IM0" => seen.im = 0
        /\ IR = "IM1" => seen.im = 1
        /\ IR = "IM2" => seen.im = 2
    BY <1>8, <1>9
  <2>3. IStatus' = IF ~ClkEn THEN IStatus
                   ELSE CASE On("IM0") -> 0 [] On("IM1") -> 1 [] On("IM2") -> 2
                          [] OTHER -> IStatus
    BY <1>1, MidStep
  <2> QED
    BY <1>1, <2>1, <2>2, <2>3, Acts
<1>11. IF IR = "EI" THEN (seen.iff1 <=> ~NMICycle) /\ seen.iff2
       ELSE IntE_FF1' = seen.iff1 /\ IntE_FF2' = seen.iff2
  <2>1. SUFFICES ASSUME IR # "EI" PROVE IntE_FF1' = seen.iff1 /\ IntE_FF2' = seen.iff2
    BY DEF AtBoundary
  <2>2. ~On("SetEI") /\ ~On("I_RETN") /\ TState # 3
    BY <1>1, <2>1, Acts
  <2>3. IntE_FF1' = IntE_FF1 /\ IntE_FF2' = IntE_FF2
    BY <1>1, <2>2, MidStep DEF Known, Inv, TypeOK
  <2> QED
    BY <2>1, <2>3 DEF AtBoundary
<1> QED
  BY <1>2, <1>3, <1>4, <1>6, <1>7, <1>9, <1>10, <1>11 DEF AtBoundary

\* A step in the middle of an instruction changes the opcode in the displacement cycles of DD CB
\* only: first its page, then the opcode itself.
Changes ==
  /\ This.xy /\ This'.xy /\ This.ir = "CB" /\ This'.iset = 1
  /\ ~This.cc /\ ~This'.cc /\ ~This'.nmi /\ ~This'.int
  /\ \/ Quiet /\ MCycle = 6 /\ This'.ir = "CB"
     \/ Moves /\ MCycle = 7 /\ This.iset = 1 /\ This'.ir \in Opcodes[1]
  /\ Fits(This', seen) /\ This' \in Programmed
  /\ DisplacementRule(This') /\ IndexRule(This', 1)

LEMMA OpcodeChange ==
  ASSUME Known, Inv', NEW wait_n \in BOOLEAN, Stepped(wait_n), Quiet \/ Moves
  PROVE  \/ Changes
         \/ This' = This /\ ~(Moves /\ MCycle = 7 /\ IR = "CB")
<1> USE DEF Known, Inv, FInv, ArchInv
<1>1. /\ This \in Decoded /\ This' \in Decoded
      /\ This.ir = IR /\ This.iset = ISet /\ This.cc = cc /\ This.xy = XY_State
      /\ This'.ir = IR' /\ This'.iset = ISet' /\ This'.cc = cc' /\ This'.xy = XY_State'
      /\ This'.nmi = NMICycle' /\ This'.int = IntCycle'
  BY ThisFacts, ThisAfter
<1>2. ~T_Res /\ UNCHANGED << MCycle, NMICycle, IntCycle >>
  BY MidStep DEF Quiet, Moves
<1>a. MCycle \in 6..7 =>
        /\ Fetched /\ This.xy /\ Ordinary(seen) /\ ~Responds(seen)
        /\ Fits(This, seen) /\ seen \in Views /\ Answers(This, seen)
  BY Whereabouts
<1>3. ASSUME MCycle \in 6..7, IR = "CB", ISet' = 1, XY_State' = XY_State, cc' = cc,
             IR' \in Opcodes[1] \/ IR' = "CB",
             \/ Quiet /\ MCycle = 6 /\ IR' = "CB"
             \/ Moves /\ MCycle = 7 /\ ISet = 1 /\ IR' \in Opcodes[1]
      PROVE  Changes
  <2>1. "CB" \notin FlagTested
    BY PageFacts, SetFacts DEF Program!Conditional
  <2>2. ~cc /\ XY_State
    BY <1>1, <1>3, <1>a, <2>1 DEF Fits
  <2>3. Fits(This', seen)
    BY <1>1, <1>3, <1>a, <2>2 DEF Fits
  <2>4. Answers(This', seen) /\ ~NMICycle' /\ ~IntCycle'
    <3>1. This.nmi = NMICycle /\ This.int = IntCycle
      BY ThisFacts
    <3>2. ~NMICycle /\ ~IntCycle
      BY <1>3, <1>a, <3>1 DEF Answers, Responds
    <3>3. NMICycle' = FALSE /\ IntCycle' = FALSE
      BY <1>2, <3>2, <1>1, DecodedFacts
    <3>4. seen.response = "none" /\ ~Responds(seen) /\ Ordinary(seen)
      BY <1>3, <1>a DEF Responds
    <3> QED
      BY <1>1, <3>3, <3>4 DEF Answers
  <2>5. This' \in Programmed
    BY <1>1, <1>3, <1>a, <2>3, <2>4, NotResponding
  <2>6. DisplacementRule(This') /\ IndexRule(This', 1)
    <3>1. Reaches(This', 1)
      BY DEF Reaches
    <3>2. This'.xy
      BY <1>1, <1>3, <2>2
    <3>3. 1 \in 1..5
      OBVIOUS
    <3> QED
      BY ONLY <2>5, <3>1, <3>2, <3>3, OpcodeRules
  <2>7. ~cc' /\ XY_State'
    BY <1>3, <2>2
  <2> QED
    BY <1>1, <1>3, <2>2, <2>3, <2>4, <2>5, <2>6, <2>7 DEF Changes
<1>4. CASE Quiet
  <2>1. KeepsOpcode \/ SwitchesPage
    BY <1>4, QuietKeeps
  <2>2. CASE KeepsOpcode
    <3>1. ~Moves
      BY <1>4 DEF Quiet, Moves, Advances
    <3>2. This' = This
      BY <1>2, <2>2, ThisKept
    <3> QED
      BY <3>1, <3>2
  <2>3. CASE SwitchesPage
    <3>1. MCycle = 6 /\ IR = "CB" /\ ISet' = 1 /\ UNCHANGED << IR, XY_State, cc >>
      BY <2>3, Counting DEF SwitchesPage
    <3> QED
      BY <1>3, <1>4, <3>1
  <2> QED
    BY <2>1, <2>2, <2>3
<1>5. CASE Moves
  <2>1. /\ TState = 2 /\ MCycle # 1 /\ MidCycle /\ IndexPage
        /\ UNCHANGED << XY_State, cc >>
    BY <1>5 DEF Moves, IndexPage
  <2>2. ISet' = ISet
    <3>1. MCycle = 6 => Prefix # 1
      BY <2>1 DEF Displacing
    <3> QED
      BY <2>1, <3>1 DEF IndexPage
  <2>3. CASE ISet = 1 /\ MCycle = 7
    <3>1. IR' \in Opcodes[1]
      BY <2>1, <2>3 DEF MidCycle
    <3>2. IR = "CB"
      BY <2>1, <2>3 DEF OpcodeKnown, Fetched
    <3> QED
      BY <1>3, <1>5, <2>1, <2>2, <2>3, <3>1, <3>2
  <2>4. CASE ~(ISet = 1 /\ MCycle = 7)
    <3>1. IR' = IR
      BY <2>1, <2>4 DEF MidCycle
    <3>2. This' = This
      BY <1>2, <2>1, <2>2, <3>1, ThisKept DEF KeepsOpcode
    <3>3. ~(MCycle = 7 /\ IR = "CB")
      <4> SUFFICES ASSUME MCycle = 7, IR = "CB" PROVE FALSE
        OBVIOUS
      <4>1. ISet \in 0..1
        BY <1>1, <1>a DEF Fits
      <4>2. ISet # 0
        BY Counting DEF Displacing
      <4> QED
        BY <2>4, <4>1, <4>2
    <3> QED
      BY <3>2, <3>3
  <2> QED
    BY <2>3, <2>4
<1> QED
  BY <1>4, <1>5

\* What the core has got to is known through the middle of an instruction.
LEMMA OpcodeMid ==
  ASSUME Known, Inv', NEW wait_n \in BOOLEAN, Stepped(wait_n), (Quiet /\ Fetched) \/ Moves
  PROVE  Fetched' /\ OpcodeKnown' /\ FlowKnown' /\ FlagsKnown'
<1> USE DEF Known, Inv, FInv, ArchInv
<1>1. /\ This.ir = IR /\ This.iset = ISet /\ This.cc = cc /\ This.xy = XY_State
      /\ This'.ir = IR' /\ This'.iset = ISet' /\ This'.cc = cc' /\ This'.xy = XY_State'
  BY ThisFacts, ThisAfter
<1>2. /\ ~T_Res /\ UNCHANGED << MCycle, NMICycle, IntCycle, Pre_XY_F_M, seen >>
      /\ MCycle \in 1..7 /\ TState \in 0..6 /\ Fetched
  <2>1. ~T_Res /\ Fetched
    BY DEF Quiet, Moves, Fetched
  <2> QED
    BY <2>1, MidStep, Whereabouts
<1>3. /\ TState' = TState \/ TState' = TState + 1
      /\ TState' <= 2 => TState <= 2
      /\ Moves => MCycle # 1 /\ TState = 2 /\ TState' = 3
      /\ Quiet => (TState' <= 2 <=> TState <= 2)
  <2>1. TState' = TState \/ TState' = TState + 1
    BY <1>2, MidStep
  <2>2. Moves => MCycle # 1 /\ TState = 2 /\ TState' = 3
    BY DEF Moves, Advances
  <2>3. Quiet => (TState' <= 2 <=> TState <= 2)
    BY DEF Quiet
  <2> QED
    BY <1>2, <2>1, <2>2, <2>3
<1>4. Fetched'
  BY <1>2, <1>3 DEF Fetched
<1>5. XY_Ind' <=> XY_Ind \/ (MCycle = 6 /\ (Moves \/ ClkEn))
  <2>1. CASE Quiet /\ ~Moves
    BY <2>1, QuietKeeps
  <2>2. CASE Moves
    BY <2>2 DEF Moves, IndexPage
  <2> QED
    BY <2>1, <2>2
<1>6. CASE Changes
  <2>1. MCycle \in 6..7 /\ (MCycle = 6 => IR' = "CB") /\ (MCycle = 7 => TState' = 3 /\ IR' # "CB")
    BY <1>1, <1>3, <1>6, PageFacts DEF Changes
  <2>2. OpcodeKnown'
    BY <1>1, <1>2, <1>6, <2>1 DEF OpcodeKnown, Changes
  <2>3. FlowKnown'
    <3>1. Pre_XY_F_M = 1
      BY <1>1, <1>2, <1>6, <2>1 DEF FlowKnown, Changes
    <3> QED
      BY <1>1, <1>2, <1>6, <2>1, <3>1 DEF FlowKnown, Changes
  <2>4. FlagsKnown'
    <3>1. IR = "CB" /\ ISet' = 1 /\ DisplacementRule(This') /\ IndexRule(This', 1)
      BY <1>1, <1>6 DEF Changes
    <3>2. IR' \notin {"DI", "IM0", "IM1", "IM2"}
      BY <1>1, <3>1 DEF IndexRule
    <3>3. "I_RETN" \notin Raised(This', MCycle')
      BY <1>2, <2>1, <3>1 DEF DisplacementRule
    <3>4. /\ ~On("SetEI") /\ ~On("SetDI") /\ ~On("I_RETN") /\ ~On("IM0") /\ ~On("IM1") /\ ~On("IM2")
          /\ "I_RETN" \notin Raised(This, MCycle)
      BY <2>1, Acts
    <3>5. IntE_FF1' = IntE_FF1 /\ IntE_FF2' = IntE_FF2 /\ IStatus' = IStatus
      BY <1>2, <3>4, MidStep DEF TypeOK
    <3>6. IntE_FF2 = seen.iff2 /\ IntE_FF1 = seen.iff1 /\ IStatus = seen.im
      BY <1>2, <2>1, <3>1, <3>4 DEF FlagsKnown
    <3> QED
      BY <1>2, <3>2, <3>3, <3>5, <3>6 DEF FlagsKnown
  <2> QED
    BY <1>4, <2>2, <2>3, <2>4
<1>7. CASE This' = This /\ ~(Moves /\ MCycle = 7 /\ IR = "CB")
  <2>1. IR' = IR /\ ISet' = ISet /\ XY_State' = XY_State /\ cc' = cc
    BY <1>1, <1>7
  <2>2. OpcodeKnown'
    <3>1. ASSUME IR = "CB", XY_State, MCycle = 7 PROVE TState' <= 2
      <4>1. TState <= 2
        BY <1>2, <3>1 DEF OpcodeKnown
      <4> QED
        BY <1>3, <1>7, <3>1, <4>1
    <3> QED
      BY <1>2, <1>3, <1>7, <2>1, <3>1 DEF OpcodeKnown
  <2>3. FlowKnown'
    BY <1>2, <1>3, <1>5, <1>7, <2>1 DEF FlowKnown
  <2>4. FlagsKnown'
    <3>1. /\ On("SetEI") <=> IR = "EI" /\ MCycle = 1
          /\ On("SetDI") <=> IR = "DI" /\ MCycle = 1
          /\ On("IM0") <=> IR = "IM0" /\ MCycle = 1
          /\ On("IM1") <=> IR = "IM1" /\ MCycle = 1
          /\ On("IM2") <=> IR = "IM2" /\ MCycle = 1
          /\ On("I_RETN") => IR = "RETN" /\ MCycle \in 2..5
          /\ On("I_RETN") <=> "I_RETN" \in Raised(This, MCycle)
      BY Acts
    <3>2. /\ IntE_FF1' = IF TState = 3 /\ On("SetDI") THEN FALSE
                         ELSE IF TState = 2 /\ On("I_RETN") THEN IntE_FF2 /\ ~NMICycle
                         ELSE IF TState = 2 /\ On("SetEI") THEN ~NMICycle ELSE IntE_FF1
          /\ IntE_FF2' = IF TState = 3 /\ On("SetDI") THEN FALSE
                         ELSE IntE_FF2 \/ (TState = 2 /\ On("SetEI"))
          /\ IStatus' = IF ~ClkEn THEN IStatus
                        ELSE CASE On("IM0") -> 0 [] On("IM1") -> 1 [] On("IM2") -> 2
                               [] OTHER -> IStatus
          /\ TState # 0 => ClkEn
      BY <1>2, MidStep
    <3>3. MCycle = 1 => TState >= 3 /\ ClkEn
      BY <1>2, <3>2 DEF Fetched
    <3>4. ~On("SetEI") \/ TState # 2
      BY <3>1, <3>3
    <3>5. /\ IntE_FF1 \in BOOLEAN /\ IntE_FF2 \in BOOLEAN /\ seen.iff1 \in BOOLEAN
          /\ seen.iff2 \in BOOLEAN
      BY <1>2, Whereabouts DEF TypeOK, Views
    <3>6. IF IR = "DI"
          THEN (MCycle = 1 /\ TState' = 3) \/ (~IntE_FF1' /\ ~IntE_FF2')
          ELSE /\ IntE_FF2' = seen.iff2
               /\ IF "I_RETN" \in Raised(This, MCycle)
                  THEN TState' >= 3 => IntE_FF1' = seen.iff2
                  ELSE IntE_FF1' = seen.iff1
      <4>1. CASE IR = "DI"
        <5>1. ~On("I_RETN")
          BY <3>1, <4>1
        <5>2. (MCycle = 1 /\ TState = 3) \/ (~IntE_FF1 /\ ~IntE_FF2)
          BY <1>2, <4>1 DEF FlagsKnown
        <5>3. ~IntE_FF1' /\ ~IntE_FF2'
          BY <3>1, <3>2, <3>4, <4>1, <5>1, <5>2
        <5> QED
          BY <4>1, <5>3
      <4>2. CASE IR # "DI"
        <5>1. IntE_FF2' = seen.iff2 /\ IntE_FF2 = seen.iff2
          BY <1>2, <3>1, <3>2, <3>4, <3>5, <4>2 DEF FlagsKnown
        <5>2. CASE On("I_RETN")
          <6>1. ~NMICycle
            <7>1. IR = "RETN"
              BY <3>1, <5>2
            <7>2. ~Responds(seen)
              BY <1>1, <1>2, <7>1, Whereabouts, Responding, ThisFacts
            <7> QED
              BY <7>2, Whereabouts, ThisFacts DEF Answers, Responds
          <6>2. TState = 2 => IntE_FF1' = seen.iff2
            BY <3>1, <3>2, <3>5, <5>1, <5>2, <6>1
          <6>3. ASSUME TState # 2, TState' >= 3 PROVE TState >= 3 /\ IntE_FF1' = IntE_FF1
            <7>1. TState >= 3
              BY <1>2, <1>3, <6>3
            <7>2. ~On("SetDI")
              BY <3>1, <4>2
            <7> QED
              BY <3>2, <6>3, <7>1, <7>2
          <6>4. TState >= 3 => IntE_FF1 = seen.iff2
            BY <1>2, <3>1, <4>2, <5>2 DEF FlagsKnown
          <6> QED
            BY <3>1, <4>2, <5>1, <5>2, <6>2, <6>3, <6>4
        <5>3. CASE ~On("I_RETN")
          <6>1. IntE_FF1' = IntE_FF1
            BY <3>1, <3>2, <3>4, <4>2, <5>3
          <6> QED
            BY <1>2, <3>1, <4>2, <5>1, <5>3, <6>1 DEF FlagsKnown
        <5> QED
          BY <5>2, <5>3
      <4> QED
        BY <4>1, <4>2
    <3>7. IStatus' = CASE IR = "IM0" -> 0 [] IR = "IM1" -> 1 [] IR = "IM2" -> 2
                       [] OTHER -> seen.im
      <4>1. CASE MCycle = 1 /\ IR \in {"IM0", "IM1", "IM2"}
        BY <3>1, <3>2, <3>3, <4>1
      <4>2. CASE ~(MCycle = 1 /\ IR \in {"IM0", "IM1", "IM2"})
        <5>1. IStatus' = IStatus
          BY <3>1, <3>2, <4>2
        <5> QED
          BY <1>2, <4>2, <5>1 DEF FlagsKnown
      <4> QED
        BY <4>1, <4>2
    <3> QED
      BY <1>2, <1>7, <2>1, <3>6, <3>7 DEF FlagsKnown
  <2> QED
    BY <1>4, <2>2, <2>3, <2>4
<1> QED
  BY <1>6, <1>7, OpcodeChange

\* PC and the stack through the middle of an instruction.
LEMMA DataMid ==
  ASSUME Known, Inv', NEW wait_n \in BOOLEAN, Stepped(wait_n), (Quiet /\ Fetched) \/ Moves
  PROVE  DataKnown'
<1> USE DEF Known, Inv, FInv, ArchInv
<1>1. /\ ~T_Res /\ UNCHANGED << MCycle, pushed, seen >>
      /\ MCycle \in 1..7 /\ TState \in 0..6 /\ Fetched /\ ~Done
  <2>1. ~T_Res /\ Fetched
    BY DEF Quiet, Moves, Fetched
  <2> QED
    BY <2>1, MidStep, Whereabouts
<1>2. ~Done' /\ DO' = DO /\ BTR_r' = BTR_r
  BY DEF Quiet, Moves, Advances, Done, MidCycle
<1>3. This \in Decoded /\ seen \in Views /\ Answers(This, seen) /\ Fits(This, seen)
  BY <1>1, ThisFacts, Whereabouts
<1>4. /\ IF TState <= 2 THEN EarlyPC(This, seen, MCycle, PC) ELSE LatePC(This, seen, MCycle, PC)
      /\ MCycle \in 2..5 => Carried(This, seen, MCycle - 1, DO, BTR_r, pushed)
      /\ MCycle \in 6..7 => Nothing(DO, BTR_r, pushed)
      /\ MCycle = 1 => pushed = NoPush
      /\ pushed = << pushed[1], pushed[2] >>
  BY <1>1 DEF DataKnown
<1>5. Changes => MCycle \in 6..7
  BY DEF Changes
<1>6. MCycle \in 2..5 => Carried(This', seen, MCycle - 1, DO, BTR_r, pushed)
  <2>1. MCycle \in 2..5 => This' = This
    BY <1>5, OpcodeChange
  <2> QED
    BY <1>4, <2>1
<1>7. IF TState' <= 2 THEN EarlyPC(This', seen, MCycle, PC') ELSE LatePC(This', seen, MCycle, PC')
  <2>1. MCycle \in 6..7 => /\ This.xy /\ ~Responds(seen) /\ ~seen.halted
                           /\ DisplacementRule(This)
    BY Whereabouts
  <2>2. CASE Quiet
    <3>1. PC' = PC /\ (TState' <= 2 <=> TState <= 2)
      BY <2>2 DEF Quiet
    <3>2. CASE This' = This
      BY <1>4, <3>1, <3>2
    <3>3. CASE Changes
      <4>1. MCycle = 6
        BY <2>2, <3>3 DEF Changes, Quiet, Moves, Advances
      <4> QED
        BY <1>4, <2>1, <3>1, <4>1 DEF EarlyPC, LatePC
    <3> QED
      BY <3>2, <3>3, OpcodeChange
  <2>3. CASE Moves
    <3>1. MCycle # 1 /\ TState = 2 /\ TState' = 3 /\ MidCycle
      BY <2>3 DEF Moves, Advances
    <3>2. EarlyPC(This, seen, MCycle, PC) /\ BTR_r \in BOOLEAN
      BY <1>4, <3>1 DEF TypeOK
    <3>3. ByteTo(This, MCycle, BTR_r, PC, PC')
      <4>1. \A o : On(o) <=> o \in Raised(This, MCycle)
        BY ThisFacts DEF On
      <4> QED
        BY <3>1, <4>1 DEF MidCycle, ByteTo
    <3>4. LatePC(This, seen, MCycle, PC')
      <4>1. CASE MCycle \in 2..5
        <5>1. Reaches(This, MCycle) /\ Round(This, MCycle - 1, BTR_r)
          BY <1>4, <4>1, Whereabouts DEF Carried
        <5> QED
          BY ONLY <1>3, <3>2, <3>3, <4>1, <5>1, ByteOfCycle
      <4>2. CASE MCycle \in 6..7
        <5>1. ~BTR_r
          BY <1>4, <4>2 DEF Nothing
        <5> QED
          BY <1>3, <2>1, <3>2, <3>3, <4>2, <5>1, ByteOfDisplacement
      <4> QED
        BY <1>1, <3>1, <4>1, <4>2
    <3>5. CASE This' = This
      BY <3>1, <3>4, <3>5
    <3>6. CASE Changes
      <4>1. MCycle = 7 /\ This.iset = 1 /\ This'.iset = 1 /\ DisplacementRule(This')
        BY <3>1, <3>6 DEF Changes, Quiet
      <4>2. "Inc_PC" \in Raised(This, 7) /\ "Inc_PC" \in Raised(This', 7)
        BY <2>1, <4>1 DEF DisplacementRule
      <4> QED
        BY <2>1, <3>1, <3>4, <4>1, <4>2 DEF LatePC
    <3> QED
      BY <3>5, <3>6, OpcodeChange
  <2> QED
    BY <2>2, <2>3
<1> QED
  BY <1>1, <1>2, <1>4, <1>6, <1>7 DEF DataKnown

ProgramStep == [Program!Next]_(Program!vars)

\* To the program nothing happens in the middle of an instruction, but that the opcode of
\* DD CB d is read.
LEMMA ProgramMid ==
  ASSUME Known, Inv', NEW wait_n \in BOOLEAN, Stepped(wait_n), Quiet \/ Moves
  PROVE  ProgramStep
<1> USE DEF Known, Inv, FInv, ArchInv
<1>1. ~T_Res /\ UNCHANGED << MCycle, seen >> /\ TState \in 0..6
  BY MidStep, Whereabouts DEF Quiet, Moves
<1>2. /\ This.ir = IR /\ This.iset = ISet /\ This.cc = cc /\ This.xy = XY_State
      /\ This'.ir = IR' /\ This'.iset = ISet' /\ This'.cc = cc' /\ This'.xy = XY_State'
      /\ This' \in Decoded /\ This \in Decoded
  BY ThisFacts, ThisAfter
<1>3. CASE UNCHANGED << IR, cc, XY_State >> /\ (MCycle = 1 => (TState' <= 2 <=> TState <= 2))
  <2>1. OpcodeInIR' = OpcodeInIR
    BY <1>1, <1>3 DEF OpcodeInIR
  <2> QED
    BY <1>1, <2>1 DEF ProgramStep, Program!vars
<1>4. CASE Quiet
  BY <1>3, <1>4 DEF Quiet
<1>5. CASE Moves
  <2>1. MCycle # 1
    BY <1>5 DEF Moves
  <2>2. CASE This' = This
    BY <1>2, <1>3, <2>1, <2>2
  <2>3. CASE Changes
    <3>1. /\ MCycle = 7 /\ IR = "CB" /\ XY_State /\ IR' \in Opcodes[1] /\ ISet = 1 /\ ~cc'
      BY <1>2, <1>5, <2>3 DEF Changes, Quiet, Moves, Advances
    <3>2. Ordinary(seen) /\ Fits(This, seen)
      BY <3>1, Whereabouts
    <3>3. seen.response = "none" /\ ~seen.halted /\ seen.page = 3
      BY <1>2, <3>1, <3>2 DEF Ordinary, Fits
    <3>4. "CB" \in Opcodes[0] /\ IR' # "CB"
      BY <1>2, <3>1, DecodedFacts, PageFacts DEF Decodes
    <3>5. OpcodeInIR = Program!NoOp
      BY <3>1 DEF OpcodeInIR, Program!NoOp
    <3>6. OpcodeInIR' = << IR', cc' >>
      BY <1>1, <3>1, <3>3, <3>4 DEF OpcodeInIR
    <3>7. IR' \in Program!Fetchable
      BY <3>1, <3>3, <3>4 DEF Program!Fetchable
    <3>8. cc' = FALSE
      BY <1>2, <3>1, DecodedFacts
    <3>9. Program!Fetch
      BY <1>1, <3>3, <3>5, <3>6, <3>7, <3>8 DEF Program!Fetch
    <3> QED
      BY <3>9 DEF ProgramStep, Program!Next
  <2> QED
    BY <2>2, <2>3, OpcodeChange
<1> QED
  BY <1>4, <1>5
-------------------------------------------------------------------------------
(***************************************************************************)
(* The opcode is read.                                                      *)
(***************************************************************************)
\* Before T2 of M1 is over, Halt_FF is what the boundary shows.
LEMMA HaltSeen ==
  ASSUME Known, MCycle = 1, TState = 2
  PROVE  (Halt_FF <=> seen.halted) /\ (IR = "HALT" => ~Ordinary(seen))
<1>1. ~Fetched /\ ~T_Res
  BY Timing DEF Known, Inv, Fetched, T_Res
<1>2. ~Done
  BY <1>1 DEF Known, Inv, Done, GrantedAtEnd
<1>3. Halt_FF \in BOOLEAN /\ seen.halted \in BOOLEAN
  BY Whereabouts DEF Known, Inv, TypeOK, Views
<1> QED
  BY <1>1, <1>2, <1>3 DEF Known, ArchInv, HaltKnown, Ordinary, Responds

LEMMA TakesFits ==
  ASSUME Known, Inv', NEW wait_n \in BOOLEAN, Stepped(wait_n), Takes
  PROVE  /\ Answers(This', seen) /\ Fits(This', seen)
         /\ PC' = IF Ordinary(seen) THEN From(seen, 1) ELSE seen.pc
         /\ ~XY_Ind'
<1> USE DEF Known, Inv, FInv, ArchInv
<1>1. /\ This'.ir = IR' /\ This'.iset = ISet' /\ This'.cc = cc' /\ This'.xy = XY_State'
      /\ This'.nmi = NMICycle' /\ This'.int = IntCycle' /\ This' \in Decoded
      /\ This.nmi = NMICycle /\ This.int = IntCycle
  BY ThisFacts, ThisAfter
<1>2. /\ MCycle = 1 /\ TState = 2 /\ FetchOpcode /\ ~Fetched
      /\ UNCHANGED << NMICycle, IntCycle >>
  BY DEF Takes, Advances, Fetched
<1>3. PC = seen.pc /\ Prefix = seen.page /\ IStatus = seen.im /\ seen.page \in 0..3
      /\ seen.im \in 0..2 /\ seen.response \in {"none", "NMI", "INT"}
  BY <1>2, Whereabouts DEF AtBoundary, Views
<1>4. (Halt_FF <=> seen.halted) /\ (IR = "HALT" => ~Ordinary(seen))
  BY <1>2, HaltSeen
<1>5. /\ NMICycle <=> seen.response = "NMI"
      /\ IntCycle <=> seen.response = "INT"
      /\ Responds(seen) => ~seen.halted
      /\ ~Ordinary(seen) => seen.page = 0
  BY <1>1, Whereabouts DEF Answers
<1>6. Answers(This', seen)
  BY <1>1, <1>2, <1>5 DEF Answers
<1>7. On("Halt") => IR = "HALT"
  BY Acts
<1>8. ~XY_Ind'
  BY <1>2 DEF FetchOpcode, IndexedOnce
<1>9. cc' => IR' \in FlagTested
  BY <1>2 DEF FetchOpcode
<1>9a. XY_State \in BOOLEAN /\ ~(Prefix = 1 /\ XY_State)
  BY <1>2 DEF IndexedOnce, TypeOK
<1>9b. (XY_State' <=> Prefix = 3) /\ ISet' = IF Prefix = 3 THEN 0 ELSE Prefix
  <2>1. FetchOpcode
    BY <1>2
  <2>2. CASE Prefix = 1
    BY <1>9a, <2>1, <2>2 DEF FetchOpcode
  <2>3. CASE Prefix # 1
    BY <2>1, <2>3 DEF FetchOpcode
  <2> QED
    BY <2>2, <2>3
<1>10. CASE Ordinary(seen)
  <2>1. ~NMICycle /\ ~IntCycle /\ ~Halt_FF /\ ~On("Halt")
    BY <1>4, <1>5, <1>7, <1>10 DEF Ordinary
  <2>2. PC' = Mod(seen.pc + 1)
    BY <1>2, <1>3, <2>1 DEF FetchOpcode
  <2>3. /\ IR' \in Opcodes[IF seen.page = 3 THEN 0 ELSE seen.page]
        /\ ISet' = IF seen.page = 3 THEN 0 ELSE seen.page
    BY <1>2, <1>3, <2>1 DEF FetchOpcode, OpcodeRead
  <2>4. XY_State' <=> seen.page = 3
    BY <1>3, <1>9b
  <2>5. Fits(This', seen)
    BY <1>1, <1>3, <1>9, <1>10, <2>3, <2>4 DEF Fits
  <2> QED
    BY <1>6, <1>8, <1>10, <2>2, <2>5 DEF From
<1>11. CASE ~Ordinary(seen)
  <2>1. seen.page = 0 /\ (NMICycle \/ IntCycle \/ Halt_FF)
    BY <1>3, <1>4, <1>5, <1>11 DEF Ordinary
  <2>2. PC' = seen.pc
    BY <1>2, <1>3, <2>1 DEF FetchOpcode
  <2>3. ISet' = 0 /\ ~XY_State'
    BY <1>3, <1>9b, <2>1
  <2>4. IR' = IF seen.response = "INT" /\ seen.im # 2 THEN "RST" ELSE "NOP"
    <3>1. IR' \in OpcodeRead
      BY <1>2 DEF FetchOpcode
    <3>2. CASE seen.response = "INT"
      <4>1. IntCycle /\ ~NMICycle /\ ~Halt_FF
        BY <1>4, <1>5, <3>2 DEF Responds
      <4> QED
        BY <1>3, <3>1, <3>2, <4>1, PageFacts DEF OpcodeRead
    <3>3. CASE seen.response # "INT"
      <4>1. ~IntCycle
        BY <1>5, <3>3
      <4> QED
        BY <2>1, <3>1, <3>3, <4>1 DEF OpcodeRead
    <3> QED
      BY <3>2, <3>3
  <2>5. ~cc'
    BY <1>9, <2>4, PageFacts DEF Program!Conditional, Program!Repeating
  <2>6. Fits(This', seen)
    BY <1>1, <1>9, <1>11, <2>3, <2>4, <2>5 DEF Fits
  <2> QED
    BY <1>6, <1>8, <1>11, <2>2, <2>6
<1> QED
  BY <1>10, <1>11

LEMMA TakesKnown ==
  ASSUME Known, Inv', NEW wait_n \in BOOLEAN, Stepped(wait_n), Takes
  PROVE  /\ Fetched' /\ AtBoundary' /\ HaltKnown'
         /\ OpcodeKnown' /\ FlowKnown' /\ FlagsKnown' /\ DataKnown'
<1> USE DEF Known, Inv, FInv, ArchInv
<1>1. /\ This'.ir = IR' /\ This'.iset = ISet' /\ This'.cc = cc' /\ This'.xy = XY_State'
      /\ This' \in Decoded
  BY ThisAfter
<1>2. /\ MCycle = 1 /\ TState = 2 /\ ~Fetched /\ ~T_Res /\ TState' = 3 /\ ~BusAck'
      /\ UNCHANGED << MCycle, DO, BTR_r >>
  BY DEF Takes, Advances, Fetched
<1>3. Answers(This', seen) /\ Fits(This', seen) /\ seen \in Views /\ ~XY_Ind'
      /\ PC' = IF Ordinary(seen) THEN From(seen, 1) ELSE seen.pc
  BY TakesFits, Whereabouts
<1>4. Fetched' /\ ~Done'
  BY <1>2 DEF Fetched, Done
<1>5. seen' = seen /\ pushed' = pushed /\ ~Done /\ ClkEn
  BY <1>2, MidStep
<1>6. AtBoundary'
  BY <1>4 DEF AtBoundary
<1>7. HaltKnown'
  BY <1>2, <1>4, HaltMid
<1>8. OpcodeKnown' /\ FlowKnown'
  BY <1>2, <1>3, <1>4, <1>5 DEF OpcodeKnown, FlowKnown
<1>9. Reaches(This', 1)
  BY DEF Reaches
<1>10. FlagsKnown'
  <2>1. "I_RETN" \notin Raised(This', 1)
    BY <1>1, <1>9, CommonRules DEF FlagRule
  <2>2. IntE_FF1' = seen.iff1 /\ IntE_FF2' = seen.iff2
    <3>1. ~On("I_RETN") /\ (On("SetEI") <=> IR = "EI")
      BY <1>2, Acts
    <3>2. /\ IntE_FF1' = IF IR = "EI" THEN ~NMICycle ELSE IntE_FF1
          /\ IntE_FF2' = (IntE_FF2 \/ IR = "EI")
      BY <1>2, <3>1, MidStep
    <3>3. IF IR = "EI" THEN (seen.iff1 <=> ~NMICycle) /\ seen.iff2
          ELSE IntE_FF1 = seen.iff1 /\ IntE_FF2 = seen.iff2
      BY <1>2 DEF AtBoundary
    <3>4. /\ seen.iff1 \in BOOLEAN /\ seen.iff2 \in BOOLEAN /\ IntE_FF2 \in BOOLEAN
          /\ NMICycle \in BOOLEAN
      BY Whereabouts DEF TypeOK, Views
    <3>5. CASE IR = "EI"
      BY <3>2, <3>3, <3>4, <3>5
    <3>6. CASE IR # "EI"
      BY <3>2, <3>3, <3>4, <3>6
    <3> QED
      BY <3>5, <3>6
  <2>3. IStatus' = seen.im
    <3>1. IStatus = seen.im /\ \A m \in 1..3 : IR = Modes[m] => seen.im = m - 1
      BY <1>2 DEF AtBoundary
    <3>2. /\ IR = "IM0" => seen.im = 0
          /\ IR = "IM1" => seen.im = 1
          /\ IR = "IM2" => seen.im = 2
      BY <3>1 DEF Modes
    <3>3. IStatus' = IF ~ClkEn THEN IStatus
                     ELSE CASE On("IM0") -> 0 [] On("IM1") -> 1 [] On("IM2") -> 2
                            [] OTHER -> IStatus
      BY <1>2, MidStep
    <3> QED
      BY <1>2, <3>1, <3>2, <3>3, Acts
  <2>4. \/ IR' \in {"IM0", "IM1", "IM2"}
        \/ IStatus' = CASE IR' = "IM0" -> 0 [] IR' = "IM1" -> 1 [] IR' = "IM2" -> 2
                        [] OTHER -> seen.im
    BY <2>3
  <2> QED
    BY <1>2, <1>5, <2>1, <2>2, <2>4 DEF FlagsKnown
<1>11. DataKnown'
  <2>1. pushed = NoPush /\ pushed = << pushed[1], pushed[2] >>
    BY <1>2, <1>5 DEF DataKnown
  <2>2. LatePC(This', seen, 1, PC')
    <3>1. ~Repeats(This', 1) /\ Passed(This', 1) = 1
      BY DEF Repeats, Passed
    <3>2. CASE Ordinary(seen)
      <4>1. ~Responds(seen) /\ ~seen.halted
        BY <3>2 DEF Ordinary, Responds
      <4>2. JumpRule(This', 1)
        BY <1>1, <1>3, <1>9, <4>1, NotResponding, OpcodeRules
      <4>3. "JumpE" \notin Raised(This', 1)
        BY <4>2 DEF JumpRule
      <4> QED
        BY <1>3, <3>1, <3>2, <4>1, <4>3 DEF LatePC
    <3>3. CASE ~Ordinary(seen)
      BY <1>3, <3>3 DEF LatePC, Ordinary, Responds
    <3> QED
      BY <3>2, <3>3
  <2> QED
    BY <1>2, <1>4, <1>5, <2>1, <2>2 DEF DataKnown
<1> QED
  BY <1>4, <1>6, <1>7, <1>8, <1>10, <1>11

LEMMA ProgramTakes ==
  ASSUME Known, Inv', NEW wait_n \in BOOLEAN, Stepped(wait_n), Takes
  PROVE  ProgramStep
<1> USE DEF Known, Inv, FInv, ArchInv
<1>1. /\ This'.ir = IR' /\ This'.iset = ISet' /\ This'.cc = cc' /\ This'.xy = XY_State'
      /\ This' \in Decoded /\ cc' \in BOOLEAN
  BY ThisAfter DEF TypeOK
<1>2. MCycle = 1 /\ TState = 2 /\ ~T_Res /\ TState' = 3 /\ MCycle' = 1
  BY DEF Takes, Advances
<1>3. Fits(This', seen) /\ seen \in Views /\ seen' = seen
  BY <1>2, TakesFits, Whereabouts, MidStep
<1>4. OpcodeInIR = Program!NoOp
  BY <1>2 DEF OpcodeInIR, Program!NoOp
<1>5. CASE ~Ordinary(seen) \/ (IR' = "CB" /\ XY_State')
  <2>1. OpcodeInIR' = Program!NoOp
    BY <1>3, <1>5 DEF OpcodeInIR, Program!NoOp, Ordinary
  <2> QED
    BY <1>3, <1>4, <2>1 DEF ProgramStep, Program!vars
<1>6. CASE Ordinary(seen) /\ ~(IR' = "CB" /\ XY_State')
  <2>1. seen.response = "none" /\ ~seen.halted /\ seen.page \in 0..3
    BY <1>3, <1>6 DEF Ordinary, Views
  <2>2. OpcodeInIR' = << IR', cc' >>
    BY <1>2, <1>3, <1>6, <2>1 DEF OpcodeInIR
  <2>3. /\ IR' \in Opcodes[ISet'] /\ (XY_State' <=> seen.page = 3)
        /\ ~XY_State' => ISet' = seen.page
        /\ XY_State' => ISet' \in 0..1
    BY <1>1, <1>3, <1>6 DEF Fits
  <2>4. XY_State' => ISet' = 0
    <3>1. ~(Prefix = 1 /\ XY_State) /\ Prefix \in 0..3 /\ FetchOpcode
      BY <1>2, Prefixing DEF IndexedOnce, Takes
    <3>2. CASE Prefix = 1
      BY <3>1, <3>2 DEF FetchOpcode
    <3>3. CASE Prefix # 1
      BY <3>1, <3>3 DEF FetchOpcode
    <3> QED
      BY <3>2, <3>3
  <2>5. IR' \in Program!Fetchable
    BY <1>6, <2>1, <2>3, <2>4 DEF Program!Fetchable
  <2>6. cc' => IR' \in Program!Conditional \cup Program!Repeating
    BY <1>1, <1>3, PageFacts DEF Fits
  <2>7. Program!Fetch
    BY <1>1, <1>3, <1>4, <2>1, <2>2, <2>5, <2>6 DEF Program!Fetch
  <2> QED
    BY <2>7 DEF ProgramStep, Program!Next
<1> QED
  BY <1>5, <1>6
-------------------------------------------------------------------------------
(***************************************************************************)
(* The end of a machine cycle.                                              *)
(***************************************************************************)
LEMMA CountedAtEnd ==
  ASSUME Known, T_Res, MCycle \in 1..5
  PROVE  MCycles = Counts(This, MCycle)
<1> USE DEF Known, Inv, FInv
<1>1. TState >= 3 /\ (MCycle = 1 => TState >= 4) /\ TState \in 0..6
  BY Timing DEF T_Res, TypeOK
<1>2. Counts(This, MCycle) = Count(MCycle)
  BY ThisFacts
<1>3. MCycle = 1 => MCycles = Count(MCycle)
  BY <1>1 DEF CountKnown, Count
<1>4. MCycle \in 2..5 => MCycles = Count(MCycle)
  BY <1>1 DEF CountSettled
<1> QED
  BY <1>2, <1>3, <1>4

\* Where the response to an interrupt puts PC.
LEMMA ResponseEnds ==
  ASSUME Known, T_Res, ClkEn, EndOfCycle, Responds(seen)
  PROVE  EndPC(This, seen, MCycle, PC')
<1> USE DEF Known, Inv, FInv, AInv, ArchInv
<1>1. /\ MCycle \in 1..5 /\ Fetched /\ TState >= 3 /\ TState \in 0..6 /\ seen \in Views
      /\ Answers(This, seen) /\ Fits(This, seen) /\ Reaches(This, MCycle) /\ ~seen.halted
  <2>1. TState >= 3
    BY Timing DEF T_Res
  <2>2. MCycle \in 1..5
    BY Whereabouts
  <2>3. ~seen.halted
    BY Whereabouts DEF Answers
  <2> QED
    BY <2>1, <2>2, <2>3, Whereabouts
<1>2. /\ This \in Decoded /\ This.ir = IR /\ This.nmi = NMICycle /\ This.int = IntCycle
      /\ \A o : On(o) <=> o \in Raised(This, MCycle)
  BY ThisFacts DEF On
<1>3. /\ ResponseRule(This) /\ IR \in {"NOP", "RST"} /\ (IR = "RST" => IntCycle)
      /\ NMICycle <=> ~IntCycle
      /\ IntCycle /\ IR = "NOP" <=> seen.response = "INT" /\ seen.im = 2
      /\ \A m \in 1..5 : LastCycle(This, m) <=> m = ResponseLength(This)
  BY <1>1, <1>2, Responding
<1>4. MCycle <= 3 => PC = seen.pc
  <2>1. LatePC(This, seen, MCycle, PC)
    BY <1>1 DEF DataKnown, Done, ClkEn
  <2> QED
    BY <1>1, <2>1 DEF LatePC
<1>5. MCycles = ResponseLength(This)
  BY <1>1, <1>3, CountedAtEnd DEF ResponseRule, ResponseLength
<1>6. ResponseLength(This) = IF IR = "NOP" /\ IntCycle THEN 5 ELSE 3
  BY <1>2 DEF ResponseLength
<1>7. MCycle <= 3 =>
        Raised(This, MCycle) \cap Jumping = IF IR = "RST" /\ MCycle = 3 THEN {"RstP"} ELSE {}
  BY <1>1, <1>2, <1>3 DEF ResponseRule
<1>8. MCycle <= 3 => ~On("Jump") /\ ~On("JumpXY") /\ ~On("Call")
                     /\ (On("RstP") <=> IR = "RST" /\ MCycle = 3)
  BY <1>2, <1>7 DEF Jumping
<1>9. CASE MCycle <= 2
  <2>1. ~LoadsPC
    BY <1>1, <1>5, <1>6, <1>8, <1>9 DEF LoadsPC
  <2> QED
    BY <1>1, <1>4, <1>9, <2>1 DEF EndOfCycle, EndPC
<1>10. CASE MCycle = 3
  <2>1. IStatus = seen.im /\ seen.im \in 0..2
    <3>1. IR \notin {"IM0", "IM1", "IM2"}
      BY <1>3
    <3> QED
      BY <1>1, <3>1 DEF FlagsKnown, Views
  <2>2. CASE NMICycle
    <3>1. IR = "NOP" /\ ~IntCycle /\ MCycle = MCycles /\ ~On("RstP")
      BY <1>3, <1>5, <1>6, <1>8, <1>10, <2>2
    <3>2. LoadsPC /\ JumpTo = {NMIVector}
      BY <1>8, <1>10, <2>2, <3>1 DEF LoadsPC, JumpTo
    <3> QED
      BY <1>1, <1>2, <1>10, <2>2, <3>2 DEF EndOfCycle, EndPC
  <2>3. CASE IntCycle /\ IR = "RST"
    <3>1. On("RstP") /\ seen.im # 2
      BY <1>1, <1>2, <1>3, <1>8, <1>10, <2>3 DEF Fits, Ordinary, Responds
    <3>2. LoadsPC /\ JumpTo = IF IStatus = 1 THEN {IM1Vector} ELSE JumpTargets
      BY <1>8, <1>10, <2>3, <3>1 DEF LoadsPC, JumpTo
    <3> QED
      BY <1>1, <1>2, <1>3, <1>10, <2>1, <2>3, <3>2 DEF EndOfCycle, EndPC
  <2>4. CASE IntCycle /\ IR = "NOP"
    <3>1. seen.im = 2 /\ ~NMICycle /\ ~On("RstP")
      BY <1>3, <1>8, <1>10, <2>4
    <3>2. LoadsPC /\ JumpTo = JumpTargets
      BY <1>8, <1>10, <2>1, <2>4, <3>1 DEF LoadsPC, JumpTo
    <3> QED
      BY <1>1, <1>2, <1>10, <2>1, <3>1, <3>2 DEF EndOfCycle, EndPC
  <2> QED
    BY <1>3, <2>2, <2>3, <2>4
<1>11. CASE MCycle = 4
  BY <1>1, <1>11 DEF EndPC
<1>12. CASE MCycle = 5
  <2>1. ~LastCycle(This, 3)
    BY <1>1, <1>12, ReachesDown
  <2>2. ResponseLength(This) = 5 /\ IR = "NOP" /\ IntCycle
    BY <1>3, <1>6, <2>1
  <2>3. On("Jump") /\ ~On("RstP")
    <3>1. Raised(This, 5) \cap Jumping = {"Jump"}
      BY <1>2, <1>3, <2>2 DEF ResponseRule
    <3> QED
      BY <1>2, <1>12, <3>1 DEF Jumping
  <2>4. LoadsPC /\ JumpTo = JumpTargets
    BY <1>3, <2>2, <2>3 DEF LoadsPC, JumpTo
  <2> QED
    BY <1>1, <1>12, <2>4 DEF EndOfCycle, EndPC
<1> QED
  BY <1>1, <1>9, <1>10, <1>11, <1>12

\* Where an instruction puts it.
LEMMA CycleEndsAt ==
  ASSUME Known, T_Res, ClkEn, EndOfCycle, ~Responds(seen)
  PROVE  EndPC(This, seen, MCycle, PC')
<1> USE DEF Known, Inv, FInv, AInv, ArchInv
<1>1. /\ MCycle \in 1..7 /\ Fetched /\ TState >= 3 /\ TState \in 0..6 /\ seen \in Views
      /\ Answers(This, seen) /\ Fits(This, seen) /\ (MCycle \in 1..5 => Reaches(This, MCycle))
  <2>1. TState >= 3
    BY Timing DEF T_Res
  <2> QED
    BY <2>1, Whereabouts
<1>2. /\ This \in Decoded /\ This.nmi = NMICycle /\ This.int = IntCycle
      /\ \A o : On(o) <=> o \in Raised(This, MCycle)
  BY ThisFacts DEF On
<1>3. ~NMICycle /\ ~IntCycle
  BY <1>1, <1>2 DEF Answers, Responds
<1>4. LatePC(This, seen, MCycle, PC)
  BY <1>1 DEF DataKnown, Done, ClkEn
<1>5. LoadsPC => JumpTo = JumpTargets
  BY <1>3 DEF LoadsPC, JumpTo
<1>6. LoadsPC => JumpsIn(This, MCycle)
  BY <1>2, <1>3 DEF LoadsPC, JumpsIn, Jumping
<1>7. IF LoadsPC THEN PC' \in JumpTargets ELSE PC' = PC
  BY <1>5 DEF EndOfCycle
<1>8. CASE seen.halted
  <2>1. MCycle \in 1..5
    BY <1>1, <1>8, Whereabouts
  <2>2. ~JumpsIn(This, MCycle)
    BY <1>1, <1>2, <1>8, <2>1, Idling
  <2> QED
    BY <1>4, <1>6, <1>7, <1>8, <2>2 DEF LatePC, EndPC
<1>9. CASE ~seen.halted /\ MCycle \in 6..7
  <2>1. ~JumpsIn(This, MCycle)
    BY <1>9, Whereabouts DEF DisplacementRule, JumpsIn
  <2> QED
    BY <1>4, <1>6, <1>7, <1>9, <2>1 DEF LatePC, EndPC
<1>10. CASE ~seen.halted /\ MCycle \in 1..5
  <2>1. CASE LoadsPC
    BY <1>6, <1>7, <1>10, <2>1 DEF EndPC
  <2>2. CASE ~LoadsPC
    <3>1. PC' = PC
      BY <1>7, <2>2
    <3>2. IF "JumpE" \in Raised(This, MCycle) THEN PC \in JumpTargets
          ELSE IF Repeats(This, MCycle) THEN PC = From(seen, PCSpan - 1)
          ELSE PC = From(seen, Passed(This, MCycle))
      BY <1>4, <1>10 DEF LatePC
    <3>3. JumpsIn(This, MCycle) <=> "JumpE" \in Raised(This, MCycle)
      BY <1>2, <2>2 DEF LoadsPC, JumpsIn, Jumping
    <3> QED
      BY <1>10, <3>1, <3>2, <3>3 DEF EndPC
  <2> QED
    BY <2>1, <2>2
<1> QED
  BY <1>1, <1>8, <1>9, <1>10

\* What the end of a machine cycle leaves, now or before the bus was given away.
LEMMA EndData ==
  ASSUME Known, Ends
  PROVE  /\ EndPC(This, seen, MCycle, PC')
         /\ IF MCycle <= 5 THEN Carried(This, seen, MCycle, DO', BTR_r', Written)
            ELSE Nothing(DO', BTR_r', Written)
<1> USE DEF Known, Inv, FInv, AInv, ArchInv
<1>1. /\ T_Res /\ MCycle \in 1..7 /\ Fetched /\ TState >= 3 /\ TState \in 0..6 /\ seen \in Views
      /\ Answers(This, seen) /\ Fits(This, seen) /\ (MCycle \in 1..5 => Reaches(This, MCycle))
  <2>1. T_Res /\ TState >= 3
    BY Timing DEF T_Res, Ends
  <2> QED
    BY <2>1, Whereabouts
<1>2. /\ This \in Decoded /\ This.cc = cc
      /\ \A o : On(o) <=> o \in Raised(This, MCycle)
  BY ThisFacts DEF On
<1>3. CASE ~ClkEn
  <2>1. Done /\ PC' = PC /\ DO' = DO /\ BTR_r' = BTR_r /\ Written = pushed
    BY <1>1, <1>3 DEF Ends, Done, ClkEn, Written
  <2> QED
    BY <1>1, <2>1 DEF DataKnown
<1>4. CASE ClkEn
  <2>1. EndOfCycle /\ ~Done
    BY <1>4 DEF Ends, ClkEn, Done
  <2>2. EndPC(This, seen, MCycle, PC')
    BY <1>1, <1>4, <2>1, ResponseEnds, CycleEndsAt
  <2>3. Written = IF "Write" \in Raised(This, MCycle) THEN << pushed[2], DO >> ELSE pushed
    BY <1>1, <1>2, <1>4 DEF Written
  <2>4. /\ DO' = IF "PCH" \in Raised(This, MCycle) THEN << "high", PC >>
                 ELSE IF "PCL" \in Raised(This, MCycle) THEN << "low", PC >> ELSE NoByte
        /\ BTR_r' <=> "I_BT" \in Raised(This, MCycle) /\ ~No_BTR
    BY <1>2, <2>1 DEF EndOfCycle, NoByte
  <2>5. CASE MCycle \in 1..5
    <3>1. Reaches(This, MCycle)
      BY <1>1, <2>5
    <3>2. OutData(This, seen, MCycle, DO')
      <4>1. CASE Raised(This, MCycle) \cap {"PCH", "PCL"} = {}
        BY <2>4, <4>1 DEF OutData
      <4>2. CASE Raised(This, MCycle) \cap {"PCH", "PCL"} # {}
        <5>1. LatePC(This, seen, MCycle, PC)
          BY <1>1, <2>1 DEF DataKnown
        <5>2. PC = Return(This, seen)
          BY <1>1, <1>2, <2>5, <3>1, <4>2, <5>1, PushedAddress
        <5> QED
          BY <2>4, <5>2 DEF OutData, High, Low
      <4> QED
        BY <4>1, <4>2
    <3>3. Round(This, MCycle, BTR_r')
      <4>1. No_BTR <=> EndsRounds(Raised(This, MCycle), cc)
        BY <1>1, <2>5, Settled, ThisFacts
      <4> QED
        BY <1>2, <2>4, <4>1 DEF Round
    <3>4. OnStack(This, seen, MCycle, Written)
      <4>1. pushed = << pushed[1], pushed[2] >> /\ (MCycle = 1 => pushed = NoPush)
        BY <2>1 DEF DataKnown
      <4>2. MCycle > 1 => /\ OutData(This, seen, MCycle - 1, DO)
                          /\ OnStack(This, seen, MCycle - 1, pushed)
        <5>1. MCycle > 1 => MCycle \in 2..5
          BY <2>5
        <5> QED
          BY <1>1, <2>1, <5>1 DEF DataKnown, Carried
      <4> QED
        BY ONLY <1>2, <2>3, <2>5, <3>1, <4>1, <4>2, StackStep
    <3> QED
      BY <2>2, <2>5, <3>2, <3>3, <3>4 DEF Carried
  <2>6. CASE MCycle \in 6..7
    <3>1. Raised(This, MCycle) \cap {"Write", "PCH", "PCL", "I_BT"} = {}
      BY <2>6, Whereabouts DEF DisplacementRule
    <3>2. Nothing(DO, BTR_r, pushed)
      BY <1>1, <2>1, <2>6 DEF DataKnown
    <3> QED
      BY <2>2, <2>3, <2>4, <2>6, <3>1, <3>2 DEF Nothing
  <2> QED
    BY <1>1, <2>5, <2>6
<1> QED
  BY <1>3, <1>4

Understood == HaltKnown /\ AtBoundary /\ OpcodeKnown /\ FlowKnown /\ FlagsKnown /\ DataKnown

Given == UNCHANGED sequencer /\ BusAck' /\ ~Completes

\* The bus is given away, or another machine cycle begins.
LEMMA EndShape ==
  ASSUME Inv, NEW wait_n, Sequencer(wait_n), T_Res
  PROVE  \/ Given
         \/ FetchDisplacement \/ ResumeAfterDisplacement \/ EndInstruction \/ NextMachineCycle
<1>1. TState # 2
  BY Timing DEF Inv, T_Res
<1>2. ~StretchT2(wait_n) /\ ~StretchT1(wait_n) /\ ~NextTState(wait_n)
  BY <1>1 DEF StretchT2, Waiting, StretchT1, NextTState
<1>3. HoldForBus => Given
  BY DEF HoldForBus, Held, Given, Completes, CycleEnds
<1>4. GrantBus => Given
  BY DEF GrantBus, Given, Completes, CycleEnds
<1> QED
  BY <1>2, <1>3, <1>4 DEF Sequencer

LEMMA EndFacts ==
  ASSUME Known, NEW wait_n \in BOOLEAN, Stepped(wait_n), Ends
  PROVE  /\ MCycle \in 1..7 /\ TState \in 3..6 /\ (MCycle = 1 => TState >= 4) /\ Fetched
         /\ UNCHANGED << IR, ISet, XY_State, cc, XY_Ind, IStatus >>
         /\ IF IR = "DI" THEN ~IntE_FF1 /\ ~IntE_FF2
            ELSE /\ IntE_FF2 = seen.iff2
                 /\ IntE_FF1 = IF On("I_RETN") THEN seen.iff2 ELSE seen.iff1
         /\ IStatus = CASE IR = "IM0" -> 0 [] IR = "IM1" -> 1 [] IR = "IM2" -> 2
                        [] OTHER -> seen.im
         /\ IntE_FF1' = IF AcceptsNMI \/ AcceptsINT THEN FALSE ELSE IntE_FF1
         /\ IntE_FF2' = IF AcceptsINT THEN FALSE ELSE IntE_FF2
         /\ Halt_FF' <=> (~Held /\ On("Halt")) \/ (Halt_FF /\ ~IntCycle /\ ~NMICycle)
<1> USE DEF Known, Inv, FInv, AInv, ArchInv
<1>1. MCycle \in 1..7 /\ TState \in 3..6 /\ (MCycle = 1 => TState >= 4) /\ Fetched /\ T_Res
  <2>1. T_Res /\ TState >= 3 /\ (MCycle = 1 => TState >= 4)
    BY Timing DEF T_Res, Ends
  <2> QED
    BY <2>1, Whereabouts
<1>2. UNCHANGED << IR, ISet, XY_State, cc, XY_Ind >>
  BY DEF Ends, KeepsOpcode
<1>3. IStatus = CASE IR = "IM0" -> 0 [] IR = "IM1" -> 1 [] IR = "IM2" -> 2 [] OTHER -> seen.im
  BY <1>1 DEF FlagsKnown
<1>4. IStatus' = IStatus
  <2>1. IStatus' = IF ~ClkEn THEN IStatus
                   ELSE CASE On("IM0") -> 0 [] On("IM1") -> 1 [] On("IM2") -> 2
                          [] OTHER -> IStatus
    BY DEF Stepped, Step, DataPath, datapath
  <2> QED
    BY <1>3, <2>1, Acts
<1>5. On("I_RETN") <=> "I_RETN" \in Raised(This, MCycle)
  BY Acts
<1>6. IF IR = "DI" THEN ~IntE_FF1 /\ ~IntE_FF2
      ELSE /\ IntE_FF2 = seen.iff2
           /\ IntE_FF1 = IF On("I_RETN") THEN seen.iff2 ELSE seen.iff1
  <2>1. CASE IR = "DI"
    <3>1. ~IntE_FF1 /\ ~IntE_FF2
      BY <1>1, <2>1 DEF FlagsKnown
    <3> QED
      BY <2>1, <3>1
  <2>2. CASE IR # "DI"
    <3>1. IntE_FF2 = seen.iff2
      BY <1>1, <2>2 DEF FlagsKnown
    <3>2. IntE_FF1 = IF On("I_RETN") THEN seen.iff2 ELSE seen.iff1
      <4>1. CASE On("I_RETN")
        BY <1>1, <1>5, <2>2, <4>1 DEF FlagsKnown
      <4>2. CASE ~On("I_RETN")
        BY <1>1, <1>5, <2>2, <4>2 DEF FlagsKnown
      <4> QED
        BY <4>1, <4>2
    <3> QED
      BY <2>2, <3>1, <3>2
  <2> QED
    BY <2>1, <2>2
<1>7. /\ IntE_FF1' = IF AcceptsNMI \/ AcceptsINT THEN FALSE ELSE IntE_FF1
      /\ IntE_FF2' = IF AcceptsINT THEN FALSE ELSE IntE_FF2
  <2>1. ~(TState = 3 /\ On("SetDI")) /\ TState # 2
    BY <1>1, Acts
  <2> QED
    BY <2>1 DEF Stepped, Step, InterruptEnables, TypeOK
<1>8. Halt_FF' <=> (~Held /\ On("Halt")) \/ (Halt_FF /\ ~IntCycle /\ ~NMICycle)
  BY <1>1 DEF Stepped, Step, HaltAndM1
<1> QED
  BY <1>1, <1>2, <1>3, <1>4, <1>6, <1>7, <1>8

\* When the instruction goes on in another machine cycle, the flip-flops stay.
LEMMA GoOnFlags ==
  ASSUME Known, NEW wait_n \in BOOLEAN, Stepped(wait_n), Ends, ~Completes,
         ~On("I_RETN"), ~On("Halt"), UNCHANGED << NMICycle, IntCycle >>,
         MCycle' \in 2..7, TState' = 1
  PROVE  /\ This' = This /\ seen' = seen /\ pushed' = Written /\ Fetched' /\ AtBoundary'
         /\ HaltKnown' /\ FlagsKnown' /\ ProgramStep
<1> USE DEF Known, Inv, FInv, AInv, ArchInv
<1>1. This' = This /\ UNCHANGED << IR, XY_State, cc, IStatus >> /\ Fetched /\ TState \in 3..6
  <2>1. This' = This
    BY ThisKept DEF Ends
  <2> QED
    BY <2>1, EndFacts
<1>2. seen' = seen /\ pushed' = Written /\ ~AcceptsNMI /\ ~AcceptsINT
  BY DEF Stepped, AcceptsNMI, AcceptsINT
<1>3. Fetched' /\ AtBoundary'
  BY DEF Fetched, AtBoundary
<1>4. IntE_FF1' = IntE_FF1 /\ IntE_FF2' = IntE_FF2
  BY <1>2, EndFacts
<1>5. FlagsKnown'
  <2>1. MCycle' # 1 /\ ~(TState' >= 3)
    OBVIOUS
  <2>2. IStatus' = CASE IR' = "IM0" -> 0 [] IR' = "IM1" -> 1 [] IR' = "IM2" -> 2
                     [] OTHER -> seen'.im
    BY <1>1, <1>2, EndFacts
  <2>3. CASE IR = "DI"
    <3>1. ~IntE_FF1' /\ ~IntE_FF2'
      BY <1>4, <2>3, EndFacts
    <3> QED
      BY <1>1, <2>2, <2>3, <3>1 DEF FlagsKnown
  <2>4. CASE IR # "DI"
    <3>1. IntE_FF1' = seen'.iff1 /\ IntE_FF2' = seen'.iff2
      BY <1>2, <1>4, <2>4, EndFacts
    <3> QED
      BY <1>1, <2>1, <2>2, <2>4, <3>1 DEF FlagsKnown
  <2> QED
    BY <2>3, <2>4
<1>6. HaltKnown'
  <2>1. Halt_FF' <=> Halt_FF /\ ~IntCycle /\ ~NMICycle
    BY EndFacts
  <2>2. seen.halted => ~IntCycle /\ ~NMICycle
    BY ThisFacts, Whereabouts DEF Answers, Responds
  <2>3. seen.halted => Halt_FF'
    BY <2>1, <2>2 DEF HaltKnown
  <2>4. ~(IR = "HALT" /\ MCycle = 1)
    BY Acts
  <2>5. ~(Halt_FF' /\ ~seen.halted)
    BY <1>1, <2>1, <2>4 DEF HaltKnown
  <2> QED
    BY <1>2, <1>3, <2>3, <2>5 DEF HaltKnown
<1>7. ProgramStep
  <2>1. OpcodeInIR' = OpcodeInIR
    BY <1>1, <1>2, EndFacts DEF OpcodeInIR
  <2> QED
    BY <1>2, <2>1 DEF ProgramStep, Program!vars
<1> QED
  BY <1>1, <1>2, <1>3, <1>5, <1>6, <1>7

\* The bus is given away at the end of a machine cycle, or kept away.
LEMMA GivenKnown ==
  ASSUME Known, NEW wait_n \in BOOLEAN, Stepped(wait_n), Ends, Given
  PROVE  Understood' /\ ProgramStep /\ seen' = seen /\ This' = This
<1> USE DEF Known, Inv, FInv, AInv, ArchInv
<1>1. /\ UNCHANGED << MCycle, TState, Pre_XY_F_M, NMICycle, IntCycle >> /\ BusAck' /\ ~Completes
  BY DEF Given, sequencer
<1>2. /\ Fetched /\ TState \in 3..6 /\ MCycle \in 1..7 /\ (MCycle = 1 => TState >= 4)
      /\ UNCHANGED << IR, ISet, XY_State, cc, XY_Ind, IStatus >>
  BY EndFacts
<1>3. This' = This /\ seen' = seen /\ pushed' = Written /\ ~AcceptsNMI /\ ~AcceptsINT
  <2>1. This' = This
    BY <1>1, ThisKept DEF Ends
  <2> QED
    BY <1>1, <2>1 DEF Stepped, AcceptsNMI, AcceptsINT
<1>4. Fetched' /\ Done'
  BY <1>1, <1>2 DEF Fetched, Done
<1>5. AtBoundary' /\ OpcodeKnown' /\ FlowKnown'
  BY <1>1, <1>2, <1>3, <1>4 DEF AtBoundary, OpcodeKnown, FlowKnown
<1>6. FlagsKnown'
  <2>1. IntE_FF1' = IntE_FF1 /\ IntE_FF2' = IntE_FF2
    BY <1>3, EndFacts
  <2> QED
    BY <1>1, <1>2, <1>3, <1>4, <2>1 DEF FlagsKnown
<1>7. HaltKnown'
  <2>1. Halt_FF' => On("Halt") \/ Halt_FF
    BY EndFacts
  <2>2. seen.halted => ~IntCycle /\ ~NMICycle
    BY ThisFacts, Whereabouts DEF Answers, Responds
  <2>3. seen.halted => Halt_FF'
    BY <2>2, EndFacts DEF HaltKnown
  <2>4. On("Halt") => IR = "HALT" /\ MCycle = 1
    BY Acts
  <2>5. Halt_FF' /\ ~seen.halted => IR = "HALT" /\ MCycle = 1
    BY <1>2, <2>1, <2>4 DEF HaltKnown
  <2> QED
    BY <1>1, <1>2, <1>3, <1>4, <2>3, <2>5 DEF HaltKnown
<1>8. DataKnown'
  <2>1. /\ EndPC(This, seen, MCycle, PC')
        /\ IF MCycle <= 5 THEN Carried(This, seen, MCycle, DO', BTR_r', Written)
           ELSE Nothing(DO', BTR_r', Written)
    BY EndData
  <2>2. Written = << Written[1], Written[2] >>
    BY DEF Written, DataKnown
  <2> QED
    BY <1>1, <1>3, <1>4, <2>1, <2>2 DEF DataKnown
<1>9. OpcodeInIR' = OpcodeInIR
  BY <1>1, <1>2, <1>3 DEF OpcodeInIR
<1> QED
  BY <1>3, <1>5, <1>6, <1>7, <1>8, <1>9 DEF Understood, ProgramStep, Program!vars

\* DataKnown in the first T state of a machine cycle of the same instruction.
LEMMA GoOnData ==
  ASSUME Known, This' = This, seen' = seen, pushed' = Written, TState' = 1,
         MCycle' \in 2..7, ~BusAck', EarlyPC(This, seen, MCycle', PC'),
         MCycle' \in 2..5 => Carried(This, seen, MCycle' - 1, DO', BTR_r', Written),
         MCycle' \in 6..7 => Nothing(DO', BTR_r', Written)
  PROVE  DataKnown'
<1>1. Written = << Written[1], Written[2] >>
  BY DEF Known, ArchInv, Written, DataKnown
<1>2. ~Done'
  BY DEF Done
<1> QED
  BY <1>1, <1>2 DEF DataKnown

LEMMA DisplacementNext ==
  ASSUME Known, CycleEnds, NextIs_XY_Fetch
  PROVE  /\ MCycle = 1 /\ This.xy /\ This.iset = 0 /\ Ordinary(seen)
         /\ This.ir = "CB" \/ This.ir \in Program!Indirect
<1> USE DEF Known, Inv, FInv, AInv, ArchInv
<1>1. /\ This.ir = IR /\ This.iset = ISet /\ This.xy = XY_State /\ This \in Decoded
      /\ \A o : On(o) <=> o \in Raised(This, MCycle)
  BY ThisFacts DEF On
<1>2. XY_State /\ ~XY_Ind /\ T_Res
  BY DEF NextIs_XY_Fetch, CycleEnds
<1>3. MCycle \in 1..7 /\ Fetched /\ TState \in 3..6 /\ Fits(This, seen) /\ seen \in Views
      /\ Answers(This, seen)
  <2>1. TState >= 3
    BY <1>2, Timing DEF T_Res
  <2> QED
    BY <1>2, <2>1, Whereabouts
<1>4. MCycle \in 1..5
  BY <1>2, <1>3 DEF DisplacementMarked
<1>5. Ordinary(seen) /\ ISet = 0
  BY <1>1, <1>2, <1>3 DEF Fits, IndexedOnce
<1>6. IR = "CB" \/ IR \in Program!Indirect
  <2>1. CASE On("aXY")
    <3>1. This \in Programmed /\ Reaches(This, MCycle)
      BY <1>1, <1>3, <1>4, <1>5, NotResponding, Whereabouts DEF Ordinary, Responds
    <3>2. IndexRule(This, MCycle)
      BY <1>1, <1>2, <1>4, <3>1, OpcodeRules
    <3> QED
      BY <1>1, <1>5, <2>1, <3>2 DEF IndexRule
  <2>2. CASE MCycle = 1 /\ IR \in {"CB", "LDHLn"}
    BY <2>2 DEF Program!Indirect
  <2> QED
    BY <2>1, <2>2 DEF NextIs_XY_Fetch
<1>7. MCycle = 1
  BY <1>2, <1>3, <1>4, <1>6 DEF FlowKnown, OpcodeKnown
<1> QED
  BY <1>1, <1>2, <1>5, <1>6, <1>7

LEMMA FetchDisplacementKnown ==
  ASSUME Known, NEW wait_n \in BOOLEAN, Stepped(wait_n), Ends, FetchDisplacement
  PROVE  Understood' /\ ProgramStep /\ seen' = seen /\ This' = This
<1> USE DEF Known, Inv, FInv, AInv, ArchInv
<1>1. /\ NextIs_XY_Fetch /\ CycleEnds /\ ~BusAck' /\ TState' = 1 /\ MCycle' = 6 /\ ~Completes
      /\ Pre_XY_F_M' = IF IR = "LDHLn" /\ ISet = 0 THEN 2 ELSE MCycle
      /\ UNCHANGED << NMICycle, IntCycle >>
  BY DEF FetchDisplacement, EnterCycle, Completes
<1>2. /\ This.ir = IR /\ This.iset = ISet /\ This.xy = XY_State /\ This \in Decoded
  BY ThisFacts
<1>3. /\ MCycle = 1 /\ This.xy /\ This.iset = 0 /\ Ordinary(seen)
      /\ This.ir = "CB" \/ This.ir \in Program!Indirect
  BY <1>1, DisplacementNext
<1>4. /\ Fetched /\ seen \in Views /\ Answers(This, seen) /\ Fits(This, seen) /\ Reaches(This, 1)
      /\ UNCHANGED << IR, ISet, XY_State, cc, XY_Ind >>
  <2>1. UNCHANGED << IR, ISet, XY_State, cc, XY_Ind >>
    BY EndFacts
  <2> QED
    BY <1>3, <2>1, Whereabouts DEF Ends
<1>5. ~On("I_RETN") /\ ~On("Halt")
  BY <1>2, <1>3, Acts, SetFacts
<1>6. /\ This' = This /\ seen' = seen /\ pushed' = Written /\ Fetched' /\ AtBoundary'
      /\ HaltKnown' /\ FlagsKnown' /\ ProgramStep
  BY <1>1, <1>5, GoOnFlags
<1>7. OpcodeKnown' /\ FlowKnown'
  <2>1. OpcodeKnown'
    BY <1>1, <1>2, <1>3, <1>4, <1>6 DEF OpcodeKnown
  <2>2. Pre_XY_F_M' = IF IR = "LDHLn" /\ ISet = 0 THEN 2 ELSE 1
    BY <1>1, <1>3
  <2>3. IR' = "CB" \/ IR' \in Program!Indirect
    BY <1>2, <1>3, <1>4
  <2>4. MCycle' \notin 2..5 /\ MCycle' # 1
    BY <1>1
  <2> QED
    BY <1>4, <2>1, <2>2, <2>3, <2>4 DEF FlowKnown
<1>8. DataKnown'
  <2>1. /\ EndPC(This, seen, 1, PC')
        /\ Carried(This, seen, 1, DO', BTR_r', Written)
    BY <1>3, EndData
  <2>2. EarlyPC(This, seen, 6, PC')
    BY <1>2, <1>3, <1>4, <2>1, DisplacementAtPC
  <2>3. "PCH" \notin Raised(This, 1) /\ "PCL" \notin Raised(This, 1) /\ "I_BT" \notin Raised(This, 1)
    BY <1>2, <1>3, <1>4, IndexedIsPlain
  <2>4. Nothing(DO', BTR_r', Written)
    BY <2>1, <2>3 DEF Carried, OutData, Round, OnStack, Nothing
  <2> QED
    BY <1>1, <1>6, <2>2, <2>4, GoOnData
<1> QED
  BY <1>6, <1>7, <1>8 DEF Understood

LEMMA ResumeKnown ==
  ASSUME Known, NEW wait_n \in BOOLEAN, Stepped(wait_n), Ends, ResumeAfterDisplacement
  PROVE  Understood' /\ ProgramStep /\ seen' = seen /\ This' = This
<1> USE DEF Known, Inv, FInv, AInv, ArchInv
<1> DEFINE pre == Pre_XY_F_M
<1>1. /\ MCycle = 7 /\ CycleEnds /\ ~BusAck' /\ TState' = 1 /\ MCycle' = pre + 1 /\ ~Completes
      /\ UNCHANGED << NMICycle, IntCycle >>
  BY DEF ResumeAfterDisplacement, EnterCycle, Completes
<1>2. /\ This.ir = IR /\ This.iset = ISet /\ This.xy = XY_State /\ This \in Decoded
  BY ThisFacts
<1>3. /\ Fetched /\ This.xy /\ seen \in Views /\ Answers(This, seen) /\ Fits(This, seen)
      /\ TState \in 3..6 /\ UNCHANGED << IR, ISet, XY_State, cc, XY_Ind >>
  <2>1. TState \in 3..6 /\ UNCHANGED << IR, ISet, XY_State, cc, XY_Ind >>
    BY EndFacts
  <2> QED
    BY <1>1, <2>1, Whereabouts
<1>4. This.iset = 1 \/ This.ir \in Program!Indirect
  BY <1>1, <1>2, <1>3 DEF FlowKnown, OpcodeKnown
<1>5. pre = (IF This.ir = "LDHLn" /\ This.iset = 0 THEN 2 ELSE 1) /\ XY_Ind
  BY <1>1, <1>2, <1>3 DEF FlowKnown, DisplacementMarked
<1>6. ~On("I_RETN") /\ ~On("Halt")
  BY <1>1, Acts
<1>7. pre \in 1..2 /\ MCycle' \in 2..3 /\ MCycle' - 1 = pre
  BY <1>1, <1>5
<1>8. /\ This' = This /\ seen' = seen /\ pushed' = Written /\ Fetched' /\ AtBoundary'
      /\ HaltKnown' /\ FlagsKnown' /\ ProgramStep
  BY <1>1, <1>6, <1>7, GoOnFlags
<1>9. /\ EndPC(This, seen, 7, PC')
      /\ Nothing(DO', BTR_r', Written)
  BY <1>1, EndData
<1>10. EarlyPC(This, seen, pre + 1, PC') /\ Reaches(This, pre + 1)
  <2> HIDE DEF pre
  <2> QED
    BY <1>2, <1>3, <1>4, <1>5, <1>9, ResumesAtPC
<1>11. OpcodeKnown' /\ FlowKnown'
  <2>1. IR' # "CB" \/ ~XY_State'
    BY <1>1, <1>3 DEF OpcodeKnown
  <2> QED
    BY <1>1, <1>3, <1>5, <1>7, <1>8, <1>10, <2>1 DEF OpcodeKnown, FlowKnown
<1>12. DataKnown'
  <2>1. ASSUME NEW j \in 1..pre
        PROVE  "PCH" \notin Raised(This, j) /\ "PCL" \notin Raised(This, j)
               /\ "I_BT" \notin Raised(This, j)
    <3>1. j \in 1..5 /\ pre + 1 \in 1..5 /\ j \in 1 .. pre + 1
      BY <1>7
    <3>2. Reaches(This, j)
      <4> HIDE DEF pre
      <4> QED
        BY <1>10, <3>1, ReachesDown
    <3> QED
      BY <1>2, <1>3, <1>4, <3>1, <3>2, IndexedIsPlain
  <2>2. pre \in 1..pre /\ \A j \in 1 .. pre - 1 : j \in 1..pre
    BY <1>7
  <2>3. Carried(This, seen, pre, DO', BTR_r', Written)
    <3>1. OutData(This, seen, pre, DO') /\ Round(This, pre, BTR_r')
      BY <1>9, <2>1, <2>2 DEF OutData, Round, Nothing
    <3>2. OnStack(This, seen, pre, Written)
      <4>1. ~(pre > 1 /\ "PCH" \in Raised(This, pre - 1))
        BY <1>7, <2>1
      <4>2. ~ \E j \in 1 .. pre - 2 : "PCH" \in Raised(This, j)
        BY <1>7, <2>1
      <4> QED
        BY <1>9, <4>1, <4>2 DEF OnStack, Nothing
    <3> QED
      BY <3>1, <3>2 DEF Carried
  <2>4. EarlyPC(This, seen, MCycle', PC') /\ MCycle' \in 2..7 /\ MCycle' \notin 6..7
    BY <1>1, <1>7, <1>10
  <2>5. Carried(This, seen, MCycle' - 1, DO', BTR_r', Written)
    BY <1>7, <2>3
  <2> QED
    BY <1>1, <1>8, <2>4, <2>5, GoOnData
<1> QED
  BY <1>8, <1>11, <1>12 DEF Understood

LEMMA NextCycleKnown ==
  ASSUME Known, NEW wait_n \in BOOLEAN, Stepped(wait_n), Ends, NextMachineCycle
  PROVE  Understood' /\ ProgramStep /\ seen' = seen /\ This' = This
<1> USE DEF Known, Inv, FInv, AInv, ArchInv
<1>1. /\ ~NextIs_XY_Fetch /\ MCycle # 7 /\ ~Completes /\ CycleEnds
      /\ ~BusAck' /\ TState' = 1 /\ MCycle' = MCycle + 1
      /\ UNCHANGED << NMICycle, IntCycle, Pre_XY_F_M >>
  BY DEF NextMachineCycle, EnterCycle
<1>2. /\ This.ir = IR /\ This.iset = ISet /\ This.xy = XY_State /\ This \in Decoded
      /\ \A o : On(o) <=> o \in Raised(This, MCycle)
  BY ThisFacts DEF On
<1>3. /\ MCycle \in 1..6 /\ Fetched /\ seen \in Views /\ Answers(This, seen) /\ Fits(This, seen)
      /\ UNCHANGED << IR, ISet, XY_State, cc, XY_Ind >>
  <2>1. UNCHANGED << IR, ISet, XY_State, cc, XY_Ind >>
    BY EndFacts
  <2> QED
    BY <1>1, <2>1, Whereabouts DEF Ends
<1>4. MCycle \in 1..5 => MCycle \in 1..4 /\ Reaches(This, MCycle) /\ ~LastCycle(This, MCycle)
  BY <1>1, CompletesLast, GoesOn, Whereabouts
<1>5. ~On("I_RETN") /\ ~On("Halt")
  <2>1. On("I_RETN") => MCycle \in 2..5 /\ LastCycle(This, MCycle)
    BY Acts
  <2>2. On("Halt") => IR = "HALT" /\ MCycle = 1
    BY Acts
  <2>3. MCycle = 1 /\ IR = "HALT" => LastCycle(This, 1)
    BY <1>2, <1>4, CommonRules DEF FlagRule
  <2> QED
    BY <1>4, <2>1, <2>2, <2>3
<1>6. MCycle' \in 2..7
  BY <1>1, <1>3
<1>7. /\ This' = This /\ seen' = seen /\ pushed' = Written /\ Fetched' /\ AtBoundary'
      /\ HaltKnown' /\ FlagsKnown' /\ ProgramStep
  BY <1>1, <1>5, <1>6, GoOnFlags
<1>8. /\ EndPC(This, seen, MCycle, PC')
      /\ IF MCycle <= 5 THEN Carried(This, seen, MCycle, DO', BTR_r', Written)
         ELSE Nothing(DO', BTR_r', Written)
  BY EndData
<1>9. CASE MCycle = 6
  <2>1. OpcodeKnown' /\ FlowKnown'
    BY <1>1, <1>3, <1>7, <1>9 DEF OpcodeKnown, FlowKnown
  <2>2. EarlyPC(This, seen, 7, PC')
    BY <1>8, <1>9, Whereabouts DEF EndPC, EarlyPC
  <2>3. DataKnown'
    BY <1>1, <1>7, <1>8, <1>9, <2>2, GoOnData
  <2> QED
    BY <1>7, <2>1, <2>3 DEF Understood
<1>10. CASE MCycle \in 1..4
  <2>1. MCycle = 1 =>
          ~(XY_State /\ (ISet = 1 \/ IR \in Program!Indirect \/ (IR = "CB" /\ ISet = 0)))
    <3> SUFFICES ASSUME MCycle = 1, XY_State,
                        ISet = 1 \/ IR \in Program!Indirect \/ (IR = "CB" /\ ISet = 0)
                 PROVE  FALSE
      OBVIOUS
    <3>1. ~XY_Ind /\ ISet # 1
      BY <1>3 DEF FlowKnown, IndexedOnce
    <3>2. ISet = 0 /\ Ordinary(seen)
      BY <1>2, <1>3, <3>1 DEF Fits
    <3>3. IR # "CB"
      BY <1>1, <3>1, <3>2 DEF NextIs_XY_Fetch
    <3>4. IR \in Program!Indirect
      BY <3>1, <3>3
    <3>5. IndexRule(This, 1)
      <4>1. This \in Programmed
        BY <1>2, <1>3, <3>2, NotResponding DEF Ordinary, Responds
      <4>2. Reaches(This, 1) /\ 1 \in 1..5 /\ This.xy
        BY <1>2 DEF Reaches
      <4> QED
        BY ONLY <4>1, <4>2, OpcodeRules
    <3>6. On("aXY") \/ IR = "LDHLn"
      BY <1>2, <3>2, <3>3, <3>4, <3>5 DEF IndexRule
    <3> QED
      BY <1>1, <3>1, <3>2, <3>6 DEF NextIs_XY_Fetch
  <2>2. Reaches(This, MCycle + 1) /\ MCycle + 1 \in 2..5
    BY <1>4, <1>10 DEF Reaches
  <2>3. ~(IR = "CB" /\ XY_State)
    <3> SUFFICES ASSUME IR = "CB", XY_State PROVE FALSE
      OBVIOUS
    <3>1. MCycle = 1
      BY <1>3, <1>10 DEF OpcodeKnown
    <3>2. ISet \in 0..1
      BY <1>2, <1>3 DEF Fits
    <3> QED
      BY <2>1, <3>1, <3>2
  <2>4. OpcodeKnown'
    BY <1>1, <1>3, <1>7, <1>10, <2>3 DEF OpcodeKnown
  <2>5. FlowKnown'
    <3>1. XY_State /\ IR \in Program!Indirect => XY_Ind
      BY <1>3, <1>10, <2>1 DEF FlowKnown
    <3>2. MCycle' \in 2..5 /\ Reaches(This, MCycle')
      BY <1>1, <2>2
    <3> QED
      BY <1>3, <1>7, <3>1, <3>2 DEF FlowKnown
  <2>6. MCycle = 1 => Displaced(This) = 0
    BY <1>2, <2>1 DEF Displaced
  <2>7. EarlyPC(This, seen, MCycle + 1, PC')
    BY <1>2, <1>3, <1>4, <1>8, <1>10, <2>6, GoesOnAtPC
  <2>8. DataKnown'
    <3>1. MCycle' - 1 = MCycle /\ MCycle' \notin 6..7 /\ MCycle <= 5
      BY <1>1, <1>10
    <3>2. Carried(This, seen, MCycle' - 1, DO', BTR_r', Written)
      BY <1>8, <3>1
    <3> QED
      BY <1>1, <1>6, <1>7, <2>7, <3>1, <3>2, GoOnData
  <2> QED
    BY <1>7, <2>4, <2>5, <2>8 DEF Understood
<1> QED
  BY <1>3, <1>4, <1>9, <1>10
-------------------------------------------------------------------------------
(***************************************************************************)
(* The end of an instruction is a step of the program.                      *)
(***************************************************************************)
LEMMA ReturnType ==
  ASSUME NEW w, NEW s \in Views
  PROVE  Return(w, s) \in PCs /\ Program!Length(w.ir, s.page) \in Nat
<1>1. Program!Length(w.ir, s.page) \in Nat
  <2>1. Operands(w) \in 0..2
    BY OperandsNat
  <2> QED
    BY <2>1 DEF Program!Length, Operands
<1>2. From(s, Program!Length(w.ir, s.page)) \in PCs /\ s.pc \in PCs
  BY <1>1, FromType
<1> QED
  BY <1>1, <1>2 DEF Return

LEMMA EndsLast ==
  ASSUME Known, NEW wait_n \in BOOLEAN, Stepped(wait_n), Ends, EndInstruction
  PROVE  /\ MCycle \in 1..5 /\ LastCycle(This, MCycle) /\ Reaches(This, MCycle)
         /\ CycleEnds /\ Completes /\ ~NextIs_XY_Fetch
         /\ MCycle' = 1 /\ TState' = 1 /\ ~BusAck' /\ ~Fetched'
         /\ NMICycle' = AcceptsNMI /\ IntCycle' = AcceptsINT
         /\ seen' = View /\ pushed' = NoPush
         /\ IR \in {"HALT", "EI"} => MCycle = 1
         /\ ~(IR = "CB" /\ XY_State)
<1> USE DEF Known, Inv, FInv, AInv, ArchInv
<1>1. /\ CycleEnds /\ Completes /\ ~NextIs_XY_Fetch
      /\ MCycle' = 1 /\ TState' = 1 /\ ~BusAck'
      /\ NMICycle' = AcceptsNMI /\ IntCycle' = AcceptsINT
  BY DEF EndInstruction, EnterCycle, Completes
<1>2. MCycle \in 1..5 /\ LastCycle(This, MCycle) /\ Reaches(This, MCycle)
  BY <1>1, CompletesLast, Whereabouts
<1>3. seen' = View /\ pushed' = NoPush
  BY <1>1 DEF Stepped
<1>4. IR \in {"HALT", "EI"} => MCycle = 1
  <2>1. This \in Decoded /\ This.ir = IR /\ Reaches(This, 1) /\ Out(1) = Raised(This, 1)
    BY ThisFacts DEF Reaches
  <2>2. IR = "EI" => IsEI
    BY <2>1, CommonRules DEF FlagRule, IsEI, Out
  <2>3. IR = "EI" => MCycle = 1
    BY <2>2 DEF EIIsShort
  <2>4. IR = "HALT" => LastCycle(This, 1)
    BY <2>1, CommonRules DEF FlagRule
  <2>5. IR = "HALT" => MCycle = 1
    <3>1. MCycle # 1 => 1 \in 1 .. MCycle - 1
      BY <1>2
    <3> QED
      BY <1>2, <2>4, <3>1 DEF Reaches
  <2> QED
    BY <2>3, <2>5
<1>5. ~(IR = "CB" /\ XY_State)
  <2> SUFFICES ASSUME IR = "CB", XY_State PROVE FALSE
    OBVIOUS
  <2>1. Fetched /\ Fits(This, seen) /\ This.iset = ISet /\ This.xy = XY_State
    BY ThisFacts, Whereabouts DEF Ends
  <2>2. MCycle = 1
    BY <1>2, <2>1 DEF OpcodeKnown
  <2>3. ~XY_Ind /\ ISet # 1
    BY <2>1, <2>2 DEF FlowKnown, IndexedOnce
  <2>4. ISet = 0
    BY <2>1, <2>3 DEF Fits
  <2> QED
    BY <1>1, <2>2, <2>3, <2>4 DEF NextIs_XY_Fetch
<1> QED
  BY <1>1, <1>2, <1>3, <1>4, <1>5 DEF Fetched

\* The address that the instruction has pushed.
LEMMA EndReturn ==
  ASSUME Known, NEW wait_n \in BOOLEAN, Stepped(wait_n), Ends, EndInstruction
  PROVE  ReturnAddress =
           IF Responds(seen) \/ (This.ir \in Program!Pushes /\ BranchTaken(This))
           THEN Return(This, seen) ELSE NotPC
<1>1. /\ MCycle \in 1..5 /\ LastCycle(This, MCycle) /\ Reaches(This, MCycle)
      /\ This \in Decoded /\ seen \in Views /\ Answers(This, seen) /\ Fits(This, seen)
  BY EndsLast, ThisFacts, Whereabouts DEF Known, Inv, Ends
<1>2. OnStack(This, seen, MCycle, Written)
  BY <1>1, EndData DEF Carried
<1>3. IF Responds(seen) \/ (This.ir \in Program!Pushes /\ BranchTaken(This))
      THEN Written = << High(This, seen), Low(This, seen) >> ELSE Others(Written)
  BY <1>1, <1>2, PushedInAll
<1>4. Return(This, seen) \in PCs
  BY <1>1, ReturnType
<1>5. Written = << High(This, seen), Low(This, seen) >> => ReturnAddress = Return(This, seen)
  <2> SUFFICES ASSUME Written = << High(This, seen), Low(This, seen) >>
               PROVE  ReturnAddress = Return(This, seen)
    OBVIOUS
  <2> DEFINE r == Return(This, seen)
  <2>1. Written = << << "high", r >>, << "low", r >> >>
    BY DEF High, Low
  <2>2. r \in PCs
    BY <1>4
  <2> HIDE DEF r
  <2>3. \E p \in PCs : Written = << << "high", p >>, << "low", p >> >>
    BY <2>1, <2>2
  <2>4. Written[1] = << "high", r >> /\ Written[1][1] # "other" /\ Written[1][2] = r
    BY <2>1
  <2>5. 1 \in 1..2
    OBVIOUS
  <2>6. ReturnAddress = r
    BY <2>3, <2>4, <2>5 DEF ReturnAddress
  <2> QED
    BY <2>6 DEF r
<1>6. Others(Written) => ReturnAddress = NotPC
  <2> SUFFICES ASSUME Others(Written) PROVE ReturnAddress = NotPC
    OBVIOUS
  <2>1. \A i \in 1..2 : Written[i][1] = "other"
    BY DEF Others
  <2>2. ASSUME NEW p \in PCs, Written = << << "high", p >>, << "low", p >> >> PROVE FALSE
    <3>1. Written[1][1] = "high"
      BY <2>2
    <3> QED
      BY <2>1, <3>1
  <2> QED
    BY <2>1, <2>2 DEF ReturnAddress
<1> QED
  BY <1>3, <1>5, <1>6

\* The flip-flops that an opcode leaves.
Leaves1(ir, s) == IF ir = "EI" THEN TRUE ELSE IF ir = "DI" THEN FALSE
                  ELSE IF ir = "RETN" THEN s.iff2 ELSE s.iff1
Leaves2(ir, s) == IF ir = "EI" THEN TRUE ELSE IF ir = "DI" THEN FALSE ELSE s.iff2

Continues(f1, f2, mayInterrupt) ==
  \/ View.response = "none" /\ View.iff1 = f1 /\ View.iff2 = f2
  \/ View.response = "NMI" /\ View.iff1 = FALSE /\ View.iff2 = f2
  \/ mayInterrupt /\ f1 /\ View.response = "INT" /\ View.iff1 = FALSE /\ View.iff2 = FALSE

LEMMA EndView ==
  ASSUME Known, Inv', NEW wait_n \in BOOLEAN, Stepped(wait_n), Ends, EndInstruction
  PROVE  /\ View \in Views
         /\ View.pc = PC' /\ View.page = Prefix /\ View.ret = ReturnAddress /\ View.im = IStatus'
         /\ View.halted <=> Halt_FF' /\ View.response = "none"
         /\ View.response = "none" <=> ~AcceptsNMI /\ ~AcceptsINT
         /\ View.response = "NMI" <=> AcceptsNMI
         /\ View.response = "INT" <=> AcceptsINT
         /\ Continues(Leaves1(IR, seen), Leaves2(IR, seen), IR \notin {"EI", "RETN"})
<1> USE DEF Known, Inv, FInv, AInv, ArchInv
<1>1. /\ MCycle \in 1..5 /\ LastCycle(This, MCycle) /\ (IR = "EI" => MCycle = 1)
      /\ seen \in Views
  BY EndsLast, Whereabouts
<1>2. ~(AcceptsNMI /\ AcceptsINT)
  BY DEF AcceptsNMI, AcceptsINT
<1>3. AcceptsNMI \in BOOLEAN /\ AcceptsINT \in BOOLEAN
  BY DEF AcceptsNMI, AcceptsINT
<1>4. View = [ pc |-> PC', page |-> Prefix, ret |-> ReturnAddress, iff1 |-> View.iff1,
               iff2 |-> View.iff2, im |-> IStatus', halted |-> View.halted,
               response |-> View.response ]
  BY DEF View
<1>5. /\ View.iff1 = IF On("SetEI") THEN ~AcceptsNMI ELSE IntE_FF1'
      /\ View.iff2 = (On("SetEI") \/ IntE_FF2')
      /\ View.halted = (Halt_FF' /\ ~AcceptsNMI /\ ~AcceptsINT)
      /\ View.response = IF AcceptsNMI THEN "NMI" ELSE IF AcceptsINT THEN "INT" ELSE "none"
  BY DEF View
<1>6. /\ PC' \in PCs /\ IStatus' \in 0..2 /\ IntE_FF1' \in BOOLEAN /\ IntE_FF2' \in BOOLEAN
      /\ Halt_FF' \in BOOLEAN /\ Prefix \in 0..3 /\ IntE_FF1 \in BOOLEAN /\ IntE_FF2 \in BOOLEAN
  BY Prefixing DEF TypeOK
<1>7. ReturnAddress \in 0 .. PCSpan + 1
  <2>1. Return(This, seen) \in PCs
    BY <1>1, ReturnType
  <2> QED
    BY <2>1, EndReturn, PCWidth DEF PCs, NotPC
<1>8. /\ View.iff1 \in BOOLEAN /\ View.iff2 \in BOOLEAN /\ View.halted \in BOOLEAN
      /\ View.response \in {"none", "NMI", "INT"}
  BY <1>3, <1>5, <1>6
<1>9. View \in Views
  BY <1>4, <1>6, <1>7, <1>8 DEF Views
<1>10. /\ View.response = "none" <=> ~AcceptsNMI /\ ~AcceptsINT
       /\ View.response = "NMI" <=> AcceptsNMI
       /\ View.response = "INT" <=> AcceptsINT
  BY <1>2, <1>5
<1>11. View.halted <=> Halt_FF' /\ View.response = "none"
  BY <1>5, <1>10
<1>12. Continues(Leaves1(IR, seen), Leaves2(IR, seen), IR \notin {"EI", "RETN"})
  <2>1. /\ On("SetEI") <=> IR = "EI"
        /\ On("I_RETN") <=> IR = "RETN"
    BY <1>1, Acts
  <2>2. /\ IntE_FF1' = IF AcceptsNMI \/ AcceptsINT THEN FALSE ELSE IntE_FF1
        /\ IntE_FF2' = IF AcceptsINT THEN FALSE ELSE IntE_FF2
    BY EndFacts
  <2>3. IF IR = "DI" THEN ~IntE_FF1 /\ ~IntE_FF2
        ELSE IntE_FF2 = seen.iff2 /\ IntE_FF1 = IF On("I_RETN") THEN seen.iff2 ELSE seen.iff1
    BY EndFacts
  <2>4. IR # "EI" => IntE_FF1 = Leaves1(IR, seen) /\ IntE_FF2 = Leaves2(IR, seen)
    <3>1. CASE IR = "DI"
      BY <1>6, <2>3, <3>1 DEF Leaves1, Leaves2
    <3>2. CASE IR # "DI"
      BY <2>1, <2>3, <3>2 DEF Leaves1, Leaves2
    <3> QED
      BY <3>1, <3>2
  <2>5. AcceptsINT => IntE_FF1 /\ IR \notin {"EI", "RETN"}
    BY <2>1 DEF AcceptsINT
  <2>6. CASE IR = "EI"
    <3>1. View.iff1 = ~AcceptsNMI /\ View.iff2 = TRUE /\ ~AcceptsINT
      BY <1>5, <2>1, <2>5, <2>6
    <3> QED
      BY <1>3, <1>10, <2>6, <3>1 DEF Continues, Leaves1, Leaves2
  <2>7. CASE IR # "EI"
    <3>1. View.iff1 = IntE_FF1' /\ View.iff2 = IntE_FF2'
      BY <1>5, <1>6, <2>1, <2>7
    <3>2. CASE AcceptsINT
      BY <1>10, <2>2, <2>4, <2>5, <2>7, <3>1, <3>2 DEF Continues
    <3>3. CASE AcceptsNMI
      BY <1>2, <1>10, <2>2, <2>4, <2>7, <3>1, <3>3 DEF Continues
    <3>4. CASE ~AcceptsNMI /\ ~AcceptsINT
      BY <1>10, <2>2, <2>4, <2>7, <3>1, <3>4 DEF Continues
    <3> QED
      BY <3>2, <3>3, <3>4
  <2> QED
    BY <2>6, <2>7
<1>13. View.pc = PC' /\ View.page = Prefix /\ View.ret = ReturnAddress /\ View.im = IStatus'
  BY DEF View
<1> QED
  BY <1>9, <1>10, <1>11, <1>12, <1>13

\* Halt_FF after the last machine cycle.
LEMMA EndHalt ==
  ASSUME Known, NEW wait_n \in BOOLEAN, Stepped(wait_n), Ends, EndInstruction
  PROVE  Halt_FF' <=> IR = "HALT" \/ seen.halted
<1> USE DEF Known, Inv, FInv, AInv, ArchInv
<1>1. ~Held /\ (IR = "HALT" => MCycle = 1) /\ TState \in 3..6
  <2>1. CycleEnds
    BY EndsLast
  <2> QED
    BY <2>1, EndsLast, EndFacts DEF CycleEnds
<1>2. On("Halt") <=> IR = "HALT"
  BY <1>1, Acts
<1>3. Halt_FF' <=> IR = "HALT" \/ (Halt_FF /\ ~IntCycle /\ ~NMICycle)
  BY <1>1, <1>2, EndFacts
<1>4. seen.halted => Halt_FF /\ ~IntCycle /\ ~NMICycle
  BY ThisFacts, Whereabouts DEF HaltKnown, Answers, Responds
<1>5. ~seen.halted => ~Halt_FF \/ IR = "HALT"
  BY <1>1 DEF HaltKnown
<1>6. ~seen.halted /\ IR # "HALT" => ~Halt_FF
  BY <1>5
<1> QED
  BY <1>3, <1>4, <1>6

LEMMA EndKnown ==
  ASSUME Known, Inv', NEW wait_n \in BOOLEAN, Stepped(wait_n), Ends, EndInstruction
  PROVE  SeenOK' /\ ResponseKnown' /\ Understood'
<1> USE DEF Known, Inv, FInv, AInv, ArchInv
<1>1. /\ MCycle' = 1 /\ TState' = 1 /\ ~BusAck' /\ ~Fetched'
      /\ NMICycle' = AcceptsNMI /\ IntCycle' = AcceptsINT
      /\ seen' = View /\ pushed' = NoPush
      /\ IR \in {"HALT", "EI"} => MCycle = 1
  BY EndsLast
<1>2. UNCHANGED << IR, ISet, XY_State, cc, IStatus >>
  BY EndFacts
<1>3. /\ View \in Views
      /\ View.pc = PC' /\ View.page = Prefix /\ View.im = IStatus'
      /\ View.halted <=> Halt_FF' /\ View.response = "none"
      /\ View.response = "none" <=> ~AcceptsNMI /\ ~AcceptsINT
      /\ View.response = "NMI" <=> AcceptsNMI
      /\ View.response = "INT" <=> AcceptsINT
  BY EndView
<1>4. SeenOK'
  BY <1>1, <1>3 DEF SeenOK
<1>5. ResponseKnown'
  <2>1. This'.nmi = NMICycle' /\ This'.int = IntCycle'
    BY ThisAfter
  <2>2. View.response # "none" => Prefix = 0
    BY <1>3 DEF AcceptsNMI, AcceptsINT
  <2>3. View.halted => Prefix = 0
    <3>1. IR = "HALT" => On("Halt")
      BY <1>1, Acts
    <3>2. seen.halted => Halt_FF
      BY DEF HaltKnown
    <3> QED
      BY <1>3, <3>1, <3>2, EndHalt, Prefixing DEF NoPrefixPending
  <2>4. Answers(This', View)
    BY <1>1, <1>3, <2>1, <2>2, <2>3 DEF Answers, Responds, Ordinary
  <2> QED
    BY <1>1, <2>4 DEF ResponseKnown
<1>6. HaltKnown'
  <2>1. IR' = "HALT" => Halt_FF'
    BY <1>2, EndHalt
  <2>2. Halt_FF' /\ ~View.halted => Responds(View)
    BY <1>3 DEF Responds
  <2> QED
    BY <1>1, <1>3, <2>1, <2>2 DEF HaltKnown
<1>7. AtBoundary'
  <2>1. Prefix' = Prefix
    BY <1>2 DEF Prefix
  <2>2. \A m \in 1..3 : IR' = Modes[m] => View.im = m - 1
    <3>1. IStatus = CASE IR = "IM0" -> 0 [] IR = "IM1" -> 1 [] IR = "IM2" -> 2
                      [] OTHER -> seen.im
      BY EndFacts
    <3>2. /\ IR = "IM0" => View.im = 0
          /\ IR = "IM1" => View.im = 1
          /\ IR = "IM2" => View.im = 2
      BY <1>2, <1>3, <3>1
    <3> QED
      BY <1>2, <3>2 DEF Modes
  <2>3. IF IR = "EI" THEN (View.iff1 <=> ~AcceptsNMI) /\ View.iff2
        ELSE IntE_FF1' = View.iff1 /\ IntE_FF2' = View.iff2
    <3>1. On("SetEI") <=> IR = "EI"
      BY <1>1, Acts
    <3>2. IntE_FF1' \in BOOLEAN /\ IntE_FF2' \in BOOLEAN
      BY DEF TypeOK
    <3>3. /\ View.iff1 = IF On("SetEI") THEN ~AcceptsNMI ELSE IntE_FF1'
          /\ View.iff2 = (On("SetEI") \/ IntE_FF2')
      BY DEF View
    <3>4. CASE IR = "EI"
      BY <3>1, <3>3, <3>4
    <3>5. CASE IR # "EI"
      BY <3>1, <3>2, <3>3, <3>5
    <3> QED
      BY <3>4, <3>5
  <2> QED
    BY <1>1, <1>2, <1>3, <2>1, <2>2, <2>3 DEF AtBoundary
<1>8. OpcodeKnown' /\ FlowKnown' /\ FlagsKnown'
  BY <1>1 DEF OpcodeKnown, FlowKnown, FlagsKnown
<1>9. DataKnown'
  <2>1. NoPush = << NoPush[1], NoPush[2] >>
    BY DEF NoPush
  <2> QED
    BY <1>1, <2>1 DEF DataKnown
<1> QED
  BY <1>4, <1>5, <1>6, <1>7, <1>8, <1>9 DEF Understood

LEMMA PlainOpcodes ==
  ASSUME NEW ir, ir \in {"NOP", "RST", "CB", "ED", "DD"}, NEW s
  PROVE  /\ ir \notin {"EI", "DI", "RETN", "HALT", "IM0", "IM1", "IM2"}
         /\ Leaves1(ir, s) = s.iff1 /\ Leaves2(ir, s) = s.iff2
BY DEF Leaves1, Leaves2

\* After the response to an interrupt, and after an idle cycle.
LEMMA ProgramResponds ==
  ASSUME Known, Inv', NEW wait_n \in BOOLEAN, Stepped(wait_n), Ends, EndInstruction,
         ~Ordinary(seen)
  PROVE  ProgramStep
<1> USE DEF Known, Inv, FInv, AInv, ArchInv
<1>1. /\ MCycle' = 1 /\ TState' = 1 /\ seen' = View /\ IStatus' = IStatus
      /\ MCycle \in 1..5 /\ LastCycle(This, MCycle)
  BY EndsLast, EndFacts
<1>2. /\ This \in Decoded /\ seen \in Views /\ Answers(This, seen) /\ Fits(This, seen)
      /\ This.ir = IR /\ This.nmi = NMICycle /\ This.int = IntCycle
  BY ThisFacts, Whereabouts DEF Ends
<1>3. EndPC(This, seen, MCycle, PC')
  BY EndData
<1>4. OpcodeInIR = Program!NoOp /\ OpcodeInIR' = Program!NoOp
  <2>1. OpcodeInIR = Program!NoOp
    BY DEF OpcodeInIR, Program!NoOp, Ordinary
  <2>2. OpcodeInIR' = Program!NoOp
    BY <1>1 DEF OpcodeInIR, Program!NoOp
  <2> QED
    BY <2>1, <2>2
<1>5. IR \in {"NOP", "RST"} /\ seen.page = 0 /\ Prefix = 0
  <2>1. IR \in {"NOP", "RST"} /\ seen.page = 0
    BY <1>2 DEF Fits, Answers
  <2> QED
    BY <2>1, Prefixing
<1>6. IStatus = seen.im
  BY <1>5, EndFacts
<1>7. /\ View.pc = PC' /\ View.page = 0 /\ View.im = seen.im
      /\ View.halted <=> Halt_FF' /\ View.response = "none"
      /\ View.halted \in BOOLEAN /\ seen.halted \in BOOLEAN
      /\ Continues(seen.iff1, seen.iff2, TRUE)
  <2>1. Continues(Leaves1(IR, seen), Leaves2(IR, seen), IR \notin {"EI", "RETN"})
    BY EndView
  <2>2. Leaves1(IR, seen) = seen.iff1 /\ Leaves2(IR, seen) = seen.iff2
    BY <1>5, PlainOpcodes
  <2>3. Continues(seen.iff1, seen.iff2, TRUE)
    BY <2>1, <2>2 DEF Continues
  <2> QED
    BY <1>1, <1>2, <1>5, <1>6, <2>3, EndView DEF Views
<1>8. View.ret = IF Responds(seen) THEN seen.pc ELSE NotPC
  <2>1. View.ret = ReturnAddress
    BY EndView
  <2>2. CASE Responds(seen)
    BY <2>1, <2>2, EndReturn DEF Return
  <2>3. CASE ~Responds(seen)
    <3>1. IR = "NOP"
      BY <1>2, <2>3 DEF Fits, Responds
    <3>2. IR \notin Program!Pushes
      BY <3>1 DEF Program!Pushes
    <3> QED
      BY <1>2, <2>1, <2>3, <3>2, EndReturn
  <2> QED
    BY <2>2, <2>3
<1>9. Program!Continue(seen.iff1, seen.iff2, TRUE)
  BY <1>1, <1>7 DEF Continues, Program!Continue
<1>10. CASE Responds(seen)
  <2>1. ~seen.halted /\ ~View.halted
    <3>1. ~seen.halted
      BY <1>2, <1>10 DEF Answers
    <3>2. ~Halt_FF'
      BY <1>5, <3>1, EndHalt
    <3> QED
      BY <1>7, <3>1, <3>2
  <2>2. (CASE seen.response = "NMI" -> PC' = NMIVector
           [] seen.response = "INT" /\ seen.im = 1 -> PC' = IM1Vector
           [] OTHER -> PC' \in JumpTargets)
    <3>1. /\ MCycle = ResponseLength(This)
          /\ NMICycle <=> seen.response = "NMI"
          /\ NMICycle <=> ~IntCycle
          /\ IntCycle /\ IR = "NOP" <=> seen.response = "INT" /\ seen.im = 2
      BY <1>1, <1>2, <1>10, Responding DEF Answers
    <3>2. CASE NMICycle
      <4>1. MCycle = 3
        BY <1>2, <3>1, <3>2 DEF ResponseLength
      <4> QED
        BY <1>2, <1>3, <1>10, <2>1, <3>1, <3>2, <4>1 DEF EndPC
    <3>3. CASE ~NMICycle /\ ~(seen.im = 2)
      <4>1. MCycle = 3
        BY <1>2, <3>1, <3>3 DEF ResponseLength
      <4>2. IF seen.im = 1 THEN PC' = IM1Vector ELSE PC' \in JumpTargets
        BY <1>2, <1>3, <1>10, <2>1, <3>3, <4>1 DEF EndPC
      <4>3. seen.response = "INT"
        BY <1>2, <1>10, <3>1, <3>3 DEF Responds, Views
      <4> QED
        BY <4>2, <4>3
    <3>4. CASE ~NMICycle /\ seen.im = 2
      <4>1. seen.response = "INT"
        BY <1>2, <1>10, <3>1, <3>4 DEF Responds, Views
      <4>2. MCycle = 5
        BY <1>2, <3>1, <3>4, <4>1 DEF ResponseLength
      <4>3. PC' \in JumpTargets
        BY <1>3, <1>10, <2>1, <4>2 DEF EndPC
      <4> QED
        BY <3>4, <4>1, <4>3
    <3> QED
      BY <3>2, <3>3, <3>4
  <2>3. seen.response # "none"
    BY <1>10 DEF Responds
  <2>4. seen'.ret = seen.pc /\ seen'.pc = PC' /\ seen'.im = seen.im /\ seen'.page = seen.page
        /\ seen'.halted = seen.halted
    BY <1>1, <1>5, <1>7, <1>8, <1>10, <2>1
  <2>5. (CASE seen.response = "NMI" -> seen'.pc = NMIVector
           [] seen.response = "INT" /\ seen.im = 1 -> seen'.pc = IM1Vector
           [] OTHER -> seen'.pc \in JumpTargets)
    BY <2>2, <2>4
  <2>6. Program!Respond
    BY <1>4, <1>9, <2>3, <2>4, <2>5 DEF Program!Respond
  <2> QED
    BY <2>6 DEF ProgramStep, Program!Next
<1>11. CASE ~Responds(seen)
  <2>1. seen.halted /\ seen.response = "none"
    BY <1>11 DEF Ordinary, Responds
  <2>2. Halt_FF'
    BY <2>1, EndHalt
  <2>3. PC' = seen.pc
    BY <1>3, <2>1 DEF EndPC
  <2>4. seen'.halted = (seen'.response = "none")
    BY <1>1, <1>7, <2>2
  <2>5. Program!Idle
    BY <1>1, <1>4, <1>5, <1>7, <1>8, <1>9, <1>11, <2>1, <2>3, <2>4
       DEF Program!Idle, Program!NoAddress, NotPC
  <2> QED
    BY <2>5 DEF ProgramStep, Program!Next
<1> QED
  BY <1>10, <1>11

\* What an instruction leaves to the next one.
LEMMA ProgramExecuted ==
  ASSUME Known, Inv', NEW wait_n \in BOOLEAN, Stepped(wait_n), Ends, EndInstruction,
         Ordinary(seen)
  PROVE  /\ seen' = View /\ seen.response = "none" /\ ~seen.halted
         /\ OpcodeInIR = << IR, cc >> /\ OpcodeInIR # Program!NoOp
         /\ OpcodeInIR' = Program!NoOp
         /\ IF IR \in Program!Branches /\ BranchTaken(This) THEN View.pc \in JumpTargets
            ELSE IF IR \in Program!Repeating /\ cc THEN View.pc = From(seen, PCSpan - 1)
            ELSE View.pc = From(seen, Program!Length(IR, seen.page))
         /\ View.ret = IF IR \in Program!Pushes /\ BranchTaken(This)
                       THEN From(seen, Program!Length(IR, seen.page)) ELSE NotPC
         /\ View.im = CASE IR = "IM0" -> 0 [] IR = "IM1" -> 1 [] IR = "IM2" -> 2
                        [] OTHER -> seen.im
         /\ View.halted <=> IR = "HALT" /\ View.response = "none"
         /\ View.page = Prefix
         /\ Prefix = CASE IR = "CB" -> 1 [] IR = "ED" -> 2 [] IR = "DD" -> 3 [] OTHER -> 0
         /\ Continues(Leaves1(IR, seen), Leaves2(IR, seen), IR \notin {"EI", "RETN"})
<1> USE DEF Known, Inv, FInv, AInv, ArchInv
<1>1. /\ MCycle' = 1 /\ TState' = 1 /\ seen' = View /\ IStatus' = IStatus
      /\ MCycle \in 1..5 /\ LastCycle(This, MCycle) /\ Reaches(This, MCycle)
      /\ ~(IR = "CB" /\ XY_State) /\ TState \in 3..6
  BY EndsLast, EndFacts
<1>2. /\ This \in Decoded /\ seen \in Views /\ Answers(This, seen) /\ Fits(This, seen)
      /\ This.ir = IR /\ This.iset = ISet /\ This.cc = cc /\ This.xy = XY_State
  BY ThisFacts, Whereabouts DEF Ends
<1>3. EndPC(This, seen, MCycle, PC')
  BY EndData
<1>4. seen.response = "none" /\ ~seen.halted
  BY DEF Ordinary
<1>5. OpcodeInIR = << IR, cc >> /\ OpcodeInIR # Program!NoOp
  <2>1. OpcodeInIR = << IR, cc >>
    BY <1>1, <1>4 DEF OpcodeInIR
  <2>2. IR # "none"
    BY <1>2, DecodedFacts, PageFacts
  <2> QED
    BY <2>1, <2>2 DEF Program!NoOp
<1>6. OpcodeInIR' = Program!NoOp
  BY <1>1 DEF OpcodeInIR, Program!NoOp
<1>7. IF IR \in Program!Branches /\ BranchTaken(This) THEN PC' \in JumpTargets
      ELSE IF IR \in Program!Repeating /\ cc THEN PC' = From(seen, PCSpan - 1)
      ELSE PC' = From(seen, Program!Length(IR, seen.page))
  BY <1>1, <1>2, <1>3, FinalPC
<1>8. View.ret = IF IR \in Program!Pushes /\ BranchTaken(This)
                 THEN From(seen, Program!Length(IR, seen.page)) ELSE NotPC
  <2>1. ~Responds(seen)
    BY <1>4 DEF Responds
  <2>2. Return(This, seen) = From(seen, Program!Length(IR, seen.page))
    BY <1>2, <2>1 DEF Return
  <2> QED
    BY <1>2, <2>1, <2>2, EndReturn, EndView
<1>9. View.im = CASE IR = "IM0" -> 0 [] IR = "IM1" -> 1 [] IR = "IM2" -> 2 [] OTHER -> seen.im
  BY <1>1, EndView, EndFacts
<1>10. View.halted <=> IR = "HALT" /\ View.response = "none"
  BY <1>4, EndHalt, EndView
<1>11. Prefix = CASE IR = "CB" -> 1 [] IR = "ED" -> 2 [] IR = "DD" -> 3 [] OTHER -> 0
  <2>1. IR \in Opcodes[ISet] /\ ISet \in 0..2
    BY <1>1, <1>2, DecodedFacts DEF Fits
  <2>2. CASE ISet = 0
    BY <1>2, <2>2, DecodedFacts, PageFacts DEF Prefix
  <2>3. CASE ISet # 0
    <3>1. IR \notin {"CB", "ED", "DD"}
      BY <2>1, <2>3, PageFacts
    <3>2. Prefix = 0
      BY <2>3, Prefixing
    <3> QED
      BY <3>1, <3>2
  <2> QED
    BY <2>2, <2>3
<1> QED
  BY <1>1, <1>4, <1>5, <1>6, <1>7, <1>8, <1>9, <1>10, <1>11, EndView

LEMMA ProgramExecutes ==
  ASSUME Known, Inv', NEW wait_n \in BOOLEAN, Stepped(wait_n), Ends, EndInstruction,
         Ordinary(seen)
  PROVE  ProgramStep
<1> USE DEF Known, Inv, FInv, AInv, ArchInv
<1> DEFINE len == Program!Length(IR, seen.page)
<1>1. /\ seen' = View /\ seen.response = "none" /\ ~seen.halted
      /\ OpcodeInIR = << IR, cc >> /\ OpcodeInIR # Program!NoOp
      /\ OpcodeInIR' = Program!NoOp
      /\ IF IR \in Program!Branches /\ BranchTaken(This) THEN View.pc \in JumpTargets
         ELSE IF IR \in Program!Repeating /\ cc THEN View.pc = From(seen, PCSpan - 1)
         ELSE View.pc = From(seen, len)
      /\ View.ret = IF IR \in Program!Pushes /\ BranchTaken(This)
                    THEN From(seen, len) ELSE NotPC
      /\ View.im = CASE IR = "IM0" -> 0 [] IR = "IM1" -> 1 [] IR = "IM2" -> 2
                     [] OTHER -> seen.im
      /\ View.halted <=> IR = "HALT" /\ View.response = "none"
      /\ View.page = Prefix
      /\ Prefix = CASE IR = "CB" -> 1 [] IR = "ED" -> 2 [] IR = "DD" -> 3 [] OTHER -> 0
      /\ Continues(Leaves1(IR, seen), Leaves2(IR, seen), IR \notin {"EI", "RETN"})
  BY ProgramExecuted
<1>2. /\ BranchTaken(This) <=> Program!taken
      /\ Program!class = IR
  <2>1. OpcodeInIR[1] = IR /\ OpcodeInIR[2] = cc /\ This.ir = IR /\ This.cc = cc
    BY <1>1, ThisFacts
  <2> QED
    BY <2>1 DEF BranchTaken, Program!taken, Program!class
<1>3. \A n : Program!Plus(n) = From(seen, n)
  BY DEF Program!Plus, From, Mod
<1>4. View \in Views /\ seen \in Views
  BY EndView, Whereabouts
<1>5. CASE IR \in {"CB", "ED", "DD"}
  <2>1. IR \notin Program!Branches /\ IR \notin Program!Pushes /\ IR \notin Program!Repeating
    BY <1>5, SetFacts
  <2>2. len = 1
    <3>1. Program!OperandBytes(IR) = 0 /\ IR \notin Opcodes[1] /\ IR \notin Program!Indirect
      BY <1>5, SetFacts, PageFacts
    <3> QED
      BY <3>1 DEF Program!Length
  <2>3. /\ IR \notin {"EI", "DI", "RETN", "HALT", "IM0", "IM1", "IM2"}
        /\ Leaves1(IR, seen) = seen.iff1 /\ Leaves2(IR, seen) = seen.iff2
    BY <1>5, PlainOpcodes
  <2>4. Prefix \in 1..3 /\ View.response = "none"
    <3>1. Prefix \in 1..3
      BY <1>1, <1>5
    <3> QED
      BY <3>1, EndView DEF AcceptsNMI, AcceptsINT
  <2>5. View.iff1 = seen.iff1 /\ View.iff2 = seen.iff2
    BY <1>1, <2>3, <2>4 DEF Continues
  <2>6. View.halted = seen.halted
    BY <1>1, <1>4, <2>3 DEF Views
  <2>7. /\ View.pc = Program!Plus(1) /\ View.ret = Program!NoAddress /\ View.im = seen.im
        /\ View.page = Prefix
    BY <1>1, <1>3, <2>1, <2>2, <2>3 DEF Program!NoAddress, NotPC
  <2>8. IR = CASE Prefix = 1 -> "CB" [] Prefix = 2 -> "ED" [] Prefix = 3 -> "DD"
    BY <1>1, <1>5
  <2>9. Program!ExecutePrefix(Prefix)
    BY <1>1, <1>2, <2>4, <2>5, <2>6, <2>7, <2>8 DEF Program!ExecutePrefix
  <2> QED
    BY <2>4, <2>9 DEF ProgramStep, Program!Next
<1>6. CASE IR \notin {"CB", "ED", "DD"}
  <2>1. View.page = 0
    BY <1>1, <1>6
  <2>2. /\ ~(IR \in Program!Branches /\ IR \in Program!Repeating)
    BY SetFacts
  <2>3. (CASE IR \in Program!Branches /\ Program!taken -> View.pc \in JumpTargets
           [] IR \in Program!Repeating /\ cc -> View.pc = Program!Plus(PCSpan - 1)
           [] OTHER -> View.pc = Program!Plus(len))
    BY <1>1, <1>2, <1>3, <2>2
  <2>4. View.ret = IF IR \in Program!Pushes /\ Program!taken THEN Program!Plus(len)
                   ELSE Program!NoAddress
    BY <1>1, <1>2, <1>3 DEF Program!NoAddress, NotPC
  <2>5. Program!FlipFlops
    <3>1. \A f1, f2, may : Continues(f1, f2, may) => Program!Continue(f1, f2, may)
      BY <1>1 DEF Continues, Program!Continue
    <3>2. CASE IR = "EI"
      <4>1. Continues(TRUE, TRUE, FALSE)
        BY <1>1, <3>2 DEF Leaves1, Leaves2, Continues
      <4> QED
        BY <1>2, <3>1, <3>2, <4>1 DEF Program!FlipFlops
    <3>3. CASE IR = "DI"
      <4>1. Continues(FALSE, FALSE, TRUE)
        BY <1>1, <3>3 DEF Leaves1, Leaves2, Continues
      <4> QED
        BY <1>2, <3>1, <3>3, <4>1 DEF Program!FlipFlops
    <3>4. CASE IR = "RETN"
      <4>1. Continues(seen.iff2, seen.iff2, FALSE)
        BY <1>1, <3>4 DEF Leaves1, Leaves2, Continues
      <4> QED
        BY <1>2, <3>1, <3>4, <4>1 DEF Program!FlipFlops
    <3>5. CASE IR \notin {"EI", "DI", "RETN"}
      <4>1. Continues(seen.iff1, seen.iff2, TRUE)
        BY <1>1, <3>5 DEF Leaves1, Leaves2, Continues
      <4> QED
        BY <1>2, <3>1, <3>5, <4>1 DEF Program!FlipFlops
    <3> QED
      BY <3>2, <3>3, <3>4, <3>5
  <2>6. View.halted = (IR = "HALT" /\ View.response = "none")
    BY <1>1, <1>4 DEF Views
  <2>7. OpcodeInIR[2] = cc
    BY <1>1
  <2> HIDE DEF len
  <2>8. Program!Execute
    BY <1>1, <1>2, <1>6, <2>1, <2>3, <2>4, <2>5, <2>6, <2>7 DEF Program!Execute, len
  <2> QED
    BY <2>8 DEF ProgramStep, Program!Next
<1> QED
  BY <1>5, <1>6
-------------------------------------------------------------------------------
(***************************************************************************)
(* Every step.                                                              *)
(***************************************************************************)
\* The displacement cycles are no I/O cycles, whatever the opcode.
LEMMA NoIOAfter ==
  ASSUME TypeOK', MCycle' \in 6..7
  PROVE  "IORQ" \notin now'.out
<1>1. /\ IR' \in AllOpcodes /\ ISet' \in 0..2 /\ Decodes(IR', ISet')
      /\ cc' \in BOOLEAN /\ NMICycle' \in BOOLEAN /\ IntCycle' \in BOOLEAN
      /\ XY_State' \in BOOLEAN
  BY DEF TypeOK
<1>2. Addressed(IR', ISet', cc', NMICycle', IntCycle', XY_State')
  BY <1>1, AddressInstance
<1> QED
  BY <1>2 DEF Addressed, now

\* The automatic wait state of an I/O cycle is over when T2 begins.
LEMMA IOWaitsStep ==
  ASSUME Known, Inv', FInv', NEW wait_n \in BOOLEAN, Stepped(wait_n)
  PROVE  IOWaits'
<1> USE DEF Known, Inv, FInv, ArchInv
<1>1. SUFFICES ASSUME TState' = 2, "IORQ" \in now'.out PROVE Auto_Wait_t1'
  BY DEF IOWaits, On
<1>2. Sequencer(wait_n) /\ DataPath(wait_n) /\ WaitStates
  BY DEF Stepped, Step
<1>3. Stays \/ Advances
  BY <1>1, <1>2, SequencerStep DEF Enters
<1>4. /\ MCycle' = MCycle /\ TState \in {1, 2} /\ MCycle \in 1..7
      /\ UNCHANGED << NMICycle, IntCycle >>
  BY <1>1, <1>3, Whereabouts DEF Stays, Advances
<1>5. ~T_Res
  BY <1>4, Timing DEF T_Res
<1>6. CASE MCycle = 1
  BY <1>1, <1>4, <1>6 DEF AckWaits, On
<1>7. CASE MCycle # 1
  <2>1. MCycle \notin 6..7
    BY <1>1, <1>4, NoIOAfter
  <2>2. KeepsOpcode
    BY <1>2, <1>4, <1>7, <2>1, DecodeStep DEF Fetches, ReadsLast, SwitchesPage
  <2>3. On("IORQ")
    BY <1>1, <1>4, <2>2, NowKept DEF On
  <2> QED
    BY <1>2, <1>5, <2>3 DEF WaitStates
<1> QED
  BY <1>6, <1>7

LEMMA SameSeen ==
  ASSUME Known, UNCHANGED << NMICycle, IntCycle, seen >>
  PROVE  SeenOK' /\ ResponseKnown'
<1>1. /\ This.nmi = NMICycle /\ This.int = IntCycle
      /\ This'.nmi = NMICycle' /\ This'.int = IntCycle'
  BY DEF This
<1> QED
  BY <1>1 DEF Known, ArchInv, SeenOK, ResponseKnown, Answers

\* T1 and T2 of M1, before the opcode is there.
LEMMA BoundaryKnown ==
  ASSUME Known, NEW wait_n \in BOOLEAN, Stepped(wait_n), Quiet, ~Fetched
  PROVE  Understood'
<1> USE DEF Known, ArchInv
<1>1. AtBoundary' /\ ~Fetched' /\ IR' = IR
  BY BoundaryMid
<1>2. HaltKnown'
  BY <1>1, HaltMid DEF Quiet
<1>3. MCycle = 1 /\ MCycle' = 1 /\ pushed' = pushed /\ ~Done
  BY MidStep DEF Quiet, Fetched
<1>4. DataKnown'
  BY <1>1, <1>3 DEF DataKnown
<1> QED
  BY <1>1, <1>2, <1>4 DEF Understood, OpcodeKnown, FlowKnown, FlagsKnown

LEMMA MidKnown ==
  ASSUME Known, Inv', NEW wait_n \in BOOLEAN, Stepped(wait_n), Quiet \/ Takes \/ Moves
  PROVE  SeenOK' /\ ResponseKnown' /\ Understood' /\ ProgramStep
<1>1. ~T_Res
  BY DEF Quiet, Takes, Moves
<1>2. SeenOK' /\ ResponseKnown'
  <2>1. UNCHANGED << NMICycle, IntCycle, seen >>
    BY <1>1, MidStep
  <2> QED
    BY <2>1, SameSeen
<1>3. CASE Takes
  BY <1>2, <1>3, TakesKnown, ProgramTakes DEF Understood
<1>4. CASE Quiet /\ ~Fetched
  BY <1>2, <1>4, BoundaryKnown, ProgramMid
<1>5. CASE (Quiet /\ Fetched) \/ Moves
  <2>1. Fetched' /\ OpcodeKnown' /\ FlowKnown' /\ FlagsKnown' /\ DataKnown'
    BY <1>5, OpcodeMid, DataMid
  <2>2. HaltKnown'
    BY <1>1, <2>1, HaltMid
  <2>3. AtBoundary'
    BY <2>1 DEF AtBoundary
  <2>4. ProgramStep
    BY <1>5, ProgramMid
  <2> QED
    BY <1>2, <2>1, <2>2, <2>3, <2>4 DEF Understood
<1> QED
  BY <1>3, <1>4, <1>5

LEMMA EndsKnown ==
  ASSUME Known, Inv', NEW wait_n \in BOOLEAN, Stepped(wait_n), Ends
  PROVE  SeenOK' /\ ResponseKnown' /\ Understood' /\ ProgramStep
<1>1. \/ Given
      \/ FetchDisplacement \/ ResumeAfterDisplacement \/ EndInstruction \/ NextMachineCycle
  BY EndShape DEF Known, Ends, Stepped, Step
<1>2. CASE EndInstruction
  <2>1. ProgramStep
    BY <1>2, ProgramResponds, ProgramExecutes
  <2> QED
    BY <1>2, <2>1, EndKnown
<1>3. CASE Given \/ FetchDisplacement \/ ResumeAfterDisplacement \/ NextMachineCycle
  <2>1. Understood' /\ ProgramStep /\ seen' = seen
    BY <1>3, GivenKnown, FetchDisplacementKnown, ResumeKnown, NextCycleKnown
  <2>2. UNCHANGED << NMICycle, IntCycle >>
    BY <1>3 DEF Given, FetchDisplacement, ResumeAfterDisplacement, NextMachineCycle, sequencer
  <2> QED
    BY <2>1, <2>2, SameSeen
<1> QED
  BY <1>1, <1>2, <1>3

LEMMA ClockKnown ==
  ASSUME Known, NEW wait_n \in BOOLEAN, Stepped(wait_n), Sample
  PROVE  ArchInv' /\ ProgramStep
<1>1. Inv' /\ FInv'
  BY ClockInv, FClock DEF Known, Stepped, Clock
<1>2. SeenOK' /\ ResponseKnown' /\ Understood' /\ ProgramStep
  BY <1>1, Shape, MidKnown, EndsKnown
<1>3. IOWaits'
  BY <1>1, IOWaitsStep
<1> QED
  BY <1>2, <1>3 DEF ArchInv, Understood
-------------------------------------------------------------------------------
(***************************************************************************)
(* Power-up, reset, and the theorems.                                       *)
(***************************************************************************)
\* A reset core has nothing to do but to fetch.
LEMMA NOPIsPlain ==
  /\ ROMPrefix("NOP", 0) = 0 /\ PCSpan \in Nat \ {0} /\ 0 \in PCs /\ PCSpan \in 0 .. PCSpan + 1
<1>1. PrefixAssumption
  BY CoreAssumption DEF MicrocodeAssumption
<1>2. "NOP" \in AllOpcodes /\ Decodes("NOP", 0)
  BY DEF AllOpcodes, Decodes
<1>3. ROMPrefix("NOP", 0) = 0
  BY <1>1, <1>2 DEF PrefixAssumption
<1> QED
  BY <1>3, PCWidth DEF PCs

LEMMA ResetViews == ViewAfterReset \in Views
BY NOPIsPlain DEF ViewAfterReset, Views, NotPC

LEMMA ArchStarts ==
  ASSUME ArchInit
  PROVE  ArchInv /\ Program!Init
<1>1. /\ MCycle = 1 /\ TState = 0 /\ IR = "NOP" /\ ISet = 0 /\ PC = 0 /\ IStatus = 0
      /\ ~IntE_FF1 /\ ~IntE_FF2 /\ IntE_FF1 = FALSE /\ IntE_FF2 = FALSE /\ ~Halt_FF
      /\ NMICycle = FALSE /\ IntCycle = FALSE
      /\ pushed = NoPush /\ seen = ViewAfterReset
  BY DEF ArchInit, Init
<1>2. ~Fetched /\ ~Done
  BY <1>1 DEF Fetched, Done
<1>3. /\ seen.pc = 0 /\ seen.page = 0 /\ seen.ret = NotPC /\ seen.iff1 = FALSE
      /\ seen.iff2 = FALSE /\ seen.im = 0 /\ seen.halted = FALSE /\ seen.response = "none"
  BY <1>1 DEF ViewAfterReset
<1>4. SeenOK
  BY <1>1, ResetViews DEF SeenOK
<1>5. ResponseKnown
  BY <1>1, <1>3 DEF ResponseKnown, Answers, This, Responds, Ordinary
<1>6. HaltKnown /\ AtBoundary
  <2>1. Prefix = 0
    BY <1>1, NOPIsPlain DEF Prefix
  <2>2. \A m \in 1..3 : Modes[m] # "NOP"
    BY DEF Modes
  <2>3. HaltKnown
    BY <1>1, <1>3 DEF HaltKnown, Responds
  <2>4. AtBoundary
    BY <1>1, <1>3, <2>1, <2>2 DEF AtBoundary
  <2> QED
    BY <2>3, <2>4
<1>7. DataKnown /\ IOWaits
  BY <1>1, <1>2 DEF DataKnown, IOWaits, NoPush
<1>8. OpcodeInIR = Program!NoOp
  BY <1>1 DEF OpcodeInIR, Program!NoOp
<1> QED
  BY <1>2, <1>3, <1>4, <1>5, <1>6, <1>7, <1>8
  DEF ArchInv, OpcodeKnown, FlowKnown, FlagsKnown, Program!Init, Program!NoAddress, NotPC

LEMMA ArchResets ==
  ASSUME ArchReset
  PROVE  ArchInv' /\ ProgramStep
<1>1. /\ MCycle' = 1 /\ TState' = 0 /\ IR' = "NOP" /\ ISet' = 0 /\ PC' = 0 /\ IStatus' = 0
      /\ ~IntE_FF1' /\ ~IntE_FF2' /\ IntE_FF1' = FALSE /\ IntE_FF2' = FALSE /\ ~Halt_FF'
      /\ NMICycle' = FALSE /\ IntCycle' = FALSE
      /\ pushed' = NoPush /\ seen' = ViewAfterReset /\ MayReset
  BY DEF ArchReset, Reset
<1>2. ~Fetched' /\ ~Done'
  BY <1>1 DEF Fetched, Done
<1>3. /\ seen'.pc = 0 /\ seen'.page = 0 /\ seen'.ret = NotPC /\ seen'.iff1 = FALSE
      /\ seen'.iff2 = FALSE /\ seen'.im = 0 /\ seen'.halted = FALSE /\ seen'.response = "none"
  BY <1>1 DEF ViewAfterReset
<1>4. SeenOK'
  BY <1>1, ResetViews DEF SeenOK
<1>5. ResponseKnown'
  BY <1>1, <1>3 DEF ResponseKnown, Answers, This, Responds, Ordinary
<1>6. HaltKnown' /\ AtBoundary'
  <2>1. Prefix' = 0
    BY <1>1, NOPIsPlain DEF Prefix
  <2>2. \A m \in 1..3 : Modes[m] # "NOP"
    BY DEF Modes
  <2>3. HaltKnown'
    BY <1>1, <1>3 DEF HaltKnown, Responds
  <2>4. AtBoundary'
    BY <1>1, <1>3, <2>1, <2>2 DEF AtBoundary
  <2> QED
    BY <2>3, <2>4
<1>7. DataKnown' /\ IOWaits'
  BY <1>1, <1>2 DEF DataKnown, IOWaits, NoPush
<1>8. OpcodeInIR' = Program!NoOp
  BY <1>1 DEF OpcodeInIR, Program!NoOp
<1>9. Program!Reset
  BY <1>1, <1>3, <1>8 DEF Program!Reset, Program!Init, Program!NoOp, Program!NoAddress, NotPC
<1> QED
  BY <1>2, <1>4, <1>5, <1>6, <1>7, <1>9
  DEF ArchInv, OpcodeKnown, FlowKnown, FlagsKnown, ProgramStep, Program!Next

LEMMA ArchSteps ==
  ASSUME Known, [ArchNext]_archVars
  PROVE  ArchInv' /\ ProgramStep
<1>1. CASE ArchClock
  <2>1. PICK wait_n \in WaitInputs : Step(wait_n)
    BY <1>1 DEF ArchClock
  <2>2. wait_n \in BOOLEAN
    BY DEF WaitInputs
  <2>3. Stepped(wait_n) /\ Sample
    BY <1>1, <2>1 DEF ArchClock, Stepped
  <2> QED
    BY <2>2, <2>3, ClockKnown
<1>2. CASE ArchReset
  BY <1>2, ArchResets
<1>3. CASE UNCHANGED archVars
  <2>1. /\ UNCHANGED << MCycle, TState, Pre_XY_F_M, NMICycle, IntCycle >>
        /\ UNCHANGED << IR, ISet, XY_State, XY_Ind, cc, BTR_r, PC, DO, IStatus >>
        /\ UNCHANGED << IntE_FF1, IntE_FF2, Halt_FF, Auto_Wait_t1, BusAck, pushed, seen >>
    BY <1>3 DEF archVars, vars, sequencer, datapath, decoded, waits, irqs
  <2>2. /\ This' = This /\ now' = now /\ Prefix' = Prefix
        /\ Fetched' = Fetched /\ Done' = Done /\ OpcodeInIR' = OpcodeInIR
    BY <2>1 DEF This, now, Prefix, Fetched, Done, OpcodeInIR
  <2>3. SeenOK' /\ ResponseKnown' /\ HaltKnown' /\ AtBoundary' /\ OpcodeKnown'
    BY <2>1, <2>2 DEF Known, ArchInv, SeenOK, ResponseKnown, HaltKnown, AtBoundary, OpcodeKnown
  <2>4. FlowKnown' /\ FlagsKnown' /\ IOWaits'
    BY <2>1, <2>2 DEF Known, ArchInv, FlowKnown, FlagsKnown, IOWaits, On
  <2>5. DataKnown'
    BY <2>1, <2>2 DEF Known, ArchInv, DataKnown
  <2>6. UNCHANGED Program!vars
    BY <2>1, <2>2 DEF Program!vars
  <2> QED
    BY <2>3, <2>4, <2>5, <2>6 DEF ArchInv, ProgramStep
<1> QED
  BY <1>1, <1>2, <1>3 DEF ArchNext

\* The history only watches: T80Arch takes the steps of T80.
LEMMA ArchIsCore == ArchSpec => Spec
<1>1. ArchInit => Init
  BY DEF ArchInit
<1>2. [ArchNext]_archVars => [Next]_vars
  BY DEF ArchNext, ArchClock, ArchReset, Next, Clock, archVars
<1> QED
  BY <1>1, <1>2, PTL DEF ArchSpec, Spec

\* At every T state the registers are where the opcode, what the last boundary showed and
\* the machine cycle put them: this is what makes one instruction of the machine cycles.
THEOREM ArchInvariance == ArchSpec => []ArchInv
<1>1. ArchInit => ArchInv
  BY ArchStarts
<1>2. Inv /\ FInv /\ AInv /\ ArchInv /\ [ArchNext]_archVars => ArchInv'
  BY ArchSteps DEF Known
<1>3. ArchSpec => []Inv /\ []FInv /\ []AInv
  BY ArchIsCore, Invariance, FetchInvariance, AddressInvariance, PTL
<1> QED
  BY <1>1, <1>2, <1>3, PTL DEF ArchSpec

\* The core runs a program as Z80 does, whatever the PC width, the wait states, the bus
\* requests and the instants at which INT and NMI arrive (T80.vhd:1342-1412).
THEOREM CoreRunsProgram == ArchSpec => ImplementsZ80
<1>1. ArchInit => Program!Init
  BY ArchStarts
<1>2. Inv /\ FInv /\ AInv /\ ArchInv /\ [ArchNext]_archVars => [Program!Next]_(Program!vars)
  BY ArchSteps DEF Known, ProgramStep
<1>3. ArchSpec => []Inv /\ []FInv /\ []AInv
  BY ArchIsCore, Invariance, FetchInvariance, AddressInvariance, PTL
<1> QED
  BY <1>1, <1>2, <1>3, ArchInvariance, PTL DEF ArchSpec, ImplementsZ80, Program!Spec
===============================================================================
