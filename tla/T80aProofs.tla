------------------------------ MODULE T80aProofs ------------------------------
(***************************************************************************)
(* Theorems about the wrappers T80a and T80a_dido, for every instance of    *)
(* the core inside them: the wrapper runs the core as T80 specifies it, and *)
(* its strobes, its data and its address keep to the protocol of the bus.   *)
(***************************************************************************)
EXTENDS T80a, T80Proofs

\* What a machine cycle asks of the bus.
Reads == IF MCycle = 1 THEN ~IntCycle ELSE ~On("NoRead") /\ ~Write
AddressesMemory == IF MCycle = 1 THEN ~IntCycle ELSE ~On("NoRead") /\ ~On("IORQ")

\* The falling edge has put the flip-flops where the T state wants them ...
FallState ==
  low =>
    /\ RD <=> TState \in 1..2 /\ Reads
    /\ MREQ <=> (TState \in 1..2 /\ AddressesMemory) \/ (MCycle = 1 /\ TState = 3)
    /\ WR_t2 <=> MCycle # 1 /\ TState = 2 /\ Write
    /\ Write_half_delayed <=> Write
    /\ IORQ_t1 <=> (TState \in 1..2 => IntCycle)
    /\ MReq_Inhibit <=> ~(MCycle = 1 /\ TState = 2 /\ Wait_s)
    /\ ~Req_Inhibit => MCycle = 1 /\ TState = 3
    /\ ~IORQ_t2 => TState \in 1..3 /\ ~IntCycle /\ (TState = 1 /\ On("IORQ") => Auto_Wait_t1)

\* ... and the rising edge has moved on by a T state, or not.
RiseState ==
  ~low =>
    /\ RD => TState \in 1..3 /\ Reads
    /\ MREQ => (TState \in 1..3 /\ AddressesMemory) \/ (MCycle = 1 /\ TState \in 3..4)
    /\ MREQ /\ ~Write => RD \/ (MCycle = 1 /\ TState \in 3..4)
    /\ WR_t2 => MCycle # 1 /\ TState \in 2..3 /\ Write /\ Write_half_delayed
    /\ ~IORQ_t1 => /\ TState \in 1..3 /\ ~IntCycle /\ (Write_half_delayed <=> Write)
                   /\ TState = 1 /\ On("IORQ") => Auto_Wait_t1
    /\ ~MReq_Inhibit => MCycle = 1 /\ TState = 3
    /\ (Req_Inhibit <=> MReq_Inhibit) /\ (IORQ_t2 <=> IORQ_t1)

\* From T1 to T3 nothing has changed.
Requested ==
  ~low /\ (TState = 2 \/ (TState = 3 /\ MCycle # 1 /\ ~BusAck)) =>
    /\ RD <=> Reads
    /\ MREQ <=> AddressesMemory
    /\ IORQ_t1 <=> IntCycle

\* IORQ_n acknowledges INT in an M1 cycle; the refresh is announced before it begins.
Acknowledges == IORQ_int => MCycle = 1 /\ TState \in 1..2 /\ IntCycle
Refreshes == MCycle = 1 /\ (TState = 3 \/ (TState = 4 /\ MREQ)) => ~RFSH_n

\* A grant finds every flip-flop at rest.
AtRest == BusAck => ~RD /\ ~MREQ /\ ~WR_t2 /\ IORQ_t1 /\ IORQ_t2 /\ ~IORQ_int

\* Automatic wait states are over when T1 is.
WaitedInT1 ==
  TState >= 2 /\ ~T_Res =>
    /\ Auto_Wait => Auto_Wait_t1 /\ Auto_Wait_t2
    /\ On("IORQ") => Auto_Wait_t1

\* What a device has answered to INT is an opcode of the first page, without a prefix.
Answered ==
  IntCycle /\ (MCycle # 1 \/ TState >= 3) =>
    IR \in IntAckOps \cup {"NOP", "RST"} /\ ISet = 0 /\ ~XY_State

\* No block instruction has come round while its opcode is being fetched.
NotRound == MCycle = 1 /\ TState >= 2 => ~No_BTR

\* A displacement is fetched for an operand that asked for it.
AskedFor ==
  MCycle \in 6..7 =>
    \/ ISet = 1 \/ IR \in {"CB", "LDHLn"}
    \/ "aXY" \in ROMCycle(IR, ISet, Pre_XY_F_M, cc, NMICycle, IntCycle, XY_State).out

\* The byte that has been read stays in DI_Reg until the next one.
Latched ==
  \A byte \in {DI_Reg, DI_Reg_dido} :
    /\ MCycle # 1 /\ Reads /\ (TState > 3 \/ (TState = 3 /\ (low \/ BusAck))) => byte = MCycle
    /\ On("JumpE") /\ TState \in 1..2 => byte = MCycle - 1

\* The inhibition of IORQ_n counts the clocks of T1 ...
InhibitCounts ==
  IntCycle /\ MCycle = 1 /\ TState = 1 =>
    /\ IORQ_int <=> Auto_Wait_t1
    /\ IORQ_int_inhibit = (IF low THEN 2 ELSE 3)
                           - (IF Auto_Wait_t2 THEN 2 ELSE IF Auto_Wait_t1 THEN 1 ELSE 0)

\* ... and is set up again in the second cycle of the response.
InhibitReady ==
  (IntCycle => MCycle # 1 /\ (MCycle = 2 => low \/ TState >= 2)) => IORQ_int_inhibit = 3

BInv == /\ TypeOKBus /\ FallState /\ RiseState /\ Requested /\ Acknowledges /\ Refreshes
        /\ AtRest /\ WaitedInT1 /\ Answered /\ AskedFor /\ Latched /\ InhibitCounts
        /\ InhibitReady /\ NotRound
-------------------------------------------------------------------------------
(***************************************************************************)
(* The wrapper clocks the core as its specification has it.                 *)
(***************************************************************************)
\* WAIT_n, sampled on the falling edge, is what the core makes of it half a clock later.
WaitSampled == low => Wait_s \in WaitInputs

LEMMA WaitInit == InitBus => Init /\ WaitSampled
BY DEF InitBus, WaitSampled

LEMMA WaitStep ==
  ASSUME WaitSampled, [NextBus]_busVars
  PROVE  WaitSampled' /\ [Next]_vars
<1>1. ASSUME NEW wait_n \in WaitInputs, Fall(wait_n) PROVE WaitSampled' /\ [Next]_vars
  <2>1. UNCHANGED vars /\ Wait_s' = wait_n /\ TState' = TState
    BY <1>1 DEF Fall, vars, sequencer
  <2> QED
    BY <2>1 DEF WaitSampled, WaitInputs
<1>2. CASE Rise
  BY <1>2 DEF Rise, WaitSampled, Next
<1>3. CASE ResetAll
  BY <1>3 DEF ResetAll, WaitSampled, Next
<1>4. CASE UNCHANGED busVars
  BY <1>4 DEF busVars, vars, sequencer, onFall, WaitSampled, WaitInputs
<1> QED
  BY <1>1, <1>2, <1>3, <1>4 DEF NextBus

\* Whatever the wrapper does, the core inside it is the core of T80: every theorem about Spec
\* is one about SpecBus (T80a.vhd:166-199, the instantiation of the core on the rising edge).
THEOREM BusRunsCore == SpecBus => Spec
<1>1. InitBus => Init /\ WaitSampled
  BY WaitInit
<1>2. WaitSampled /\ [NextBus]_busVars => WaitSampled' /\ [Next]_vars
  BY WaitStep
<1> QED
  BY <1>1, <1>2, PTL DEF SpecBus, Spec
-------------------------------------------------------------------------------
(***************************************************************************)
(* What the microcode raises in the machine cycle that the core is in.      *)
(***************************************************************************)
LEMMA StrobeInstance ==
  ASSUME NEW ir \in AllOpcodes, NEW iset \in 0..2, Decodes(ir, iset),
         NEW c \in BOOLEAN, NEW n \in BOOLEAN, NEW i \in BOOLEAN, NEW x \in BOOLEAN
  PROVE  Strobed(ir, iset, c, n, i, x)
BY StrobeAssumption, SMTT(20)

LEMMA Strobes ==
  ASSUME TypeOK
  PROVE  /\ MCycle = 1 => ~On("IORQ") /\ ~On("Write") /\ ~On("I_BT")
         /\ MCycle = 6 => ~On("IORQ") /\ ~On("Write") /\ ~On("NoRead")
         /\ MCycle = 7 => ~On("IORQ") /\ ~On("Write") /\ (ISet = 1 => ~On("NoRead"))
         /\ On("JumpE") => ISet = 0 /\ IR \notin {"CB", "LDHLn"} /\ MCycle \in 3..5
<1>1. Strobed(IR, ISet, cc, NMICycle, IntCycle, XY_State)
  BY ArgumentTypes, StrobeInstance
<1> QED
  BY <1>1, ArgumentTypes DEF Strobed, On, now

LEMMA StrobesAfter ==
  ASSUME TypeOK'
  PROVE  /\ Strobed(IR', ISet', cc', NMICycle', IntCycle', XY_State')
         /\ MCycle' = 1 => ~On("IORQ")' /\ ~On("Write")' /\ ~On("I_BT")'
         /\ MCycle' = 6 => ~On("IORQ")' /\ ~On("Write")' /\ ~On("NoRead")'
         /\ MCycle' = 7 => ~On("IORQ")' /\ ~On("Write")' /\ (ISet' = 1 => ~On("NoRead")')
         /\ On("JumpE")' => ISet' = 0 /\ IR' \notin {"CB", "LDHLn"} /\ MCycle' \in 3..5
<1>1. /\ IR' \in AllOpcodes /\ ISet' \in 0..2 /\ Decodes(IR', ISet') /\ MCycle' \in 1..7
      /\ cc' \in BOOLEAN /\ NMICycle' \in BOOLEAN /\ IntCycle' \in BOOLEAN
      /\ XY_State' \in BOOLEAN
  BY DEF TypeOK
<1>2. Strobed(IR', ISet', cc', NMICycle', IntCycle', XY_State')
  BY <1>1, StrobeInstance
<1> QED
  BY <1>1, <1>2 DEF Strobed, On, now

\* Within a machine cycle the core asks the same of the bus, also when the opcode arrives in
\* the middle of it.
LEMMA RequestKept ==
  ASSUME Inv, TypeOK', NEW wait_n, Sequencer(wait_n), DataPath(wait_n), Stays \/ Advances
  PROVE  /\ On("IORQ")' <=> On("IORQ")
         /\ On("Write")' <=> On("Write")
         /\ On("JumpE")' <=> On("JumpE")
         /\ MCycle # 1 => (On("NoRead")' <=> On("NoRead"))
<1> USE DEF Inv
<1>1. UNCHANGED << MCycle, NMICycle, IntCycle >>
  BY DEF Stays, Advances
<1>2. CASE Fetches
  <2>1. MCycle = 1 /\ MCycle' = 1
    BY <1>1, <1>2 DEF Fetches
  <2> QED
    BY <2>1, Strobes, StrobesAfter
<1>3. CASE ReadsLast \/ SwitchesPage
  <2>1. MCycle \in 6..7 /\ MCycle' = MCycle /\ (MCycle = 7 => ISet = 1 /\ ISet' = 1)
    BY <1>1, <1>3 DEF ReadsLast, SwitchesPage
  <2> QED
    BY <2>1, Strobes, StrobesAfter
<1>4. CASE KeepsOpcode
  <2>1. now' = now
    BY <1>1, <1>4, NowKept
  <2> QED
    BY <2>1 DEF On
<1> QED
  BY <1>2, <1>3, <1>4, DecodeStep

\* The same, in the words of the wrapper.
LEMMA AccessKept ==
  ASSUME Inv, TypeOK', NEW wait_n, Sequencer(wait_n), DataPath(wait_n), Stays \/ Advances
  PROVE  (Reads' <=> Reads) /\ (AddressesMemory' <=> AddressesMemory) /\ (Write' <=> Write)
<1>1. MCycle' = MCycle /\ IntCycle' = IntCycle
  BY DEF Stays, Advances
<1> QED
  BY <1>1, RequestKept DEF Reads, AddressesMemory, Write
-------------------------------------------------------------------------------
(***************************************************************************)
(* The falling edge.  The core stands still.                                *)
(***************************************************************************)
LEMMA CoreStill ==
  ASSUME UNCHANGED vars
  PROVE  /\ UNCHANGED << MCycle, TState, IntCycle, Auto_Wait_t1, Auto_Wait_t2, BusAck, ISet, IR,
                         XY_State, A >>
         /\ (Reads' <=> Reads) /\ (AddressesMemory' <=> AddressesMemory)
         /\ (Write' <=> Write) /\ (On("IORQ")' <=> On("IORQ"))
         /\ (On("JumpE")' <=> On("JumpE")) /\ (T_Res' <=> T_Res)
         /\ (WaitedInT1' <=> WaitedInT1) /\ (Answered' <=> Answered) /\ (AskedFor' <=> AskedFor)
         /\ (NotRound' <=> NotRound)
BY DEF vars, sequencer, datapath, decoded, waits, Reads, AddressesMemory, Write, On, now, T_Res,
   WaitedInT1, Auto_Wait, Answered, AskedFor, NotRound

\* What the falling edge sets, flip-flop by flip-flop.
LEMMA FallSets ==
  ASSUME NEW wait_n, Fall(wait_n)
  PROVE  /\ MCycle = 1 /\ TState = 1 => (RD' <=> ~IntCycle) /\ (MREQ' <=> ~IntCycle)
         /\ MCycle = 1 /\ TState # 1 =>
              /\ RD' <=> RD /\ TState # 3
              /\ MREQ' <=> TState = 3 \/ (MREQ /\ TState # 4)
         /\ MCycle # 1 /\ TState = 1 /\ ~On("NoRead") =>
              (RD' <=> ~Write) /\ (MREQ' <=> ~On("IORQ"))
         /\ MCycle # 1 /\ (TState # 1 \/ On("NoRead")) =>
              (RD' <=> RD /\ TState # 3) /\ (MREQ' <=> MREQ /\ TState # 3)
         /\ TState = 1 => (IORQ_t1' <=> IntCycle)
         /\ TState # 1 => (IORQ_t1' <=> TState = 3 \/ IORQ_t1)
         /\ TState = 3 => ~WR_t2'
         /\ TState # 3 /\ MCycle # 1 /\ TState = 2 => (WR_t2' <=> Write)
         /\ TState # 3 /\ (MCycle = 1 \/ TState # 2) => (WR_t2' <=> WR_t2)
<1>1. Requests /\ RequestIO /\ WriteStrobe
  BY DEF Fall
<1>2. MCycle = 1 /\ TState = 1 => (RD' <=> ~IntCycle) /\ (MREQ' <=> ~IntCycle)
  BY <1>1 DEF Requests
<1>3. MCycle = 1 /\ TState # 1 =>
        (RD' <=> RD /\ TState # 3) /\ (MREQ' <=> TState = 3 \/ (MREQ /\ TState # 4))
  BY <1>1, Zenon DEF Requests
<1>4. MCycle # 1 /\ TState = 1 /\ ~On("NoRead") => (RD' <=> ~Write) /\ (MREQ' <=> ~On("IORQ"))
  BY <1>1, Zenon DEF Requests
<1>5. MCycle # 1 /\ (TState # 1 \/ On("NoRead")) =>
        (RD' <=> RD /\ TState # 3) /\ (MREQ' <=> MREQ /\ TState # 3)
  BY <1>1, Zenon DEF Requests
<1>6. /\ TState = 1 => (IORQ_t1' <=> IntCycle)
      /\ TState # 1 => (IORQ_t1' <=> TState = 3 \/ IORQ_t1)
  BY <1>1, Zenon DEF RequestIO
<1>7. /\ TState = 3 => ~WR_t2'
      /\ TState # 3 /\ MCycle # 1 /\ TState = 2 => (WR_t2' <=> Write)
      /\ TState # 3 /\ (MCycle = 1 \/ TState # 2) => (WR_t2' <=> WR_t2)
  BY <1>1, Zenon DEF WriteStrobe
<1> QED
  BY <1>2, <1>3, <1>4, <1>5, <1>6, <1>7

LEMMA FallTypes ==
  ASSUME Inv, FInv, BInv, NEW wait_n \in BOOLEAN, Fall(wait_n)
  PROVE  TypeOKBus'
<1> USE DEF Inv, FInv, BInv
<1>1. DataIn \in 0..7
  BY DEF DataIn, TypeOK
<1>2. DI_Reg' \in 0..7 /\ DI_Reg_dido' \in 0..7
  BY <1>1 DEF Fall, SampleData, TypeOKBus
<1>3. Write \in BOOLEAN /\ (~On("IORQ")) \in BOOLEAN
  BY DEF Write, On
<1>4. Write_half_delayed' \in BOOLEAN /\ WR_t2' \in BOOLEAN
  BY <1>3 DEF Fall, WriteStrobe, TypeOKBus
<1>5. MReq_Inhibit' \in BOOLEAN
  BY DEF Fall, Inhibit
<1>6. RD' \in BOOLEAN /\ MREQ' \in BOOLEAN
  BY <1>3 DEF Fall, Requests, TypeOKBus, TypeOK
<1>7. IORQ_t1' \in BOOLEAN
  BY DEF Fall, RequestIO, TypeOKBus, TypeOK
<1>8. IORQ_int_inhibit' \in 0..3
  BY DEF Fall, RequestIO, TypeOKBus
<1> QED
  BY <1>2, <1>4, <1>5, <1>6, <1>7, <1>8 DEF Fall, onRise, TypeOKBus

LEMMA FallStrobes ==
  ASSUME Inv, FInv, BInv, NEW wait_n \in BOOLEAN, Fall(wait_n)
  PROVE  FallState' /\ RiseState' /\ Requested'
<1> USE DEF Inv, FInv, BInv
<1>1. /\ ~low /\ low' /\ UNCHANGED << MCycle, TState, IntCycle, Auto_Wait_t1 >>
      /\ (Reads' <=> Reads) /\ (AddressesMemory' <=> AddressesMemory)
      /\ (Write' <=> Write) /\ (On("IORQ")' <=> On("IORQ"))
      /\ UNCHANGED << Req_Inhibit, IORQ_t2 >>
  BY CoreStill DEF Fall, onRise
<1>2. MCycle \in 1..7 /\ TState \in 0..6 /\ IntCycle \in BOOLEAN /\ (MCycle = 1 => ~Write)
  BY Strobes DEF TypeOK, Write
<1>3. RD' <=> TState \in 1..2 /\ Reads
  BY <1>1, <1>2, FallSets DEF RiseState, Requested, Reads
<1>4. MREQ' <=> (TState \in 1..2 /\ AddressesMemory) \/ (MCycle = 1 /\ TState = 3)
  BY <1>1, <1>2, FallSets DEF RiseState, Requested, AddressesMemory
<1>5. WR_t2' <=> MCycle # 1 /\ TState = 2 /\ Write
  BY <1>1, <1>2, FallSets DEF RiseState
<1>6. IORQ_t1' <=> (TState \in 1..2 => IntCycle)
  BY <1>1, <1>2, FallSets DEF RiseState, Requested
<1>7. /\ MReq_Inhibit' <=> ~(MCycle = 1 /\ TState = 2 /\ Wait_s')
      /\ Write_half_delayed' <=> Write
  BY DEF Fall, Inhibit, WriteStrobe
<1>8. /\ ~Req_Inhibit => MCycle = 1 /\ TState = 3
      /\ ~IORQ_t2 => TState \in 1..3 /\ ~IntCycle /\ (TState = 1 /\ On("IORQ") => Auto_Wait_t1)
  BY <1>1 DEF RiseState
<1>9. FallState'
  BY <1>1, <1>3, <1>4, <1>5, <1>6, <1>7, <1>8 DEF FallState
<1> QED
  BY <1>1, <1>9 DEF RiseState, Requested

LEMMA FallOthers ==
  ASSUME Inv, FInv, BInv, NEW wait_n \in BOOLEAN, Fall(wait_n)
  PROVE  Acknowledges' /\ Refreshes' /\ AtRest' /\ WaitedInT1' /\ Answered' /\ AskedFor' /\ NotRound'
<1> USE DEF Inv, FInv, BInv
<1>1. /\ ~low /\ UNCHANGED << MCycle, TState, IntCycle, BusAck, IORQ_int, RFSH_n, IORQ_t2 >>
  BY CoreStill DEF Fall, onRise
<1>2. WaitedInT1' /\ Answered' /\ AskedFor' /\ NotRound'
  BY CoreStill DEF Fall
<1>3. Acknowledges'
  BY <1>1 DEF Acknowledges
<1>4. MCycle = 1 /\ TState = 4 => ~MREQ'
  BY FallSets
<1>5. Refreshes'
  BY <1>1, <1>4 DEF Refreshes
<1>6. ASSUME BusAck PROVE ~RD' /\ ~MREQ' /\ ~WR_t2' /\ IORQ_t1'
  <2>1. (TState = 0 /\ MCycle = 1) \/ (TState >= 3 /\ (MCycle = 1 => TState >= 4))
    BY <1>6, Timing DEF GrantedAtEnd, T_Res, FInv, AckWaits, TypeOK
  <2>2. ~RD /\ ~MREQ /\ ~WR_t2 /\ IORQ_t1
    BY <1>6 DEF AtRest
  <2> QED
    BY <2>1, <2>2, FallSets
<1>7. AtRest'
  BY <1>1, <1>6 DEF AtRest
<1> QED
  BY <1>2, <1>3, <1>5, <1>7

\* An answer to INT has more than one machine cycle, and none of them is for a device.
LEMMA AnswerIsCall ==
  ASSUME Inv, Answered, IntCycle, MCycle # 1 \/ TState >= 3
  PROVE  /\ ~On("IORQ")
         /\ ROMCount(IR, ISet, 1, cc, NMICycle, IntCycle, XY_State) > 1
<1>1. /\ IR \in IntAckOps \cup {"NOP", "RST"} /\ ISet = 0 /\ IntCycle = TRUE
      /\ NMICycle = FALSE /\ MCycle \in 1..7 /\ cc \in BOOLEAN /\ XY_State \in BOOLEAN
  BY DEF Inv, Answered, InterruptsShutOut, TypeOK
<1>2. /\ ROMCount(IR, 0, 1, cc, FALSE, TRUE, XY_State) > 1
      /\ "IORQ" \notin ROMCycle(IR, 0, MCycle, cc, FALSE, TRUE, XY_State).out
  BY <1>1, AnswerAssumption
<1> QED
  BY <1>1, <1>2 DEF On, now

LEMMA AnswerIsNoIO ==
  ASSUME Inv, Answered, IntCycle
  PROVE  ~On("IORQ")
BY AnswerIsCall, Strobes DEF Inv

\* The byte that is sampled in T3 is that of an access which is still going on.
LEMMA SampledInAccess ==
  ASSUME Inv, FInv, BInv, ~low, TState = 3, MCycle # 1, ~BusAck, Reads
  PROVE  ~RD_n_i
<1> USE DEF Inv, BInv
<1>1. RD /\ (MREQ <=> AddressesMemory) /\ (IORQ_t1 <=> IntCycle)
  BY DEF Requested
<1>2. Req_Inhibit /\ (IORQ_t2 <=> IORQ_t1)
  BY DEF RiseState
<1>3. CASE On("IORQ")
  <2>1. ~IntCycle
    BY <1>3, AnswerIsNoIO
  <2> QED
    BY <1>1, <1>2, <1>3, <2>1 DEF RD_n_i, IORQ_rw
<1>4. CASE ~On("IORQ")
  BY <1>1, <1>2, <1>4 DEF RD_n_i, MREQ_rw, Reads, AddressesMemory
<1> QED
  BY <1>3, <1>4

LEMMA FallLatched ==
  ASSUME Inv, FInv, BInv, NEW wait_n \in BOOLEAN, Fall(wait_n)
  PROVE  Latched'
<1> USE DEF Inv, BInv
<1>1. /\ ~low /\ low' /\ UNCHANGED << MCycle, TState, BusAck >>
      /\ (Reads' <=> Reads) /\ (On("JumpE")' <=> On("JumpE"))
  BY CoreStill DEF Fall
<1>2. ASSUME TState # 3 \/ BusAck PROVE UNCHANGED << DI_Reg, DI_Reg_dido >>
  BY <1>2 DEF Fall, SampleData, BUSAK_n_i
<1>3. ASSUME TState = 3, MCycle # 1, ~BusAck, Reads PROVE DI_Reg' = MCycle /\ DI_Reg_dido' = MCycle
  BY <1>1, <1>3, SampledInAccess DEF Fall, SampleData, BUSAK_n_i, DataIn
<1>4. ASSUME MCycle # 1, Reads, TState >= 3 PROVE DI_Reg' = MCycle /\ DI_Reg_dido' = MCycle
  <2>1. CASE TState = 3 /\ ~BusAck
    BY <1>3, <1>4, <2>1
  <2>2. CASE TState # 3 \/ BusAck
    <3>1. TState > 3 \/ (TState = 3 /\ BusAck)
      BY <1>4, <2>2 DEF TypeOK
    <3> QED
      BY <1>2, <1>4, <2>2, <3>1 DEF Latched
  <2> QED
    BY <2>1, <2>2
<1>5. ASSUME On("JumpE"), TState \in 1..2
      PROVE  DI_Reg' = MCycle - 1 /\ DI_Reg_dido' = MCycle - 1
  <2>1. TState # 3
    BY <1>5
  <2> QED
    BY <1>2, <1>5, <2>1 DEF Latched
<1>6. TState \in 0..6
  BY DEF TypeOK
<1> QED
  BY <1>1, <1>4, <1>5, <1>6 DEF Latched

LEMMA FallInhibit ==
  ASSUME Inv, FInv, BInv, NEW wait_n \in BOOLEAN, Fall(wait_n)
  PROVE  InhibitCounts' /\ InhibitReady'
<1> USE DEF Inv, BInv
<1>1. /\ ~low /\ low'
      /\ UNCHANGED << MCycle, TState, IntCycle, Auto_Wait_t1, Auto_Wait_t2, IORQ_int >>
  BY CoreStill DEF Fall, onRise
<1>2. IORQ_int_inhibit' =
        IF IntCycle /\ MCycle = 1 /\ IORQ_int_inhibit > 0 THEN IORQ_int_inhibit - 1
        ELSE IF IntCycle /\ MCycle = 2 THEN 3
        ELSE IORQ_int_inhibit
  BY DEF Fall, RequestIO
<1>3. InhibitCounts'
  BY <1>1, <1>2 DEF InhibitCounts
<1>4. ASSUME IntCycle => MCycle # 1 PROVE IORQ_int_inhibit' = 3
  <2>1. CASE IntCycle /\ MCycle = 2
    BY <1>2, <2>1
  <2>2. CASE ~(IntCycle /\ MCycle = 2)
    BY <1>2, <1>4, <2>2 DEF InhibitReady
  <2> QED
    BY <2>1, <2>2
<1>5. InhibitReady'
  BY <1>1, <1>4 DEF InhibitReady
<1> QED
  BY <1>3, <1>5

LEMMA FallStep ==
  ASSUME Inv, FInv, BInv, NEW wait_n \in BOOLEAN, Fall(wait_n)
  PROVE  BInv'
BY FallTypes, FallStrobes, FallOthers, FallLatched, FallInhibit DEF BInv
-------------------------------------------------------------------------------
(***************************************************************************)
(* The rising edge.  The core takes a step with WAIT_n as sampled.          *)
(***************************************************************************)
LEMMA RiseSteps ==
  ASSUME Rise
  PROVE  /\ low /\ ~low' /\ UNCHANGED onFall
         /\ Sequencer(Wait_s) /\ DataPath(Wait_s) /\ WaitStates
         /\ RequestOnRise /\ Refresh /\ Clock(Wait_s)
BY DEF Rise, Clock, Step

\* In T3 and later only a bus grant holds the core up.
LEMMA HeldUp ==
  ASSUME Inv, WaitedInT1, NEW wait_n, Sequencer(wait_n), Stays, TState >= 2
  PROVE  BusAck' \/ (TState = 2 /\ ~T_Res /\ ~Held)
<1>1. ~Advances /\ ~Enters
  BY DEF Inv, TypeOK, Stays, Advances, Enters
<1>2. ~FetchDisplacement /\ ~ResumeAfterDisplacement /\ ~EndInstruction /\ ~NextMachineCycle
  BY <1>1 DEF Enters, FetchDisplacement, ResumeAfterDisplacement, EndInstruction,
              NextMachineCycle, EnterCycle
<1>3. ~NextTState(wait_n)
  BY <1>1 DEF Advances, NextTState
<1>4. ~StretchT1(wait_n)
  BY DEF StretchT1, WaitedInT1, AutoWaiting, Auto_Wait
<1>5. CASE HoldForBus \/ GrantBus
  BY <1>5 DEF HoldForBus, GrantBus, Held
<1>6. CASE StretchT2(wait_n)
  BY <1>6, Timing DEF StretchT2, Waiting, T_Res, Inv
<1> QED
  BY <1>2, <1>3, <1>4, <1>5, <1>6 DEF Sequencer

\* The three ways of a rising edge, with what the strobes need to know of each.
LEMMA RiseMoves ==
  ASSUME Inv, FInv, BInv, Rise
  PROVE  \/ /\ Stays /\ (TState = 3 => BusAck')
            /\ ~(MCycle = 1 /\ TState = 2 /\ Wait_s)
            /\ MCycle' = MCycle /\ TState' = TState /\ IntCycle' = IntCycle
         \/ /\ Advances /\ ~BusAck'
            /\ MCycle' = MCycle /\ TState' = TState + 1 /\ IntCycle' = IntCycle
            /\ MCycle = 1 /\ TState = 2 => Wait_s
         \/ /\ Enters /\ ~BusAck' /\ TState' = 1 /\ TState >= 3 /\ (MCycle = 1 => TState >= 4)
<1> USE DEF Inv
<1>1. Sequencer(Wait_s)
  BY RiseSteps
<1>2. MCycle = 1 /\ TState = 2 => IF Wait_s THEN Advances ELSE Stays
  BY <1>1, FetchWaits
<1>3. ~(Stays /\ Advances)
  BY DEF Stays, Advances, TypeOK
<1>4. CASE Stays
  <2>1. TState = 3 => BusAck'
    BY <1>1, <1>4, HeldUp DEF BInv
  <2> QED
    BY <1>2, <1>3, <1>4, <2>1 DEF Stays
<1>5. CASE Advances
  BY <1>2, <1>3, <1>5 DEF Advances
<1>6. CASE Enters
  BY <1>6, Timing DEF Enters, CycleEnds, T_Res
<1> QED
  BY <1>1, <1>4, <1>5, <1>6, SequencerStep

LEMMA RiseTypes ==
  ASSUME Inv, BInv, Rise
  PROVE  TypeOKBus'
<1> USE DEF Inv, BInv
<1>1. UNCHANGED onFall /\ low' \in BOOLEAN
  BY RiseSteps DEF Rise
<1>2. IORQ_int' \in BOOLEAN
  BY DEF Rise, RequestOnRise, TypeOKBus, TypeOK
<1>3. Req_Inhibit' \in BOOLEAN /\ IORQ_t2' \in BOOLEAN /\ RFSH_n' \in BOOLEAN
  BY DEF Rise, RequestOnRise, Refresh, TypeOKBus
<1> QED
  BY <1>1, <1>2, <1>3 DEF onFall, TypeOKBus

LEMMA RiseStrobes ==
  ASSUME Inv, FInv, BInv, TypeOK', Rise
  PROVE  FallState' /\ RiseState' /\ Requested'
<1> USE DEF Inv, BInv
<1>1. /\ low /\ ~low'
      /\ UNCHANGED << RD, MREQ, WR_t2, MReq_Inhibit, IORQ_t1, Write_half_delayed >>
      /\ Req_Inhibit' = MReq_Inhibit /\ IORQ_t2' = IORQ_t1
  BY DEF Rise, onFall, RequestOnRise
<1>2. /\ RD <=> TState \in 1..2 /\ Reads
      /\ MREQ <=> (TState \in 1..2 /\ AddressesMemory) \/ (MCycle = 1 /\ TState = 3)
      /\ WR_t2 <=> MCycle # 1 /\ TState = 2 /\ Write
      /\ Write_half_delayed <=> Write
      /\ IORQ_t1 <=> (TState \in 1..2 => IntCycle)
      /\ MReq_Inhibit <=> ~(MCycle = 1 /\ TState = 2 /\ Wait_s)
  BY <1>1 DEF FallState
<1>3. MCycle \in 1..7 /\ TState \in 0..6 /\ (MCycle = 1 => ~Write) /\ (~Write => ~On("Write"))
  BY Strobes DEF TypeOK, Write
<1>4. AddressesMemory /\ ~Write => Reads
  BY DEF AddressesMemory, Reads
<1>5. Sequencer(Wait_s) /\ DataPath(Wait_s) /\ WaitStates
  BY RiseSteps
<1>6. CASE Stays \/ Advances
  <2>1. /\ Reads' <=> Reads
        /\ AddressesMemory' <=> AddressesMemory
        /\ Write' <=> Write
        /\ On("IORQ")' <=> On("IORQ")
    BY <1>5, <1>6, AccessKept, RequestKept
  <2>2. ASSUME TState' = 1, On("IORQ")', ~IORQ_t1 PROVE Auto_Wait_t1'
    <3>1. TState = 1
      BY <1>2, <1>6, <2>2 DEF Stays, Advances
    <3>2. ~T_Res
      BY <3>1, Timing DEF T_Res
    <3> QED
      BY <1>5, <2>1, <2>2, <3>2 DEF WaitStates
  <2>3. /\ MCycle' = MCycle /\ IntCycle' = IntCycle
        /\ \/ TState' = TState /\ (TState = 3 => BusAck') /\ ~(MCycle = 1 /\ TState = 2 /\ Wait_s)
           \/ TState' = TState + 1
    <3>1. ~(TState' = 1 /\ TState >= 3)
      BY <1>3, <1>6 DEF Stays, Advances
    <3> QED
      BY <3>1, RiseMoves
  <2> QED
    BY <1>1, <1>2, <1>3, <1>4, <2>1, <2>2, <2>3 DEF FallState, RiseState, Requested
<1>7. CASE Enters /\ TState >= 3 /\ TState' = 1 /\ (MCycle = 1 => TState >= 4)
  <2>1. ~RD /\ ~MREQ /\ ~WR_t2 /\ IORQ_t1 /\ MReq_Inhibit
    BY <1>2, <1>3, <1>7
  <2> QED
    BY <1>1, <1>7, <2>1 DEF FallState, RiseState, Requested
<1> QED
  BY <1>6, <1>7, RiseMoves

LEMMA RiseAcknowledges ==
  ASSUME Inv, FInv, BInv, TypeOK', Rise
  PROVE  Acknowledges'
<1> USE DEF Inv, BInv
<1>1. IORQ_int' = IF MCycle = 1 /\ TState \in 1..2 THEN TState = 1 /\ IntCycle ELSE IORQ_int
  BY DEF Rise, RequestOnRise
<1>2. SUFFICES ASSUME IORQ_int' PROVE MCycle' = 1 /\ TState' \in 1..2 /\ IntCycle'
  BY DEF Acknowledges
<1>3. MCycle = 1 /\ TState = 1 /\ IntCycle
  BY <1>1, <1>2 DEF Acknowledges
<1>4. ~(TState >= 3) /\ TState + 1 = 2
  BY <1>3
<1>5. MCycle' = MCycle /\ (TState' = 1 \/ TState' = 2) /\ IntCycle' = IntCycle
  BY <1>3, <1>4, RiseMoves
<1> QED
  BY <1>3, <1>5

LEMMA RiseRefreshes ==
  ASSUME Inv, FInv, BInv, TypeOK', Rise
  PROVE  Refreshes'
<1> USE DEF Inv, BInv
<1>1. RFSH_n' = ~(MCycle = 1 /\ ((TState = 2 /\ Wait_s) \/ TState = 3)) /\ MREQ' = MREQ
  BY DEF Rise, Refresh, onFall
<1>2. SUFFICES ASSUME MCycle' = 1, TState' = 3 \/ (TState' = 4 /\ MREQ) PROVE ~RFSH_n'
  BY <1>1 DEF Refreshes
<1>3. MREQ => TState \in 1..3
  BY RiseSteps DEF FallState
<1>4. MCycle = 1 /\ ((TState = 2 /\ Wait_s) \/ TState = 3)
  BY <1>2, <1>3, RiseMoves DEF TypeOK
<1> QED
  BY <1>1, <1>4

\* A grant comes in the last T state, when the falling edge has put every strobe to rest.
LEMMA RiseAtRest ==
  ASSUME Inv, FInv, BInv, Rise
  PROVE  AtRest'
<1> USE DEF Inv, BInv
<1>1. SUFFICES ASSUME BusAck'
               PROVE  ~RD' /\ ~MREQ' /\ ~WR_t2' /\ IORQ_t1' /\ IORQ_t2' /\ ~IORQ_int'
  BY DEF AtRest
<1>2. /\ UNCHANGED << RD, MREQ, WR_t2, IORQ_t1 >> /\ IORQ_t2' = IORQ_t1
      /\ ~(MCycle = 1 /\ TState \in 1..2) => IORQ_int' = IORQ_int
  BY DEF Rise, onFall, RequestOnRise
<1>3. T_Res \/ Held
  <2>1. Sequencer(Wait_s)
    BY RiseSteps
  <2> QED
    BY <1>1, <2>1, SequencerStep DEF Advances, Enters
<1>4. TState = 0 \/ (TState >= 3 /\ (MCycle = 1 => TState >= 4))
  BY <1>3, Timing DEF Held, GrantedAtEnd, T_Res
<1>5. ~RD /\ ~MREQ /\ ~WR_t2 /\ IORQ_t1
  BY <1>4, RiseSteps DEF FallState
<1>6. ~IORQ_int
  BY <1>4 DEF Acknowledges
<1> QED
  BY <1>2, <1>4, <1>5, <1>6

LEMMA RiseWaited ==
  ASSUME Inv, FInv, BInv, TypeOK', Rise
  PROVE  WaitedInT1'
<1> USE DEF Inv, BInv
<1>1. Sequencer(Wait_s) /\ DataPath(Wait_s) /\ WaitStates
  BY RiseSteps
<1>2. SUFFICES ASSUME TState' >= 2, ~T_Res'
               PROVE  /\ Auto_Wait' => Auto_Wait_t1' /\ Auto_Wait_t2'
                      /\ On("IORQ")' => Auto_Wait_t1'
  BY DEF WaitedInT1
<1>3. (Stays \/ Advances) /\ UNCHANGED << MCycle, NMICycle, IntCycle >>
  <2>1. ~Enters
    BY <1>2 DEF Enters
  <2> QED
    BY <1>1, <2>1, SequencerStep DEF Stays, Advances
<1>4. ~T_Res
  <2>1. CASE Advances
    BY <2>1 DEF Advances
  <2>2. CASE Stays /\ KeepsOpcode
    BY <1>2, <1>3, <2>2, NowKept DEF Stays, T_Res
  <2>3. CASE Stays /\ (Fetches \/ ReadsLast \/ SwitchesPage)
    BY <1>2, <1>3, <2>3, Timing, TimingAfter DEF Stays, T_Res, Fetches, ReadsLast, SwitchesPage
  <2> QED
    BY <1>1, <1>3, <2>1, <2>2, <2>3, DecodeStep
<1>5. (On("IORQ")' <=> On("IORQ")) /\ (Auto_Wait' <=> Auto_Wait)
  BY <1>1, <1>3, RequestKept DEF Auto_Wait
<1>6. Auto_Wait => Auto_Wait_t1
  <2>1. CASE TState >= 2
    BY <1>4, <2>1 DEF WaitedInT1
  <2>2. CASE TState = 1
    <3>1. TState' = 2
      BY <1>2, <1>3, <2>2 DEF Stays, Advances
    <3>2. ~AutoWaiting
      BY <1>1, <2>2, <3>1, LeavesT1
    <3> QED
      BY <2>2, <3>2 DEF AutoWaiting, Auto_Wait, FInv, AckWaits
  <2>3. TState >= 1
    BY <1>2, <1>3 DEF Stays, Advances, TypeOK
  <2> QED
    BY <2>1, <2>2, <2>3 DEF TypeOK
<1> QED
  BY <1>1, <1>4, <1>5, <1>6 DEF WaitStates

\* While the core answers INT, the only fetch is that of the answer, and no displacement
\* comes in between.
LEMMA AnswerWithoutDisplacement ==
  ASSUME Inv, FInv, Answered, IntCycle
  PROVE  MCycle \notin 6..7 /\ (MCycle # 1 \/ TState >= 3 => ~NextIs_XY_Fetch)
<1>1. MCycle \notin 6..7
  BY DEF Answered, FInv, Displacing
<1> QED
  BY <1>1 DEF Answered, NextIs_XY_Fetch

LEMMA RiseAnswered ==
  ASSUME Inv, FInv, BInv, TypeOK', Rise
  PROVE  Answered'
<1> USE DEF Inv, BInv
<1>1. Sequencer(Wait_s) /\ DataPath(Wait_s)
  BY RiseSteps
<1>2. SUFFICES ASSUME IntCycle', MCycle' # 1 \/ TState' >= 3
               PROVE  IR' \in IntAckOps \cup {"NOP", "RST"} /\ ISet' = 0 /\ ~XY_State'
  BY DEF Answered
<1>3. IntCycle
  <2>1. EndInstruction => MCycle' = 1 /\ TState' = 1
    BY DEF EndInstruction, EnterCycle
  <2>2. ~EndInstruction
    BY <1>2, <2>1
  <2> QED
    BY <1>1, <1>2, <2>2, SequencerStep
    DEF Stays, Advances, FetchDisplacement, ResumeAfterDisplacement, NextMachineCycle
<1>4. MCycle \notin 6..7
  BY <1>3, AnswerWithoutDisplacement
<1>5. CASE MCycle = 1 /\ TState = 2 /\ Wait_s
  <2>1. FetchOpcode
    <3>1. ~BusAck
      BY <1>5, Timing DEF GrantedAtEnd, T_Res
    <3> QED
      BY <1>1, <1>5, <3>1 DEF DataPath, ClkEn
  <2>2. Prefix = 0
    BY <1>3 DEF NoPrefixPending
  <2>3. IR' \in OpcodeRead
    BY <2>1 DEF FetchOpcode
  <2>4. IR' \in IntAckOps \cup {"NOP", "RST"}
    BY <1>3, <2>3 DEF OpcodeRead
  <2>5. ISet' = 0
    BY <2>1, <2>2 DEF FetchOpcode
  <2>6. ~XY_State'
    <3>1. XY_State' = (Prefix = 3)
      BY <2>1, <2>2 DEF FetchOpcode
    <3>2. XY_State' <=> Prefix = 3
      BY <3>1, Zenon
    <3> QED
      BY <2>2, <3>2
  <2> QED
    BY <2>4, <2>5, <2>6
<1>6. CASE MCycle # 1 \/ TState >= 3
  <2>1. KeepsOpcode
    <3>1. ~Fetches /\ ~ReadsLast /\ ~SwitchesPage
      BY <1>4, <1>6 DEF Fetches, ReadsLast, SwitchesPage
    <3> QED
      BY <1>1, <3>1, DecodeStep
  <2> QED
    BY <1>3, <1>6, <2>1 DEF Answered, KeepsOpcode
<1>7. ASSUME MCycle = 1, TState < 3, ~(TState = 2 /\ Wait_s) PROVE FALSE
  <2>1. TState \in 0..2
    BY <1>7 DEF TypeOK
  <2>2. MCycle' = 1 /\ TState' \in 0..2
    BY <1>7, <2>1, RiseMoves
  <2> QED
    BY <1>2, <2>2
<1> QED
  BY <1>5, <1>6, <1>7 DEF TypeOK

LEMMA RiseAskedFor ==
  ASSUME Inv, FInv, BInv, TypeOK', Rise
  PROVE  AskedFor'
<1> USE DEF Inv, BInv
<1>1. Sequencer(Wait_s) /\ DataPath(Wait_s)
  BY RiseSteps
<1>2. SUFFICES ASSUME MCycle' \in 6..7, ISet' # 1, IR' \notin {"CB", "LDHLn"}
               PROVE  "aXY" \in ROMCycle(IR', ISet', Pre_XY_F_M', cc', NMICycle', IntCycle',
                                         XY_State').out
  BY DEF AskedFor
<1>3. CASE FetchDisplacement
  <2>1. /\ CycleEnds /\ T_Res /\ NextIs_XY_Fetch /\ ~XY_Ind
        /\ UNCHANGED << NMICycle, IntCycle >>
    BY <1>3 DEF FetchDisplacement, NextIs_XY_Fetch, EnterCycle, CycleEnds
  <2>2. MCycle <= 5
    BY <2>1, Timing DEF T_Res, DisplacementMarked, TypeOK
  <2>3. KeepsOpcode
    BY <1>1, <2>1, <2>2, EndMarks
  <2>4. Pre_XY_F_M' = MCycle /\ On("aXY")
    BY <1>2, <1>3, <2>1, <2>3 DEF FetchDisplacement, NextIs_XY_Fetch, KeepsOpcode
  <2> QED
    BY <2>1, <2>3, <2>4 DEF KeepsOpcode, On, now
<1>4. CASE ~FetchDisplacement
  <2>1. MCycle \in 6..7 /\ UNCHANGED << Pre_XY_F_M, NMICycle, IntCycle >>
    <3>1. CASE Stays \/ Advances
      BY <1>2, <3>1 DEF Stays, Advances
    <3>2. CASE NextMachineCycle
      <4>1. /\ CycleEnds /\ ~NextIs_XY_Fetch /\ ~Completes /\ MCycle' = MCycle + 1
            /\ UNCHANGED << Pre_XY_F_M, NMICycle, IntCycle >>
        BY <3>2 DEF NextMachineCycle, EnterCycle
      <4>2. ~(MCycle <= 5)
        <5> SUFFICES ASSUME MCycle <= 5 PROVE FALSE
          OBVIOUS
        <5>1. MCycle <= 4
          BY <4>1, GoesOn
        <5> QED
          BY <1>2, <4>1, <5>1 DEF TypeOK
      <4> QED
        BY <4>1, <4>2 DEF TypeOK
    <3>3. ~ResumeAfterDisplacement
      <4> SUFFICES ASSUME ResumeAfterDisplacement PROVE FALSE
        OBVIOUS
      <4>1. MCycle = 7 /\ MCycle' = Pre_XY_F_M + 1 /\ Pre_XY_F_M \in 0..5
        BY DEF ResumeAfterDisplacement, EnterCycle, TypeOK
      <4>2. Prefix # 1 /\ Count(Pre_XY_F_M + 1) > Pre_XY_F_M
        BY <4>1, Timing DEF FInv, Displacing
      <4>3. Count(Pre_XY_F_M + 1) \in 1..5
        BY <4>1, Counting
      <4> QED
        BY <1>2, <4>1, <4>2, <4>3
    <3>4. ~EndInstruction
      BY <1>2 DEF EndInstruction, EnterCycle
    <3> QED
      BY <1>1, <1>4, <3>1, <3>2, <3>3, <3>4, SequencerStep
  <2>2. KeepsOpcode
    BY <1>1, <1>2, <2>1, DecodeStep DEF Fetches, ReadsLast, SwitchesPage
  <2> QED
    BY <1>2, <2>1, <2>2 DEF AskedFor, KeepsOpcode
<1> QED
  BY <1>3, <1>4

LEMMA RiseLatched ==
  ASSUME Inv, FInv, BInv, TypeOK', AskedFor, Rise
  PROVE  Latched'
<1> USE DEF Inv, BInv
<1>1. Sequencer(Wait_s) /\ DataPath(Wait_s) /\ low /\ ~low'
      /\ UNCHANGED << DI_Reg, DI_Reg_dido >> /\ MCycle \in 1..7 /\ TState \in 0..6
  BY RiseSteps DEF onFall, TypeOK
<1>2. ASSUME MCycle' # 1, Reads', TState' > 3 \/ (TState' = 3 /\ BusAck')
      PROVE  DI_Reg = MCycle' /\ DI_Reg_dido = MCycle'
  <2>1. MCycle' = MCycle /\ TState >= 3 /\ (Stays \/ Advances)
    BY <1>1, <1>2, RiseMoves
  <2>2. Reads
    BY <1>1, <1>2, <2>1, AccessKept
  <2> QED
    BY <1>1, <1>2, <2>1, <2>2 DEF Latched
<1>3. ASSUME On("JumpE")', TState' \in 1..2
      PROVE  DI_Reg = MCycle' - 1 /\ DI_Reg_dido = MCycle' - 1
  <2>1. ISet' = 0 /\ IR' \notin {"CB", "LDHLn"} /\ MCycle' \in 3..5
    BY <1>3, StrobesAfter
  <2>2. CASE Stays \/ Advances
    <3>1. MCycle' = MCycle /\ TState \in 0..2
      BY <1>1, <1>3, <2>2 DEF Stays, Advances
    <3>2. TState # 0
      BY <2>1, <3>1 DEF FInv, AckWaits
    <3>3. On("JumpE")
      BY <1>1, <1>3, <2>2, RequestKept
    <3> QED
      BY <1>1, <3>1, <3>2, <3>3 DEF Latched
  <2>3. CASE NextMachineCycle
    <3>1. /\ CycleEnds /\ MCycle' = MCycle + 1 /\ UNCHANGED << NMICycle, IntCycle >>
          /\ MCycle \in 2..4
      BY <1>1, <2>1, <2>3 DEF NextMachineCycle, EnterCycle
    <3>2. KeepsOpcode
      BY <1>1, <3>1, EndMarks
    <3>3. {"NoRead", "Write", "IORQ", "aXY"} \cap now.out = {}
      <4>1. Strobed(IR', ISet', cc', NMICycle', IntCycle', XY_State')
        BY StrobesAfter
      <4>2. MCycle' \in 1..7 /\ MCycle' - 1 = MCycle
        BY <3>1
      <4>3. "JumpE" \in ROMCycle(IR', ISet', MCycle', cc', NMICycle', IntCycle', XY_State').out
        BY <1>3 DEF On, now
      <4>4. {"NoRead", "Write", "IORQ", "aXY"} \cap
              ROMCycle(IR', ISet', MCycle' - 1, cc', NMICycle', IntCycle', XY_State').out = {}
        BY <4>1, <4>2, <4>3 DEF Strobed
      <4> QED
        BY <3>1, <3>2, <4>2, <4>4 DEF KeepsOpcode, now
    <3>4. Reads /\ TState >= 3
      <4>1. T_Res
        BY <3>1 DEF CycleEnds
      <4> QED
        BY <3>1, <3>3, <4>1, Timing DEF Reads, Write, On, T_Res
    <3> QED
      BY <1>1, <3>1, <3>4 DEF Latched
  <2>4. ~ResumeAfterDisplacement
    <3> SUFFICES ASSUME ResumeAfterDisplacement PROVE FALSE
      OBVIOUS
    <3>1. /\ MCycle = 7 /\ MCycle' = Pre_XY_F_M + 1 /\ Pre_XY_F_M \in 0..5
          /\ UNCHANGED << NMICycle, IntCycle >>
      BY DEF ResumeAfterDisplacement, EnterCycle, TypeOK
    <3>2. KeepsOpcode
      BY <1>1, <2>1, <3>1, DecodeStep DEF Fetches, ReadsLast, SwitchesPage
    <3>3. "aXY" \in ROMCycle(IR, ISet, Pre_XY_F_M, cc, NMICycle, IntCycle, XY_State).out
      BY <2>1, <3>1, <3>2 DEF AskedFor, KeepsOpcode
    <3>4. Strobed(IR', ISet', cc', NMICycle', IntCycle', XY_State')
      BY StrobesAfter
    <3>5. "JumpE" \in ROMCycle(IR', ISet', MCycle', cc', NMICycle', IntCycle', XY_State').out
      BY <1>3 DEF On, now
    <3>6. "aXY" \notin
            ROMCycle(IR', ISet', MCycle' - 1, cc', NMICycle', IntCycle', XY_State').out
      <4>1. MCycle' \in 1..7
        BY <2>1
      <4> QED
        BY <3>4, <3>5, <4>1 DEF Strobed
    <3>7. MCycle' - 1 = Pre_XY_F_M
      BY <3>1
    <3> QED
      BY <3>1, <3>2, <3>3, <3>6, <3>7 DEF KeepsOpcode
  <2>5. ~FetchDisplacement /\ ~EndInstruction
    BY <2>1 DEF FetchDisplacement, EndInstruction, EnterCycle
  <2> QED
    BY <1>1, <2>2, <2>3, <2>4, <2>5, SequencerStep
<1>4. TState' \in 0..6
  BY DEF TypeOK
<1> QED
  BY <1>1, <1>2, <1>3, <1>4 DEF Latched

LEMMA RiseNotRound ==
  ASSUME Inv, FInv, BInv, TypeOK', Rise
  PROVE  NotRound'
<1> SUFFICES ASSUME MCycle' = 1, TState' >= 2 PROVE ~No_BTR'
  BY DEF NotRound
<1>1. TypeOK
  BY DEF Inv
<1>2. MCycle = 1
  <2>1. ~(TState' = 1)
    OBVIOUS
  <2> QED
    BY <2>1, RiseMoves
<1>3. ~On("I_BT")
  BY <1>1, <1>2, Strobes
<1> QED
  BY <1>3, RiseSteps DEF WaitStates

\* An answer does not end in its first machine cycle.
LEMMA AnswerGoesOn ==
  ASSUME Inv, FInv, BInv, IntCycle, Completes
  PROVE  MCycle # 1
<1> SUFFICES ASSUME MCycle = 1 PROVE FALSE
  OBVIOUS
<1>a. TypeOK /\ CountKnown /\ Answered /\ NotRound
  BY DEF Inv, BInv
<1>1. T_Res /\ TState >= 4 /\ TState >= 3 /\ TState >= 2
  BY <1>a, Timing DEF Completes, CycleEnds, T_Res
<1>2. MCycles = ROMCount(IR, ISet, 1, cc, NMICycle, IntCycle, XY_State)
  BY <1>a, <1>1 DEF CountKnown
<1>3. MCycles > 1
  BY <1>a, <1>1, <1>2, AnswerIsCall
<1>4. ~No_BTR
  BY <1>a, <1>1 DEF NotRound
<1> QED
  BY <1>3, <1>4 DEF Completes

LEMMA RiseInhibit ==
  ASSUME Inv, FInv, BInv, TypeOK', Rise
  PROVE  InhibitCounts' /\ InhibitReady'
<1>a. Inv /\ Acknowledges /\ InhibitCounts /\ InhibitReady /\ Answered /\ WaitedInT1 /\ TypeOK
  BY DEF Inv, BInv
<1>1. /\ Sequencer(Wait_s) /\ WaitStates /\ low /\ ~low'
      /\ IORQ_int_inhibit' = IORQ_int_inhibit
      /\ IORQ_int' = IF MCycle = 1 /\ TState \in 1..2 THEN TState = 1 /\ IntCycle ELSE IORQ_int
  BY RiseSteps DEF onFall, RequestOnRise
<1>2. ASSUME EndInstruction PROVE IORQ_int_inhibit = 3
  <2>1. IntCycle => MCycle # 1
    BY <1>2, AnswerGoesOn DEF EndInstruction
  <2> QED
    BY <1>a, <1>1, <2>1 DEF InhibitReady
<1>3. EndInstruction \/ IntCycle' = IntCycle
  BY <1>1, SequencerStep
  DEF Stays, Advances, FetchDisplacement, ResumeAfterDisplacement, NextMachineCycle
<1>4. ASSUME IntCycle', MCycle' = 1, TState' = 1
      PROVE  /\ IORQ_int' <=> Auto_Wait_t1'
             /\ IORQ_int_inhibit =
                  3 - (IF Auto_Wait_t2' THEN 2 ELSE IF Auto_Wait_t1' THEN 1 ELSE 0)
  <2>1. CASE Enters
    <3>1. EndInstruction
      <4>1. ~ResumeAfterDisplacement
        <5> SUFFICES ASSUME ResumeAfterDisplacement PROVE FALSE
          OBVIOUS
        <5>1. IntCycle /\ MCycle = 7
          BY <1>4 DEF ResumeAfterDisplacement
        <5> QED
          BY <1>a, <5>1, AnswerWithoutDisplacement
      <4>2. ~NextMachineCycle /\ ~FetchDisplacement
        <5>1. MCycle \in 1..7 /\ MCycle' = 1
          BY <1>a, <1>4 DEF TypeOK
        <5>2. NextMachineCycle => MCycle' = MCycle + 1
          BY DEF NextMachineCycle, EnterCycle
        <5>3. FetchDisplacement => MCycle' = 6
          BY DEF FetchDisplacement, EnterCycle
        <5> QED
          BY <5>1, <5>2, <5>3
      <4>3. ~Stays /\ ~Advances
        BY <1>a, <2>1, Timing DEF Enters, CycleEnds, T_Res, Stays, Advances
      <4> QED
        BY <1>1, <4>1, <4>2, <4>3, SequencerStep
    <3>2. T_Res /\ TState >= 3
      BY <1>a, <2>1, Timing DEF Enters, CycleEnds, T_Res
    <3>3. ~Auto_Wait_t1' /\ ~Auto_Wait_t2'
      BY <1>1, <3>2 DEF WaitStates
    <3>4. ~IORQ_int'
      <4>1. ~(TState \in 1..2)
        BY <3>2
      <4> QED
        BY <1>a, <1>1, <4>1 DEF Acknowledges
    <3> QED
      BY <1>2, <3>1, <3>3, <3>4
  <2>2. CASE Stays /\ TState = 1
    <3>1. MCycle = 1 /\ IntCycle /\ ~T_Res
      BY <1>a, <1>4, <2>2, Timing DEF Stays, T_Res
    <3>2. ~Auto_Wait_t2
      <4>1. ~StretchT2(Wait_s) /\ ~NextTState(Wait_s)
        BY <1>a, <2>2 DEF StretchT2, NextTState, Waiting, Stays, TypeOK
      <4>2. ~HoldForBus /\ ~GrantBus
        BY <2>2, <3>1 DEF HoldForBus, GrantBus, Held, GrantedAtEnd, Inv
      <4>3. StretchT1(Wait_s)
        BY <1>1, <3>1, <4>1, <4>2
        DEF Sequencer, FetchDisplacement, ResumeAfterDisplacement, EndInstruction,
            NextMachineCycle, EnterCycle, CycleEnds
      <4>4. ~On("IORQ")
        BY <1>a, <3>1, Strobes
      <4> QED
        BY <4>3, <4>4 DEF StretchT1, AutoWaiting
    <3>3. /\ IORQ_int <=> Auto_Wait_t1
          /\ IORQ_int_inhibit = 2 - (IF Auto_Wait_t1 THEN 1 ELSE 0)
      BY <1>a, <1>1, <2>2, <3>1, <3>2 DEF InhibitCounts
    <3>4. Auto_Wait_t1' /\ (Auto_Wait_t2' <=> Auto_Wait_t1)
      BY <1>1, <3>1 DEF WaitStates, Auto_Wait
    <3>5. IORQ_int'
      <4>1. TState \in 1..2
        BY <2>2
      <4>2. IORQ_int' = (TState = 1 /\ IntCycle)
        BY <1>1, <3>1, <4>1
      <4>3. IORQ_int' <=> TState = 1 /\ IntCycle
        BY <4>2, Zenon
      <4> QED
        BY <2>2, <3>1, <4>3
    <3> QED
      BY <3>3, <3>4, <3>5
  <2>3. CASE Advances
    <3>1. TState = 0 /\ MCycle = 1
      BY <1>a, <1>4, <2>3 DEF Advances, TypeOK
    <3>2. ~IntCycle
      BY <3>1 DEF FInv, AckWaits
    <3> QED
      BY <1>4, <2>3, <3>2 DEF Advances
  <2> QED
    BY <1>1, <1>4, <2>1, <2>2, <2>3, SequencerStep DEF Stays
<1>5. InhibitCounts'
  BY <1>1, <1>4 DEF InhibitCounts
<1>6. ASSUME ~IntCycle' \/ (MCycle' # 1 /\ (MCycle' = 2 => TState' >= 2))
      PROVE  IORQ_int_inhibit = 3
  <2>1. CASE ~EndInstruction /\ IntCycle
    <3>1. MCycle # 1
      <4> SUFFICES ASSUME MCycle = 1 PROVE FALSE
        OBVIOUS
      <4>1. IntCycle' = IntCycle
        BY <1>3, <2>1
      <4>2. CASE Stays \/ Advances
        BY <1>6, <2>1, <4>1, <4>2 DEF Stays, Advances
      <4>3. CASE NextMachineCycle
        BY <1>6, <2>1, <4>1, <4>3 DEF NextMachineCycle, EnterCycle
      <4>4. CASE FetchDisplacement
        <5>1. T_Res /\ TState >= 3
          BY <1>a, <4>4, Timing DEF FetchDisplacement, EnterCycle, CycleEnds, T_Res
        <5> QED
          BY <1>a, <2>1, <4>4, <5>1, AnswerWithoutDisplacement DEF FetchDisplacement
      <4>5. ~ResumeAfterDisplacement
        BY DEF ResumeAfterDisplacement
      <4> QED
        BY <1>1, <2>1, <4>2, <4>3, <4>4, <4>5, SequencerStep
    <3> QED
      BY <1>a, <1>1, <3>1 DEF InhibitReady
  <2>2. CASE ~IntCycle
    BY <1>a, <2>2 DEF InhibitReady
  <2> QED
    BY <1>2, <2>1, <2>2
<1>7. InhibitReady'
  BY <1>1, <1>6 DEF InhibitReady
<1> QED
  BY <1>5, <1>7

LEMMA RiseStep ==
  ASSUME Inv, FInv, BInv, TypeOK', Rise
  PROVE  BInv'
<1>1. TypeOKBus' /\ FallState' /\ RiseState' /\ Requested'
  BY RiseTypes, RiseStrobes
<1>2. Acknowledges' /\ Refreshes' /\ AtRest' /\ WaitedInT1'
  BY RiseAcknowledges, RiseRefreshes, RiseAtRest, RiseWaited
<1>3. Answered' /\ AskedFor' /\ NotRound' /\ Latched'
  BY RiseAnswered, RiseAskedFor, RiseNotRound, RiseLatched DEF BInv
<1>4. InhibitCounts' /\ InhibitReady'
  BY RiseInhibit
<1> QED
  BY <1>1, <1>2, <1>3, <1>4 DEF BInv
-------------------------------------------------------------------------------
(***************************************************************************)
(* The invariant of the wrapper.                                            *)
(***************************************************************************)
LEMMA BusReset ==
  ASSUME Inv, BInv, TypeOK', ResetAll
  PROVE  BInv'
<1>1. /\ ~low' /\ Req_Inhibit' /\ ~IORQ_int' /\ IORQ_t2' /\ RFSH_n'
      /\ ~WR_t2' /\ MReq_Inhibit' /\ ~RD' /\ ~MREQ' /\ IORQ_int_inhibit' = 3 /\ IORQ_t1'
      /\ MCycle' = 1 /\ TState' = 0 /\ ~IntCycle' /\ ~No_BTR'
      /\ UNCHANGED << Wait_s, DI_Reg, DI_Reg_dido, Write_half_delayed >>
  BY DEF ResetAll, Reset
<1>2. TypeOKBus'
  <2>1. /\ Wait_s' \in BOOLEAN /\ Write_half_delayed' \in BOOLEAN
        /\ DI_Reg' \in 0..7 /\ DI_Reg_dido' \in 0..7
    BY <1>1 DEF BInv, TypeOKBus
  <2>2. /\ low' \in BOOLEAN /\ WR_t2' \in BOOLEAN /\ MReq_Inhibit' \in BOOLEAN
        /\ RD' \in BOOLEAN /\ MREQ' \in BOOLEAN /\ IORQ_t1' \in BOOLEAN
        /\ IORQ_t2' \in BOOLEAN /\ IORQ_int' \in BOOLEAN /\ Req_Inhibit' \in BOOLEAN
        /\ RFSH_n' \in BOOLEAN
    BY ZenonT(30) DEF ResetAll
  <2>3. IORQ_int_inhibit' \in 0..3
    BY <1>1
  <2> QED
    BY <2>1, <2>2, <2>3 DEF TypeOKBus
<1>3. FallState' /\ RiseState' /\ Requested'
  BY <1>1 DEF FallState, RiseState, Requested
<1>4. Acknowledges' /\ Refreshes' /\ AtRest' /\ WaitedInT1' /\ Answered' /\ AskedFor' /\ NotRound'
  BY <1>1 DEF Acknowledges, Refreshes, AtRest, WaitedInT1, Answered, AskedFor, NotRound
<1>5. Latched' /\ InhibitCounts' /\ InhibitReady'
  BY <1>1 DEF Latched, InhibitCounts, InhibitReady
<1> QED
  BY <1>2, <1>3, <1>4, <1>5 DEF BInv

LEMMA BusInit == InitBus => BInv
<1> SUFFICES ASSUME InitBus PROVE BInv
  OBVIOUS
<1>1. /\ ~low /\ Req_Inhibit /\ ~IORQ_int /\ IORQ_t2 /\ RFSH_n
      /\ ~WR_t2 /\ MReq_Inhibit /\ ~RD /\ ~MREQ /\ IORQ_int_inhibit = 3 /\ IORQ_t1
      /\ MCycle = 1 /\ TState = 0 /\ ~IntCycle /\ ~No_BTR /\ DI_Reg = 0 /\ DI_Reg_dido = 0
  BY DEF InitBus, Init
<1>2. TypeOKBus
  <2>1. /\ low \in BOOLEAN /\ WR_t2 \in BOOLEAN /\ MReq_Inhibit \in BOOLEAN
        /\ RD \in BOOLEAN /\ MREQ \in BOOLEAN /\ IORQ_t1 \in BOOLEAN
        /\ IORQ_t2 \in BOOLEAN /\ IORQ_int \in BOOLEAN /\ Req_Inhibit \in BOOLEAN
        /\ RFSH_n \in BOOLEAN /\ Wait_s \in BOOLEAN /\ Write_half_delayed \in BOOLEAN
    BY ZenonT(30) DEF InitBus
  <2>2. IORQ_int_inhibit \in 0..3 /\ DI_Reg \in 0..7 /\ DI_Reg_dido \in 0..7
    BY <1>1
  <2> QED
    BY <2>1, <2>2 DEF TypeOKBus
<1>3. FallState /\ RiseState /\ Requested
  BY <1>1 DEF FallState, RiseState, Requested
<1>4. Acknowledges /\ Refreshes /\ AtRest /\ WaitedInT1 /\ Answered /\ AskedFor /\ NotRound
  BY <1>1 DEF Acknowledges, Refreshes, AtRest, WaitedInT1, Answered, AskedFor, NotRound
<1>5. Latched /\ InhibitCounts /\ InhibitReady
  BY <1>1 DEF Latched, InhibitCounts, InhibitReady
<1> QED
  BY <1>2, <1>3, <1>4, <1>5 DEF BInv

LEMMA BusStep ==
  ASSUME Inv, FInv, BInv, TypeOK', [NextBus]_busVars
  PROVE  BInv'
<1>1. ASSUME NEW wait_n \in WaitInputs, Fall(wait_n) PROVE BInv'
  <2>1. wait_n \in BOOLEAN
    BY DEF WaitInputs
  <2> QED
    BY <1>1, <2>1, FallStep
<1>2. CASE Rise
  BY <1>2, RiseStep
<1>3. CASE ResetAll
  BY <1>3, BusReset
<1>4. CASE UNCHANGED busVars
  <2>1. UNCHANGED << vars, low, onFall, onRise >>
    BY <1>4 DEF busVars
  <2>2. TypeOKBus'
    BY <2>1 DEF BInv, TypeOKBus, onFall, onRise
  <2>3. FallState' /\ RiseState' /\ Requested'
    BY <2>1, CoreStill DEF BInv, FallState, RiseState, Requested, onFall, onRise
  <2>4. Acknowledges' /\ Refreshes' /\ AtRest' /\ WaitedInT1' /\ Answered' /\ AskedFor' /\ NotRound'
    BY <2>1, CoreStill DEF BInv, Acknowledges, Refreshes, AtRest, onFall, onRise
  <2>5. Latched' /\ InhibitCounts' /\ InhibitReady'
    BY <2>1, CoreStill DEF BInv, Latched, InhibitCounts, InhibitReady, onFall, onRise
  <2> QED
    BY <2>2, <2>3, <2>4, <2>5 DEF BInv
<1> QED
  BY <1>1, <1>2, <1>3, <1>4 DEF NextBus

\* Every reachable state of the wrapper satisfies the invariants of the core and BInv.
THEOREM BusInvariance == SpecBus => [](Inv /\ FInv /\ BInv)
<1>1. InitBus => BInv
  BY BusInit
<1>2. Inv => TypeOK
  BY DEF Inv
<1>3. Inv /\ FInv /\ BInv /\ TypeOK' /\ [NextBus]_busVars => BInv'
  BY BusStep
<1> QED
  BY BusRunsCore, Invariance, FetchInvariance, <1>1, <1>2, <1>3, PTL DEF SpecBus
-------------------------------------------------------------------------------
(***************************************************************************)
(* What the invariant says of the pins.                                     *)
(***************************************************************************)
LEMMA Selections ==
  ASSUME Inv, FInv, BInv
  PROVE  /\ MREQ => ~On("IORQ") /\ ~IORQ_int
         /\ RD => ~Write
         /\ MREQ /\ ~Write => RD \/ ~RFSH_n
<1> USE DEF Inv, BInv
<1>1. MCycle \in 1..7 /\ TState \in 0..6 /\ low \in BOOLEAN
  BY DEF TypeOK, TypeOKBus
<1>2. MCycle = 1 => ~On("IORQ") /\ ~Write
  BY Strobes DEF Write
<1>3. MREQ => (TState \in 1..3 /\ AddressesMemory) \/ (MCycle = 1 /\ TState \in 3..4)
  BY <1>1 DEF FallState, RiseState
<1>4. RD => Reads
  BY <1>1 DEF FallState, RiseState
<1>5. MREQ => ~On("IORQ")
  BY <1>2, <1>3 DEF AddressesMemory
<1>6. MREQ => ~IORQ_int
  <2> SUFFICES ASSUME MREQ, IORQ_int PROVE FALSE
    OBVIOUS
  <2>1. MCycle = 1 /\ TState \in 1..2 /\ IntCycle
    BY DEF Acknowledges
  <2>2. ~(TState \in 3..4) /\ ~AddressesMemory
    BY <2>1 DEF AddressesMemory
  <2> QED
    BY <1>3, <2>2
<1>7. RD => ~Write
  BY <1>2, <1>4 DEF Reads
<1>8. ASSUME MREQ, ~Write, low PROVE RD \/ ~RFSH_n
  <2>1. (TState \in 1..2 /\ AddressesMemory) \/ (MCycle = 1 /\ TState = 3)
    BY <1>8 DEF FallState
  <2>2. AddressesMemory => Reads
    BY <1>8 DEF AddressesMemory, Reads
  <2> QED
    BY <1>8, <2>1, <2>2 DEF FallState, Refreshes
<1>9. ASSUME MREQ, ~Write, ~low PROVE RD \/ ~RFSH_n
  <2>1. RD \/ (MCycle = 1 /\ TState \in 3..4)
    BY <1>9 DEF RiseState
  <2> QED
    BY <1>9, <2>1 DEF Refreshes
<1> QED
  BY <1>1, <1>5, <1>6, <1>7, <1>8, <1>9

LEMMA GrantIsQuiet ==
  ASSUME BInv, BusAck
  PROVE  ~MREQ_rw /\ ~IORQ_rw /\ MREQ_n_i /\ IORQ_n_i /\ RD_n_i /\ WR_n_i
BY DEF BInv, AtRest, MREQ_rw, IORQ_rw, MREQ_n_i, IORQ_n_i, RD_n_i, WR_n_i

\* While WR_n is low the byte is driven; at the low half of a clock the cycle is in T1, after
\* its first automatic wait state, or in T2.
LEMMA Writes ==
  ASSUME Inv, FInv, BInv, ~WR_n_i
  PROVE  /\ Write /\ Write_half_delayed /\ ~BusAck
         /\ low => /\ TState \in 1..2 /\ ~T_Res
                   /\ TState = 1 => Auto_Wait_t1
<1> USE DEF Inv, BInv
<1>1. Write /\ (WR_t2 \/ IORQ_rw) /\ ~BusAck
  BY GrantIsQuiet DEF WR_n_i
<1>2. IORQ_rw => On("IORQ") /\ ~IORQ_t1 /\ ~IORQ_t2
  BY DEF IORQ_rw
<1>3. Write_half_delayed
  <2>1. CASE low
    BY <1>1, <2>1 DEF FallState
  <2>2. CASE ~low
    BY <1>1, <1>2, <2>2 DEF RiseState
  <2> QED
    BY <2>1, <2>2
<1>4. ASSUME low PROVE TState \in 1..2 /\ (TState = 1 => Auto_Wait_t1)
  <2>1. CASE WR_t2
    <3>1. TState = 2
      BY <1>4, <2>1 DEF FallState
    <3> QED
      BY <3>1
  <2>2. CASE IORQ_rw
    <3>1. TState \in 1..2
      BY <1>2, <1>4, <2>2 DEF FallState
    <3>2. TState = 1 => Auto_Wait_t1
      BY <1>2, <1>4, <2>2 DEF FallState
    <3> QED
      BY <3>1, <3>2
  <2> QED
    BY <1>1, <2>1, <2>2
<1>5. TState \in 1..2 => ~T_Res
  BY Timing DEF T_Res
<1> QED
  BY <1>1, <1>3, <1>4, <1>5

LEMMA PinsHold ==
  ASSUME Inv, FInv, BInv
  PROVE  OneTransfer /\ QuietGrant /\ WriteDataValid
<1>1. MREQ_n_i \/ IORQ_n_i
  BY Selections DEF MREQ_n_i, IORQ_n_i, MREQ_rw, IORQ_rw
<1>2. RD_n_i \/ WR_n_i
  BY Selections DEF RD_n_i, WR_n_i
<1>3. ~MREQ_n_i => ~RD_n_i \/ Write \/ ~RFSH_n
  BY Selections DEF MREQ_n_i, RD_n_i, MREQ_rw
<1>4. QuietGrant
  BY GrantIsQuiet DEF QuietGrant
<1>5. WriteDataValid
  <2> SUFFICES ASSUME ~WR_n_i PROVE ~DO_EN_n /\ ~(low /\ DataOutChanges)
    BY DEF WriteDataValid
  <2>1. ~DO_EN_n
    BY Writes DEF DO_EN_n, BUSAK_n_i
  <2>2. ~(low /\ DataOutChanges)
    BY Writes DEF DataOutChanges
  <2> QED
    BY <2>1, <2>2
<1> QED
  BY <1>1, <1>2, <1>3, <1>4, <1>5 DEF OneTransfer

LEMMA ReadsHold ==
  ASSUME Inv, FInv, BInv
  PROVE  OpcodeFromMemory /\ ByteRead /\ AcknowledgeTiming
<1> USE DEF Inv, BInv
<1>1. OpcodeFromMemory
  <2> SUFFICES ASSUME low, TState = 2, (ISet = 1 /\ MCycle = 7) \/ (MCycle = 1 /\ ~IntCycle)
               PROVE  ~RD_n_i /\ ~MREQ_n_i
    BY DEF OpcodeFromMemory
  <2>1. Reads /\ AddressesMemory
    BY Strobes DEF Reads, AddressesMemory, Write
  <2>2. RD /\ MREQ /\ Req_Inhibit
    BY <2>1 DEF FallState
  <2> QED
    BY <2>2 DEF RD_n_i, MREQ_n_i, MREQ_rw
<1>2. ByteRead
  <2> SUFFICES ASSUME NEW byte \in {DI_Reg, DI_Reg_dido}, low
               PROVE  /\ T_Res /\ MCycle # 1 /\ ~On("NoRead") /\ ~Write => byte = MCycle
                      /\ On("JumpE") /\ TState \in 1..2 => byte = MCycle - 1
    BY DEF ByteRead
  <2>1. T_Res => TState = 3 \/ TState > 3
    BY Timing DEF T_Res
  <2> QED
    BY <2>1 DEF Latched, Reads
<1>3. AcknowledgeTiming
  <2> SUFFICES ASSUME IntCycle, MCycle = 1, TState = 1, low
               PROVE  ~IORQ_n_i <=> Auto_Wait_t2
    BY DEF AcknowledgeTiming
  <2>1. ~IORQ_rw
    BY Strobes DEF IORQ_rw
  <2>2. /\ IORQ_int <=> Auto_Wait_t1
        /\ IORQ_int_inhibit = 2 - (IF Auto_Wait_t2 THEN 2 ELSE IF Auto_Wait_t1 THEN 1 ELSE 0)
    BY DEF InhibitCounts
  <2>3. Auto_Wait_t2 => Auto_Wait_t1
    BY DEF FInv, AckWaits
  <2>4. Auto_Wait_t2 => IORQ_int_inhibit = 0
    BY <2>2
  <2>5. ~Auto_Wait_t2 => IORQ_int_inhibit # 0
    BY <2>2
  <2> QED
    BY <2>1, <2>2, <2>3, <2>4, <2>5 DEF IORQ_n_i
<1> QED
  BY <1>1, <1>2, <1>3

LEMMA DataHeldStep ==
  ASSUME Inv, FInv, BInv, TypeOK', [NextBus]_busVars, ~WR_n_i, WR_n_i', TState' # 0
  PROVE  ~DO_EN_n'
<1>1. Write /\ Write_half_delayed /\ ~BusAck
  BY Writes
<1>2. ASSUME NEW wait_n \in WaitInputs, Fall(wait_n) PROVE ~DO_EN_n'
  <2>1. UNCHANGED vars /\ (Write_half_delayed' <=> Write)
    BY <1>2 DEF Fall, WriteStrobe
  <2> QED
    BY <1>1, <2>1, CoreStill DEF DO_EN_n, BUSAK_n_i
<1>3. ASSUME Rise PROVE ~DO_EN_n'
  <2>1. /\ Sequencer(Wait_s) /\ DataPath(Wait_s) /\ low
        /\ Write_half_delayed' = Write_half_delayed
    BY <1>3, RiseSteps DEF onFall
  <2>2. ~T_Res /\ ~Held
    BY <1>1, <2>1, Writes DEF Held
  <2>3. (Stays \/ Advances) /\ ~BusAck'
    BY <2>1, <2>2, SequencerStep DEF Enters, Advances, CycleEnds
  <2>4. Write' <=> Write
    BY <2>1, <2>3, AccessKept
  <2> QED
    BY <1>1, <2>1, <2>3, <2>4 DEF DO_EN_n, BUSAK_n_i
<1>4. ~ResetAll
  BY DEF ResetAll, Reset
<1>5. ~UNCHANGED busVars
  <2> SUFFICES ASSUME UNCHANGED busVars PROVE FALSE
    OBVIOUS
  <2>1. UNCHANGED vars /\ UNCHANGED << WR_t2, MREQ, Req_Inhibit, MReq_Inhibit, IORQ_t1, IORQ_t2 >>
    BY DEF busVars, onFall, onRise
  <2>2. (Write' <=> Write) /\ (On("IORQ")' <=> On("IORQ"))
    BY <2>1, CoreStill
  <2> QED
    BY <2>1, <2>2 DEF WR_n_i, MREQ_rw, IORQ_rw
<1> QED
  BY <1>2, <1>3, <1>4, <1>5 DEF NextBus

\* The address moves on a rising edge only, at the end of a machine cycle or, for the
\* refresh, at the end of T2 of an opcode fetch.
LEMMA AddressMoves ==
  ASSUME TypeOK, NEW wait_n, DataPath(wait_n), A' # A
  PROVE  (MCycle = 1 /\ TState = 2 /\ wait_n) \/ (T_Res /\ (MCycle = 1 => TState >= 4))
<1>1. CASE MCycle = 1 /\ TState < 4
  BY <1>1 DEF DataPath, datapath
<1>2. CASE ~(MCycle = 1 /\ TState < 4)
  <2>1. MCycle = 1 => TState >= 4
    BY <1>2 DEF TypeOK
  <2>2. T_Res
    BY <1>2 DEF DataPath, datapath, MidCycle
  <2> QED
    BY <2>1, <2>2
<1> QED
  BY <1>1, <1>2

LEMMA RiseMovesAddress ==
  ASSUME Inv, FInv, BInv, TypeOK', Rise, A' # A
  PROVE  (MREQ_n_i \/ MREQ_n_i') /\ (IORQ_n_i \/ IORQ_n_i')
<1> USE DEF Inv, BInv
<1>1. low /\ DataPath(Wait_s)
  BY RiseSteps
<1>2. CASE MCycle = 1 /\ TState = 2 /\ Wait_s
  <2>1. ~Req_Inhibit' /\ ~MReq_Inhibit' /\ ~IORQ_int'
    <3>1. ~MReq_Inhibit
      BY <1>1, <1>2 DEF FallState
    <3>2. MReq_Inhibit' = MReq_Inhibit /\ Req_Inhibit' = MReq_Inhibit
      BY DEF Rise, RequestOnRise, onFall
    <3>3. IORQ_int' = (TState = 1 /\ IntCycle)
      BY <1>2 DEF Rise, RequestOnRise
    <3>4. TState # 1
      BY <1>2
    <3>5. ~IORQ_int'
      BY <3>3, <3>4, Zenon
    <3> QED
      BY <3>1, <3>2, <3>5
  <2>2. MCycle' = 1
    BY <1>2, RiseMoves
  <2>3. ~On("IORQ")'
    BY <2>2, StrobesAfter
  <2> QED
    BY <2>1, <2>3 DEF MREQ_n_i, MREQ_rw, IORQ_n_i, IORQ_rw
<1>3. CASE T_Res /\ (MCycle = 1 => TState >= 4)
  <2>1. ~(TState \in 1..2) /\ ~(MCycle = 1 /\ TState = 3)
    BY <1>3, Timing DEF T_Res
  <2>2. ~MREQ /\ IORQ_t1 /\ ~IORQ_int
    BY <1>1, <2>1 DEF FallState, Acknowledges
  <2> QED
    BY <2>2 DEF MREQ_n_i, MREQ_rw, IORQ_n_i, IORQ_rw
<1> QED
  BY <1>1, <1>2, <1>3, AddressMoves DEF Inv

LEMMA AddressStableStep ==
  ASSUME Inv, FInv, BInv, TypeOK', [NextBus]_busVars, A' # A
  PROVE  (MREQ_n_i \/ MREQ_n_i') /\ (IORQ_n_i \/ IORQ_n_i')
<1>1. ASSUME NEW wait_n \in WaitInputs, Fall(wait_n) PROVE FALSE
  BY <1>1, CoreStill DEF Fall
<1>2. CASE Rise
  BY <1>2, RiseMovesAddress
<1>3. CASE ResetAll
  BY <1>3 DEF ResetAll, MREQ_n_i, MREQ_rw, IORQ_n_i, IORQ_rw
<1>4. CASE UNCHANGED busVars
  BY <1>4, CoreStill DEF busVars
<1> QED
  BY <1>1, <1>2, <1>3, <1>4 DEF NextBus
-------------------------------------------------------------------------------
(***************************************************************************)
(* Theorems                                                                 *)
(***************************************************************************)
\* Every flip-flop of the wrapper holds what it can hold (T80a.vhd:97-141).
THEOREM BusTypeCorrect == SpecBus => []TypeOKBus
<1>1. BInv => TypeOKBus
  BY DEF BInv
<1> QED
  BY <1>1, BusInvariance, PTL

\* Memory and devices are never selected together, reads and writes never overlap, and what
\* selects memory is a read, a write or a refresh (T80a.vhd:146-151).
THEOREM TransfersAreExclusive == SpecBus => []OneTransfer
<1>1. Inv /\ FInv /\ BInv => OneTransfer
  BY PinsHold
<1> QED
  BY <1>1, BusInvariance, PTL

\* The bus is granted with every strobe inactive (T80a.vhd:153-159).
THEOREM GrantsAreQuiet == SpecBus => []QuietGrant
<1>1. Inv /\ FInv /\ BInv => QuietGrant
  BY PinsHold
<1> QED
  BY <1>1, BusInvariance, PTL

\* The byte is driven, and stable, while WR_n is low (T80a.vhd:151, 159).
THEOREM WritesAreValid == SpecBus => []WriteDataValid
<1>1. Inv /\ FInv /\ BInv => WriteDataValid
  BY PinsHold
<1> QED
  BY <1>1, BusInvariance, PTL

\* No opcode is latched but from an active memory read (T80.vhd:575-590, 774-776;
\* T80a.vhd:211-257).
THEOREM OpcodesAreRead == SpecBus => []OpcodeFromMemory
<1>1. Inv /\ FInv /\ BInv => OpcodeFromMemory
  BY ReadsHold
<1> QED
  BY <1>1, BusInvariance, PTL

\* The core finds the byte of its machine cycle in the data latch, of either wrapper, also
\* after a grant (T80a.vhd:201-209, 514-522).
THEOREM BytesAreRead == SpecBus => []ByteRead
<1>1. Inv /\ FInv /\ BInv => ByteRead
  BY ReadsHold
<1> QED
  BY <1>1, BusInvariance, PTL

\* IORQ_n acknowledges INT in the third clock of T1, each time anew (T80a.vhd:291-322).
THEOREM AcknowledgesInTime == SpecBus => []AcknowledgeTiming
<1>1. Inv /\ FInv /\ BInv => AcknowledgeTiming
  BY ReadsHold
<1> QED
  BY <1>1, BusInvariance, PTL

\* The byte outlasts WR_n (T80a.vhd:159, 211-233).
THEOREM BytesAreHeld == SpecBus => DataHeld
<1>1. Inv /\ FInv /\ BInv /\ TypeOK' /\ [NextBus]_busVars
        => [ ~WR_n_i /\ WR_n_i' /\ TState' # 0 => ~DO_EN_n' ]_busVars
  BY DataHeldStep
<1>2. Inv => TypeOK
  BY DEF Inv
<1> QED
  BY <1>1, <1>2, BusInvariance, PTL DEF SpecBus, DataHeld

\* The address does not move under a strobe (T80a.vhd:146-147, 235-257).
THEOREM AddressIsStable == SpecBus => AddressStable
<1>1. Inv /\ FInv /\ BInv /\ TypeOK' /\ [NextBus]_busVars
        => [ (~MREQ_n_i /\ ~MREQ_n_i') \/ (~IORQ_n_i /\ ~IORQ_n_i') => A' = A ]_busVars
  BY AddressStableStep
<1>2. Inv => TypeOK
  BY DEF Inv
<1> QED
  BY <1>1, <1>2, BusInvariance, PTL DEF SpecBus, AddressStable
===============================================================================
