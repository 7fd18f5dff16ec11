--------------------------------- MODULE T80a ---------------------------------
(***************************************************************************)
(* The asynchronous wrappers of the core, T80a and T80a_dido (T80a.vhd):    *)
(* flip-flops on both edges of CLK_n that turn the T states of the core     *)
(* into the strobes MREQ_n, IORQ_n, RD_n, WR_n and RFSH_n of a Z80.         *)
(*                                                                          *)
(* A step is a falling edge, a rising edge (on which the core steps too) or *)
(* a reset.  A byte on D is known by the machine cycle it was read in.      *)
(* The two wrappers differ in what loads their DI_Reg, and in nothing else  *)
(* that is modelled; the module carries both latches, side by side.         *)
(***************************************************************************)
EXTENDS T80

\* What the wrappers rely on in the microcode: an opcode fetch and a displacement are plain
\* reads of memory, no block instruction repeats in its first cycle, and a relative jump
\* comes right after the cycle that has read its operand.
Strobed(ir, iset, c, n, i, x) ==
  LET out(mc) == ROMCycle(ir, iset, mc, c, n, i, x).out
  IN /\ "IORQ" \notin out(1) /\ "Write" \notin out(1) /\ "I_BT" \notin out(1)
     /\ "IORQ" \notin out(6) /\ "Write" \notin out(6) /\ "NoRead" \notin out(6)
     /\ "IORQ" \notin out(7) /\ "Write" \notin out(7) /\ (iset = 1 => "NoRead" \notin out(7))
     /\ \A mc \in 1..7 : "JumpE" \in out(mc) =>
          /\ iset = 0 /\ ir \notin {"CB", "LDHLn"} /\ mc \in 3..5
          /\ {"NoRead", "Write", "IORQ", "aXY"} \cap out(mc - 1) = {}

ASSUME StrobeAssumption ==
  \A ir \in AllOpcodes, iset \in 0..2, c, n, i, x \in BOOLEAN :
    Decodes(ir, iset) => Strobed(ir, iset, c, n, i, x)

\* An answer to INT is a call: it has machine cycles after the first, in which the wrapper
\* prepares for the next acknowledge, and none of them is for a device.
ASSUME AnswerAssumption ==
  \A ir \in IntAckOps \cup {"NOP", "RST"}, mc \in 1..7, c, x \in BOOLEAN :
    /\ ROMCount(ir, 0, 1, c, FALSE, TRUE, x) > 1
    /\ "IORQ" \notin ROMCycle(ir, 0, mc, c, FALSE, TRUE, x).out

VARIABLES
  low,                         \* CLK_n is low: the last edge was a falling one
  DI_Reg, DI_Reg_dido,         \* the data latch of T80a and of T80a_dido
  Wait_s, Write_half_delayed, WR_t2, MReq_Inhibit, RD, MREQ,
  IORQ_int_inhibit, IORQ_t1,                      \* clocked by the falling edge
  Req_Inhibit, IORQ_int, IORQ_t2, RFSH_n          \* clocked by the rising edge

onFall == << Wait_s, DI_Reg, DI_Reg_dido, Write_half_delayed, WR_t2, MReq_Inhibit, RD, MREQ,
             IORQ_int_inhibit, IORQ_t1 >>
onRise == << Req_Inhibit, IORQ_int, IORQ_t2, RFSH_n >>
busVars == << vars, low, onFall, onRise >>
-------------------------------------------------------------------------------
\* The pins.
BUSAK_n_i == ~BusAck
Write == On("Write")
MREQ_rw == MREQ /\ (Req_Inhibit \/ MReq_Inhibit)
IORQ_rw == On("IORQ") /\ ~(IORQ_t1 \/ IORQ_t2)
MREQ_n_i == ~MREQ_rw
\* IORQ_int_inhibit is a shift register of ones: here, how many it still holds.
IORQ_n_i == ~((IORQ_int /\ IORQ_int_inhibit = 0) \/ IORQ_rw)
RD_n_i == ~(RD /\ (MREQ_rw \/ IORQ_rw))
WR_n_i == ~(Write /\ ((WR_t2 /\ MREQ_rw) \/ IORQ_rw))
\* Mutant: the byte is driven no longer than the strobe lasts.
DriveUnderStrobe == WR_n_i

DO_EN_n == ~(Write /\ Write_half_delayed /\ BUSAK_n_i)
-------------------------------------------------------------------------------
\* What the falling edge of T3 finds on D.
DataIn == IF RD_n_i THEN 0 ELSE MCycle

\* Mutant: the latches go on sampling while another device has the bus.
SampleDataInGrant ==
  /\ DI_Reg' = IF TState = 3 THEN DataIn ELSE DI_Reg
  /\ DI_Reg_dido' = IF TState = 3 /\ ~RD_n_i THEN DataIn ELSE DI_Reg_dido

\* T80a_dido samples reads only.
SampleData ==
  /\ DI_Reg' = IF TState = 3 /\ BUSAK_n_i THEN DataIn ELSE DI_Reg
  /\ DI_Reg_dido' = IF TState = 3 /\ BUSAK_n_i /\ ~RD_n_i THEN DataIn ELSE DI_Reg_dido

WriteStrobe ==
  /\ Write_half_delayed' = Write
  /\ WR_t2' = IF TState = 3 THEN FALSE
              ELSE IF MCycle # 1 /\ TState = 2 THEN Write ELSE WR_t2

\* Mutant: MREQ_n rises after the first clock of T2, wait state or not.
InhibitDespiteWait(wait_n) == MReq_Inhibit' = ~(MCycle = 1 /\ TState = 2)

\* Mutant: MREQ_n stays low from the read of the opcode to the refresh.
InhibitNever(wait_n) == MReq_Inhibit' = TRUE

Inhibit(wait_n) == MReq_Inhibit' = ~(MCycle = 1 /\ TState = 2 /\ wait_n)

\* Mutant: the memory strobes of a read are not withdrawn in T3.
RequestsKept ==
  IF MCycle = 1
  THEN /\ RD' = IF TState = 1 THEN ~IntCycle ELSE RD /\ TState # 3
       /\ MREQ' = IF TState = 1 THEN ~IntCycle ELSE TState = 3 \/ (MREQ /\ TState # 4)
  ELSE /\ RD' = IF TState = 1 /\ ~On("NoRead") THEN ~Write ELSE RD
       /\ MREQ' = IF TState = 1 /\ ~On("NoRead") THEN ~On("IORQ") ELSE MREQ

Requests ==
  IF MCycle = 1
  THEN /\ RD' = IF TState = 1 THEN ~IntCycle ELSE RD /\ TState # 3
       /\ MREQ' = IF TState = 1 THEN ~IntCycle ELSE TState = 3 \/ (MREQ /\ TState # 4)
  ELSE /\ RD' = IF TState = 1 /\ ~On("NoRead") THEN ~Write ELSE RD /\ TState # 3
       /\ MREQ' = IF TState = 1 /\ ~On("NoRead") THEN ~On("IORQ") ELSE MREQ /\ TState # 3

\* Mutant: the inhibition of IORQ_n is not set up again for the next acknowledge.
RequestIONotRearmed ==
  /\ IORQ_t1' = IF TState = 1 THEN IntCycle ELSE TState = 3 \/ IORQ_t1
  /\ IORQ_int_inhibit' = IF IntCycle /\ MCycle = 1 /\ IORQ_int_inhibit > 0
                         THEN IORQ_int_inhibit - 1 ELSE IORQ_int_inhibit

\* Mutant: the inhibition of IORQ_n is one clock too long.
RequestIOLate ==
  /\ IORQ_t1' = IF TState = 1 THEN IntCycle ELSE TState = 3 \/ IORQ_t1
  /\ IORQ_int_inhibit' =
       IF IntCycle /\ MCycle = 1 /\ IORQ_int_inhibit > 0 THEN IORQ_int_inhibit - 1
       ELSE IF IntCycle /\ MCycle = 2 THEN 4
       ELSE IORQ_int_inhibit

RequestIO ==
  /\ IORQ_t1' = IF TState = 1 THEN IntCycle ELSE TState = 3 \/ IORQ_t1
  /\ IORQ_int_inhibit' =
       IF IntCycle /\ MCycle = 1 /\ IORQ_int_inhibit > 0 THEN IORQ_int_inhibit - 1
       ELSE IF IntCycle /\ MCycle = 2 THEN 3
       ELSE IORQ_int_inhibit

\* Mutant: IORQ_n of an I/O cycle comes half a clock after T1 has begun.
RequestOnRiseEarly ==
  /\ Req_Inhibit' = MReq_Inhibit
  /\ IORQ_t2' = FALSE
  /\ IORQ_int' = IF MCycle = 1 /\ TState \in 1..2 THEN TState = 1 /\ IntCycle ELSE IORQ_int

RequestOnRise ==
  /\ Req_Inhibit' = MReq_Inhibit
  /\ IORQ_t2' = IORQ_t1
  /\ IORQ_int' = IF MCycle = 1 /\ TState \in 1..2 THEN TState = 1 /\ IntCycle ELSE IORQ_int

Refresh == RFSH_n' = ~(MCycle = 1 /\ ((TState = 2 /\ Wait_s) \/ TState = 3))
-------------------------------------------------------------------------------
Fall(wait_n) ==
  /\ ~low /\ low' = TRUE
  /\ Wait_s' = wait_n
  /\ SampleData
  /\ WriteStrobe
  /\ Inhibit(wait_n)
  /\ Requests
  /\ RequestIO
  /\ UNCHANGED << vars, onRise >>

Rise ==
  /\ low /\ low' = FALSE
  /\ Clock(Wait_s)
  /\ RequestOnRise
  /\ Refresh
  /\ UNCHANGED onFall

\* RESET_n may be low for less than a clock: Wait_s, DI_Reg and Write_half_delayed, which
\* have no reset, keep what they hold.  The core starts half a clock after a rising edge.
ResetAll ==
  /\ Reset
  /\ low' = FALSE
  /\ WR_t2' = FALSE /\ MReq_Inhibit' = TRUE /\ RD' = FALSE /\ MREQ' = FALSE
  /\ IORQ_int_inhibit' = 3 /\ IORQ_t1' = TRUE
  /\ Req_Inhibit' = TRUE /\ IORQ_int' = FALSE /\ IORQ_t2' = TRUE /\ RFSH_n' = TRUE
  /\ UNCHANGED << Wait_s, DI_Reg, DI_Reg_dido, Write_half_delayed >>

InitBus ==
  /\ Init
  /\ low = FALSE
  /\ Wait_s \in BOOLEAN /\ DI_Reg = 0 /\ DI_Reg_dido = 0 /\ Write_half_delayed \in BOOLEAN
  /\ WR_t2 = FALSE /\ MReq_Inhibit = TRUE /\ RD = FALSE /\ MREQ = FALSE
  /\ IORQ_int_inhibit = 3 /\ IORQ_t1 = TRUE
  /\ Req_Inhibit = TRUE /\ IORQ_int = FALSE /\ IORQ_t2 = TRUE /\ RFSH_n = TRUE

NextBus ==
  \/ \E wait_n \in WaitInputs : Fall(wait_n)
  \/ Rise
  \/ ResetAll

SpecBus == InitBus /\ [][NextBus]_busVars
-------------------------------------------------------------------------------
(***************************************************************************)
(* Properties                                                               *)
(***************************************************************************)
\* Every flip-flop of the wrapper is one bit, but for the two that are not.
TypeOKBus ==
  /\ low \in BOOLEAN /\ Wait_s \in BOOLEAN /\ Write_half_delayed \in BOOLEAN
  /\ WR_t2 \in BOOLEAN /\ MReq_Inhibit \in BOOLEAN /\ RD \in BOOLEAN /\ MREQ \in BOOLEAN
  /\ IORQ_t1 \in BOOLEAN /\ IORQ_t2 \in BOOLEAN /\ IORQ_int \in BOOLEAN
  /\ Req_Inhibit \in BOOLEAN /\ RFSH_n \in BOOLEAN
  /\ DI_Reg \in 0..7 /\ DI_Reg_dido \in 0..7 /\ IORQ_int_inhibit \in 0..3

\* Memory and devices are never selected together, reads and writes never overlap, and
\* every MREQ_n is a read, a write or a refresh (T80a.vhd:146-151, the strobe equations
\* over flip-flops of both clock edges).
OneTransfer ==
  /\ MREQ_n_i \/ IORQ_n_i
  /\ RD_n_i \/ WR_n_i
  /\ ~MREQ_n_i => ~RD_n_i \/ Write \/ ~RFSH_n

\* The bus is given away, and its drivers turned off, with every strobe already inactive:
\* no access is cut short by a grant (T80a.vhd:153-159).
QuietGrant == BusAck => MREQ_n_i /\ IORQ_n_i /\ RD_n_i /\ WR_n_i

\* While WR_n is low the byte is on the bus and DO is not about to change
\* (T80a.vhd:151, 159; T80.vhd:440-449).
DataOutChanges == T_Res \/ (TState = 1 /\ ~Auto_Wait_t1)
WriteDataValid == ~WR_n_i => ~DO_EN_n /\ ~(low /\ DataOutChanges)

\* The byte stays on the bus beyond the end of WR_n, except in a reset.
DataHeld == [][ ~WR_n_i /\ WR_n_i' /\ TState' # 0 => ~DO_EN_n' ]_busVars

\* The address does not move under a strobe: the refresh address, in particular, comes
\* between the end of the opcode read and the start of the refresh, however long WAIT_n
\* has stretched T2 (T80a.vhd:146-147, 235-257).
AddressStable ==
  [][ (~MREQ_n_i /\ ~MREQ_n_i') \/ (~IORQ_n_i /\ ~IORQ_n_i') => A' = A ]_busVars

\* An opcode is latched from an active memory read, wait states or not: that of an M1
\* cycle, and the last byte of a DD CB instruction (T80.vhd:575-590, 774-776).
OpcodeFromMemory ==
  low /\ TState = 2 /\ Wait_s /\ ClkEn /\ ((ISet = 1 /\ MCycle = 7) \/ (MCycle = 1 /\ ~IntCycle))
    => ~RD_n_i /\ ~MREQ_n_i

\* The core finds in DI_Reg, of either wrapper, the byte of the machine cycle it is in, and a
\* relative jump that of the cycle before, even if the bus was granted in between
\* (T80a.vhd:201-209, 514-522).
ByteRead ==
  \A byte \in {DI_Reg, DI_Reg_dido} :
    low =>
      /\ T_Res /\ MCycle # 1 /\ ~On("NoRead") /\ ~Write => byte = MCycle
      /\ On("JumpE") /\ TState \in 1..2 => byte = MCycle - 1

\* IORQ_n acknowledges INT in the last of the three clocks of T1 and not sooner, so that
\* daisy-chained devices have settled (T80a.vhd:291-322).
AcknowledgeTiming ==
  IntCycle /\ MCycle = 1 /\ TState = 1 /\ low => (~IORQ_n_i <=> Auto_Wait_t2)

\* The answer of a device to INT is latched while IORQ_n asks for it.  (T80.vhd:575-590;
\* it does not hold when WAIT_n stretches the acknowledge.)
AnswerUnderIORQ ==
  low /\ IntCycle /\ MCycle = 1 /\ TState = 2 /\ Wait_s /\ ClkEn => ~IORQ_n_i
===============================================================================
