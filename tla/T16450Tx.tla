------------------------------- MODULE T16450Tx -------------------------------
(***************************************************************************)
(* The transmitter of the T16450 UART (T16450.vhd): the holding register,   *)
(* the bit tick and the transmit state machine.                             *)
(***************************************************************************)
EXTENDS T16450Line, FiniteSets

CONSTANTS
  WordsOf(_),   \* the words of a length that the processor sends
  NoWord        \* nothing written on this clock

ASSUME WordsAssumption ==
  \A n \in 5..8 : WordsOf(n) \subseteq [1..n -> Bit] /\ NoWord \notin WordsOf(n)

VARIABLES
  THR, THRE, TEMT,                       \* LSR(5) and LSR(6)
  TX_Tick, TX_Cnt,
  TX_Bit_Cnt, TX_ShiftReg, TX_Parity, TXD,
  TX_Next_Is_Stop, TX_Stop_Bit,
  since                                  \* history: RClk enables since TX_Tick was last high

txState == << THR, THRE, TEMT, TX_Bit_Cnt, TX_ShiftReg, TX_Parity, TXD,
              TX_Next_Is_Stop, TX_Stop_Bit >>
txVars == << txState, TX_Tick, TX_Cnt, since >>
-------------------------------------------------------------------------------
InitTx ==
  /\ THR = << >> /\ THRE = TRUE /\ TEMT = TRUE
  /\ TX_Tick = FALSE /\ TX_Cnt = 0 /\ since = 0
  /\ TX_Bit_Cnt = 0 /\ TX_ShiftReg = << >> /\ TX_Parity = 0 /\ TXD = 1
  /\ TX_Next_Is_Stop = FALSE /\ TX_Stop_Bit = FALSE

\* Mutant: the counter is not turned back after a long stop bit.
BitTickNotTurned ==
  LET n == (TX_Cnt + 1) % 32
      last == IF LCR.wls = 5 THEN 23 ELSE 31
  IN IF ~BaudOut THEN TX_Tick' = FALSE /\ TX_Cnt' = TX_Cnt
     ELSE IF LCR.stb /\ TX_Stop_Bit THEN TX_Tick' = (n = last) /\ TX_Cnt' = n
     ELSE TX_Tick' = (n % 16 = 15) /\ TX_Cnt' = 16 + (n % 16)

\* The tick that ends a bit: every 16 enables, or later in a long stop bit.
BitTick ==
  LET n == (TX_Cnt + 1) % 32
      last == IF LCR.wls = 5 THEN 23 ELSE 31
  IN IF ~BaudOut THEN TX_Tick' = FALSE /\ TX_Cnt' = TX_Cnt
     ELSE IF LCR.stb /\ TX_Stop_Bit
     THEN TX_Tick' = (n = last) /\ TX_Cnt' = (IF n = last THEN 16 ELSE n)
     ELSE TX_Tick' = (n % 16 = 15) /\ TX_Cnt' = 16 + (n % 16)

\* A write to THR on the same clock has the last word on THRE and TEMT.
Status(written, thre, temt) ==
  /\ THRE' = (thre /\ written = NoWord)
  /\ TEMT' = (temt /\ written = NoWord)
  /\ THR' = IF written = NoWord THEN THR ELSE written

Idle(written) ==
  /\ TX_Bit_Cnt = 0
  /\ TX_Bit_Cnt' = IF THRE THEN 0 ELSE 1
  /\ TXD' = 1
  /\ TX_Next_Is_Stop' = FALSE
  /\ Status(written, THRE, TEMT)
  /\ UNCHANGED << TX_ShiftReg, TX_Parity >>

\* Mutant: the holding register is not declared empty when its word is taken.
StartBitKeepsTHR(written) ==
  /\ TX_Bit_Cnt = 1
  /\ TX_ShiftReg' = THR
  /\ TXD' = 0
  /\ TX_Parity' = 1 - LCR.eps
  /\ TX_Bit_Cnt' = 2
  /\ TX_Next_Is_Stop' = FALSE
  /\ Status(written, THRE, TEMT)

StartBit(written) ==
  /\ TX_Bit_Cnt = 1
  /\ TX_ShiftReg' = THR
  /\ TXD' = 0
  /\ TX_Parity' = 1 - LCR.eps
  /\ TX_Bit_Cnt' = 2
  /\ TX_Next_Is_Stop' = FALSE
  /\ Status(written, TRUE, TEMT)

\* Mutant: the parity bit follows the word one bit too soon.
DataBitShort(written) ==
  LET last == TX_Bit_Cnt = LCR.wls + (IF LCR.pen THEN 0 ELSE 1)
  IN /\ TX_Bit_Cnt \in 2..9
     /\ TX_Bit_Cnt' = IF ~last THEN TX_Bit_Cnt + 1 ELSE IF LCR.pen THEN 10 ELSE 0
     /\ TX_Next_Is_Stop' = (last /\ ~LCR.pen)
     /\ TXD' = Head(TX_ShiftReg)
     /\ TX_ShiftReg' = Tail(TX_ShiftReg)
     /\ TX_Parity' = (TX_Parity + Head(TX_ShiftReg)) % 2
     /\ Status(written, THRE, TEMT \/ last)

DataBit(written) ==
  LET last == TX_Bit_Cnt = LCR.wls + 1
  IN /\ TX_Bit_Cnt \in 2..9
     /\ TX_Bit_Cnt' = IF ~last THEN TX_Bit_Cnt + 1 ELSE IF LCR.pen THEN 10 ELSE 0
     /\ TX_Next_Is_Stop' = (last /\ ~LCR.pen)
     /\ TXD' = Head(TX_ShiftReg)
     /\ TX_ShiftReg' = Tail(TX_ShiftReg)
     /\ TX_Parity' = (TX_Parity + Head(TX_ShiftReg)) % 2
     /\ Status(written, THRE, TEMT \/ last)

ParityBit(written) ==
  /\ TX_Bit_Cnt = 10
  /\ TXD' = IF LCR.sp THEN 1 - LCR.eps ELSE TX_Parity
  /\ TX_Bit_Cnt' = 0
  /\ TX_Next_Is_Stop' = TRUE
  /\ Status(written, THRE, TEMT)
  /\ UNCHANGED << TX_ShiftReg, TX_Parity >>

Transmit(written) ==
  \/ /\ ~TX_Tick
     /\ Status(written, THRE, TEMT)
     /\ UNCHANGED << TX_Bit_Cnt, TX_ShiftReg, TX_Parity, TXD, TX_Next_Is_Stop, TX_Stop_Bit >>
  \/ /\ TX_Tick
     /\ TX_Stop_Bit' = TX_Next_Is_Stop
     /\ \/ Idle(written) \/ StartBit(written) \/ DataBit(written) \/ ParityBit(written)

TxClock(written) ==
  /\ BitTick
  /\ Transmit(written)
  /\ since' = (IF TX_Tick THEN 0 ELSE since) + (IF BaudOut THEN 1 ELSE 0)

\* The processor writes THR only after it has read THRE in LSR; nothing but its own writes
\* clears THRE, so the answer cannot be out of date (sim/test.c:55-59).
Writes == {NoWord} \cup IF THRE THEN WordsOf(LCR.wls) ELSE {}

-------------------------------------------------------------------------------
\* The registers keep to their widths; the shift register holds the bits still to come.
TypeOKTx ==
  /\ Baud_Cnt \in 0..Divisor /\ TX_Cnt \in 0..31 /\ TX_Bit_Cnt \in 0..10 /\ since \in 0..32
  /\ THRE \in BOOLEAN /\ TEMT \in BOOLEAN /\ TX_Tick \in BOOLEAN
  /\ TXD \in Bit /\ TX_Parity \in Bit
  /\ TX_Next_Is_Stop \in BOOLEAN /\ TX_Stop_Bit \in BOOLEAN
  /\ Len(TX_ShiftReg) = IF TX_Bit_Cnt \in 2..9 THEN LCR.wls + 2 - TX_Bit_Cnt ELSE 0

StopTime == IF ~LCR.stb THEN 16 ELSE IF LCR.wls = 5 THEN 24 ELSE 32

\* A bit lasts 16 enables of RClk, and the stop bit 1, 1.5 or 2 bits as LCR asks; the bit
\* after a long stop bit may be one enable short (T16450.vhd:366-397).
BitTiming == TX_Tick => since \in IF TX_Stop_Bit THEN {StopTime} ELSE {15, 16}

\* The transmitter is a serial sender.
bitsToCome ==
  CASE TX_Bit_Cnt = 0 -> IF TX_Next_Is_Stop THEN << 1 >> ELSE << >>
    [] TX_Bit_Cnt = 1 -> << >>
    [] TX_Bit_Cnt = 10 -> << IF LCR.sp THEN 1 - LCR.eps ELSE TX_Parity, 1 >>
    [] OTHER ->
         LET ones == Cardinality({ i \in DOMAIN TX_ShiftReg : TX_ShiftReg[i] = 1 })
             parity == IF LCR.sp THEN 1 - LCR.eps ELSE (TX_Parity + ones) % 2
         IN TX_ShiftReg \o (IF LCR.pen THEN << parity >> ELSE << >>) \o << 1 >>

Sender == INSTANCE SerialSender WITH
  Empty <- NoWord, format <- LCR,
  holding <- IF THRE THEN NoWord ELSE THR, sending <- bitsToCome, wire <- TXD

\* Every word written goes out once, in order and well framed, and does go out.
ImplementsSender == Sender!FairSpec
===============================================================================
