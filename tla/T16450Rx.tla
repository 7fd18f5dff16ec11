------------------------------- MODULE T16450Rx -------------------------------
(***************************************************************************)
(* The receiver of the T16450 UART (T16450.vhd): the input filter, the      *)
(* receive state machine and the line status.  The registers hold the bits  *)
(* of a word of the length programmed, and not the zeros above them.        *)
(***************************************************************************)
EXTENDS T16450Line

VARIABLES
  Samples, RX_Filtered,
  Bit_Phase, Brk_Cnt, RX_Bit_Cnt, RX_ShiftReg, RX_Parity,
  RBR, DR, OE, PE, FE, BI                 \* RBR and LSR(0) to LSR(4)

rxVars == << Samples, RX_Filtered, Bit_Phase, Brk_Cnt, RX_Bit_Cnt, RX_ShiftReg, RX_Parity,
             RBR, DR, OE, PE, FE, BI >>
-------------------------------------------------------------------------------
\* Samples is shifted before it is looked at.
Filter(RXD) ==
  /\ Samples' = IF BaudOut THEN << RXD, Samples[1] >> ELSE Samples
  /\ RX_Filtered' = IF Samples'[1] = Samples'[2] THEN Samples'[1] ELSE RX_Filtered

\* Mutant: a start bit is believed as soon as it begins.
MidStartAtOnce == RX_Bit_Cnt = 0 /\ Bit_Phase = 1

\* Mutant: the middle of the start bit is looked for where the phase never gets.
MidStartLate == RX_Bit_Cnt = 0 /\ Bit_Phase = 8

\* The clock in the middle of the start bit, ...
MidStart == RX_Bit_Cnt = 0 /\ Bit_Phase = 7
\* ... in the middle of another bit, ...
MidBit == BaudOut /\ RX_Bit_Cnt # 0 /\ Bit_Phase = 15
\* ... the one that moves the word to RBR, and the one that completes the frame.
\* Mutant: the last bit of the word is taken for what follows it.
WordEndEarly == MidBit /\ RX_Bit_Cnt = LCR.wls

WordEnd == MidBit /\ RX_Bit_Cnt = LCR.wls + 1

\* Mutant: the parity bit is taken for the stop bit.
FrameEndAtParity == MidBit /\ RX_Bit_Cnt = LCR.wls + 1

FrameEnd == MidBit /\ RX_Bit_Cnt = IF LCR.pen THEN 10 ELSE LCR.wls + 1

ParityWrong ==
  IF LCR.sp THEN RX_Filtered = LCR.eps ELSE RX_Filtered # RX_Parity

Phase ==
  Bit_Phase' = IF ~BaudOut THEN Bit_Phase
               ELSE IF RX_Bit_Cnt = 0 /\ (RX_Filtered = 1 \/ Bit_Phase = 7) THEN 0
               ELSE (Bit_Phase + 1) % 16

BreakCount ==
  Brk_Cnt' = IF BaudOut /\ Bit_Phase = 15
             THEN IF RX_Filtered = 1 THEN 0 ELSE (Brk_Cnt + 1) % 16
             ELSE Brk_Cnt

BitCount ==
  /\ RX_Bit_Cnt' = IF BaudOut /\ MidStart THEN 1
                   ELSE IF FrameEnd THEN 0
                   ELSE IF WordEnd THEN 10
                   ELSE IF MidBit THEN RX_Bit_Cnt + 1
                   ELSE RX_Bit_Cnt
  /\ RX_Parity' = IF BaudOut /\ MidStart THEN 1 - LCR.eps
                  ELSE IF MidBit /\ RX_Bit_Cnt < LCR.wls + 1 THEN (RX_Parity + RX_Filtered) % 2
                  ELSE RX_Parity
  /\ RX_ShiftReg' = IF MidBit /\ RX_Bit_Cnt < LCR.wls + 1
                    THEN Append(Tail(RX_ShiftReg), RX_Filtered)
                    ELSE RX_ShiftReg

\* Mutant: reading RBR leaves DR as it is.
LineStatusKeepsDR(readRBR, readLSR) ==
  /\ DR' = (FrameEnd \/ DR)
  /\ FE' = IF FrameEnd THEN RX_Filtered = 0 ELSE FE /\ ~readLSR
  /\ OE' = (~readLSR /\ IF WordEnd THEN DR ELSE OE)
  /\ PE' = ((WordEnd /\ LCR.pen /\ ParityWrong) \/ (PE /\ ~readLSR))
  /\ BI' = ((BaudOut /\ Bit_Phase = 15 /\ Brk_Cnt = 12) \/ (BI /\ ~readLSR))

\* Reading RBR clears DR and reading LSR the rest, unless the same clock sets them; but a
\* read of LSR does away with an overrun of its own clock.
LineStatus(readRBR, readLSR) ==
  /\ DR' = (FrameEnd \/ (DR /\ ~readRBR))
  /\ FE' = IF FrameEnd THEN RX_Filtered = 0 ELSE FE /\ ~readLSR
  /\ OE' = (~readLSR /\ IF WordEnd THEN DR ELSE OE)
  /\ PE' = ((WordEnd /\ LCR.pen /\ ParityWrong) \/ (PE /\ ~readLSR))
  /\ BI' = ((BaudOut /\ Bit_Phase = 15 /\ Brk_Cnt = 12) \/ (BI /\ ~readLSR))

InitRx ==
  /\ Samples = << 1, 1 >> /\ RX_Filtered = 1
  /\ Bit_Phase = 0 /\ Brk_Cnt = 0 /\ RX_Bit_Cnt = 0 /\ RX_Parity = 0
  /\ RX_ShiftReg = [i \in 1..LCR.wls |-> 0] /\ RBR = [i \in 1..LCR.wls |-> 0]
  /\ DR = FALSE /\ OE = FALSE /\ PE = FALSE /\ FE = FALSE /\ BI = FALSE

RxClock(RXD, readRBR, readLSR) ==
  /\ Filter(RXD)
  /\ Phase
  /\ BreakCount
  /\ BitCount
  /\ LineStatus(readRBR, readLSR)
  /\ RBR' = IF WordEnd THEN RX_ShiftReg ELSE RBR

\* The registers keep to their widths, and RX_Bit_Cnt to the bits of the frame.
TypeOKRx ==
  /\ Samples \in Bit \X Bit /\ RX_Filtered \in Bit /\ RX_Parity \in Bit
  /\ Bit_Phase \in 0..15 /\ Brk_Cnt \in 0..15
  /\ RX_Bit_Cnt \in 0 .. LCR.wls + 1 \/ (RX_Bit_Cnt = 10 /\ LCR.pen)
  /\ RX_ShiftReg \in [1..LCR.wls -> Bit] /\ RBR \in [1..LCR.wls -> Bit]
  /\ DR \in BOOLEAN /\ OE \in BOOLEAN /\ PE \in BOOLEAN /\ FE \in BOOLEAN /\ BI \in BOOLEAN
===============================================================================
