------------------------------ MODULE T16450Line ------------------------------
(***************************************************************************)
(* What the transmitter and the receiver of the T16450 UART share           *)
(* (T16450.vhd): the format of a frame, and the generator of RClk.          *)
(*                                                                          *)
(* A step of the UART is a rising edge of XIn.  A word is the sequence of   *)
(* its bits, the least significant first, for that is the order of the      *)
(* line.  LCR and the divisor are programmed before the first word, as the  *)
(* driver does (sim/test.c), and stay.                                      *)
(***************************************************************************)
EXTENDS Integers, Sequences

CONSTANTS
  Divisor,   \* the divisor latch, DLM and DLL
  Formats    \* the frames the line can be programmed for

Bit == {0, 1}

ASSUME LineAssumption ==
  /\ Divisor \in Nat
  /\ \A f \in Formats :
       /\ f.wls \in 5..8                             \* word length, LCR(1 downto 0)
       /\ f.stb \in BOOLEAN /\ f.pen \in BOOLEAN     \* LCR(2): 2 stop bits; LCR(3): parity
       /\ f.eps \in Bit /\ f.sp \in BOOLEAN          \* LCR(4): even; LCR(5): stick parity

VARIABLES LCR, Baud_Cnt, BaudOut
lineVars == << LCR, Baud_Cnt, BaudOut >>

InitLine ==
  /\ LCR \in Formats
  /\ Baud_Cnt = 0 /\ BaudOut = FALSE

\* BaudOut, wired to RClk (soc_top.vhd), is high for one clock in every Divisor.
BaudGenerator ==
  /\ Baud_Cnt' = IF Baud_Cnt \in {0, 1} THEN Divisor ELSE Baud_Cnt - 1
  /\ BaudOut' = (Baud_Cnt \in {0, 1})
  /\ UNCHANGED LCR
===============================================================================
