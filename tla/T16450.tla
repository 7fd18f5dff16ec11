-------------------------------- MODULE T16450 --------------------------------
(***************************************************************************)
(* The whole T16450 UART in loopback (MCR(4) = '1', T16450.vhd): the        *)
(* receiver listens to the transmitter, on the same RClk, while one         *)
(* processor writes THR and reads LSR and RBR, one access at a time.  As in *)
(* soc_top.vhd, the strobes of an access are low at two rising edges of     *)
(* XIn, and the UART acts at both.                                          *)
(***************************************************************************)
EXTENDS T16450Tx, T16450Rx

VARIABLES
  held,      \* the access whose strobe has one more clock to go, or NoAccess
  inFlight   \* history: the words written that the receiver has not completed

uartVars == << lineVars, txVars, rxVars, held, inFlight >>

\* RXD with MCR(4) = '1' and no break asked for, LCR(6) = '0'.
RXD == TXD

NoAccess == [written |-> NoWord, readRBR |-> FALSE, readLSR |-> FALSE]

\* THR is written when LSR has said THRE, and RBR read when it has said DR (sim/test.c).
NewAccesses ==
  { NoAccess, [NoAccess EXCEPT !.readLSR = TRUE] }
  \cup { [NoAccess EXCEPT !.written = w] : w \in Writes }
  \cup IF DR THEN { [NoAccess EXCEPT !.readRBR = TRUE] } ELSE {}

Accesses == IF held = NoAccess THEN NewAccesses ELSE {held}

InitUART == InitLine /\ InitTx /\ InitRx /\ held = NoAccess /\ inFlight = << >>

UARTClock(access) ==
  /\ BaudGenerator
  /\ TxClock(access.written)
  /\ RxClock(RXD, access.readRBR, access.readLSR)
  /\ held' = IF held = NoAccess THEN access ELSE NoAccess
  /\ inFlight' = (IF FrameEnd THEN Tail(inFlight) ELSE inFlight)
                 \o (IF held # NoAccess \/ access.written = NoWord THEN << >>
                     ELSE << access.written >>)

NextUART == \E access \in Accesses : UARTClock(access)

SpecUART == InitUART /\ [][NextUART]_uartVars

\* XIn is a free running clock.
FairSpecUART == SpecUART /\ WF_uartVars(NextUART)
-------------------------------------------------------------------------------
\* Words arrive as they were written, in order, none twice and none out of nothing, and
\* without a frame error: the filter delay, the phase taken from the start bit and the
\* bit that is one enable short after a long stop bit leave the receiver inside each bit.
EchoIntact ==
  [][ /\ WordEnd => inFlight # << >> /\ RX_ShiftReg = Head(inFlight)
      /\ ~FE' /\ ~PE' /\ ~BI' ]_uartVars

\* The words in the UART are bounded by what its registers can hold: in THR, on the line,
\* and the one whose stop bit the receiver has still to see.
InFlightBound == Len(inFlight) <= 2 /\ (~THRE => inFlight # << >>)

\* As long as a word is in the UART, another frame will be completed.
EchoArrives == inFlight # << >> ~> FrameEnd
===============================================================================
