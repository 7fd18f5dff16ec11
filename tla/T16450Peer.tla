------------------------------ MODULE T16450Peer ------------------------------
(***************************************************************************)
(* The receiver of the T16450 on a line that another UART drives.  The peer *)
(* has a clock of its own: its frames begin at any phase, and the edges of  *)
(* their bits are off by up to what StartLengths allows.  There is noise on *)
(* the line while it is idle.                                               *)
(*                                                                          *)
(* The processor is the T80a_dido of soc_top.vhd.  It runs getchar: it      *)
(* polls LSR, and reads RBR when it has seen DR, as early or as late as it  *)
(* likes.  CS_n and Rd_n are low at two rising edges of XIn in each access, *)
(* at both of which the UART acts; the processor takes the byte after the   *)
(* second one.                                                              *)
(***************************************************************************)
EXTENDS T16450Rx, FiniteSets

CONSTANTS
  WordsOf(_),   \* the words of a length that the peer sends
  StartLengths, \* how long its start bits last, in enables of RClk
  GlitchMax     \* how long the line is low because of noise

ASSUME PeerAssumption ==
  /\ \A n \in 5..8 : WordsOf(n) \subseteq [1..n -> Bit]
  /\ StartLengths \subseteq Nat \ {0} /\ GlitchMax \in Nat

VARIABLES
  line, left, todo,   \* the bit on the line, how long it lasts, the bits to come
  frame,              \* the frame on the line: its word, and whether its parity is good
  held,               \* the register whose strobe has one more clock to go, or "none"
  ready,              \* the processor has seen DR, and not read RBR since
  heard,              \* how many times the receiver has completed that frame
  unread, due,        \* the word that DR announces; getchar has not returned it
  lost                \* a word was complete before getchar had returned the one before

peerVars == << line, left, todo, frame >>
cpuVars == << held, ready >>
history == << heard, unread, due, lost >>
allVars == << lineVars, rxVars, peerVars, cpuVars, history >>

Silence == [word |-> << >>, good |-> TRUE]
GoodParity(word) ==
  LET ones == Cardinality({ i \in DOMAIN word : word[i] = 1 })
  IN IF LCR.sp THEN 1 - LCR.eps ELSE (1 - LCR.eps + ones) % 2

\* The bits of a frame after its start bit.
Bits(f) ==
  f.word \o (IF LCR.pen THEN << IF f.good THEN GoodParity(f.word) ELSE 1 - GoodParity(f.word) >>
                        ELSE << >>) \o << 1 >>

Frames == [word : WordsOf(LCR.wls), good : IF LCR.pen THEN BOOLEAN ELSE {TRUE}]

HoldBit == left > 1 /\ left' = left - 1 /\ UNCHANGED << line, todo, frame >>

NextBit ==
  /\ left = 1 /\ todo # << >>
  /\ line' = Head(todo) /\ todo' = Tail(todo) /\ left' = 16
  /\ UNCHANGED frame

BeginFrame ==
  /\ left = 1 /\ todo = << >>
  /\ \E f \in Frames : frame' = f /\ todo' = Bits(f)
  /\ line' = 0 /\ left' \in StartLengths

Glitch ==
  /\ left = 1 /\ todo = << >> /\ GlitchMax > 0
  /\ frame' = Silence
  /\ line' = 0 /\ left' \in 1..GlitchMax /\ todo' = << 1 >>

StayIdle == left = 1 /\ todo = << >> /\ UNCHANGED peerVars

Peer ==
  IF ~BaudOut THEN UNCHANGED peerVars
  ELSE HoldBit \/ NextBit \/ BeginFrame \/ Glitch \/ StayIdle

\* getchar returns on the second clock of a read of RBR.
Returns == held = "RBR"

Processor(register) ==
  /\ register \in IF held # "none" THEN {held}
                  ELSE {"none", "LSR"} \cup IF ready THEN {"RBR"} ELSE {}
  /\ held' = IF held = "none" THEN register ELSE "none"
  /\ ready' = IF held = "LSR" THEN DR' ELSE ready /\ ~Returns

Record ==
  /\ heard' = IF BaudOut /\ left = 1 /\ todo = << >> /\ line' = 0 THEN 0
              ELSE heard + (IF FrameEnd THEN 1 ELSE 0)
  /\ unread' = IF FrameEnd THEN frame.word ELSE unread
  /\ due' = (FrameEnd \/ (due /\ ~Returns))
  /\ lost' = (lost \/ (WordEnd /\ due))

InitPeer ==
  /\ InitLine /\ InitRx
  /\ line = 1 /\ left = 1 /\ todo = << >> /\ frame = Silence
  /\ held = "none" /\ ready = FALSE
  /\ heard = 0 /\ unread = << >> /\ due = FALSE /\ lost = FALSE

NextPeer(register) ==
  /\ BaudGenerator
  /\ Peer
  /\ RxClock(line, register = "RBR", register = "LSR")
  /\ Processor(register)
  /\ Record

SpecPeer ==
  InitPeer /\ [][ \E register \in {"none", "LSR", "RBR"} : NextPeer(register) ]_allVars
-------------------------------------------------------------------------------
\* Each frame is received exactly once, by the time its stop bit is over, and noise too
\* short to be a start bit never is, whatever the phase and the skew of the two clocks
\* (T16450.vhd:247-364).
FramesHeard ==
  /\ frame = Silence => heard = 0 /\ RX_Bit_Cnt = 0
  /\ left = 1 /\ todo = << >> /\ frame # Silence => heard = 1

\* DR announces a word that is in RBR, intact, unless the next one has already replaced it
\* while its parity bit is on the line (T16450.vhd:310-340).
WordReady == DR => RBR = unread \/ RX_Bit_Cnt = 10

\* getchar returns every word once, and no other, as long as it is never a whole frame late,
\* although a read of RBR clears DR on its first clock and yields RBR on its second.  When it
\* is late, OE says so, unless an access is on the bus on the very clock of the loss
\* (soc_top.vhd:195-205, T16450.vhd:280-342, sim/test.c:61-64).
WordsReturned ==
  [][ /\ Returns /\ ~lost' => due /\ RBR' = unread
      /\ lost' /\ ~lost => OE' \/ held # "none" \/ held' = "LSR" ]_allVars

\* The frame errors that LSR reports are those of the line: no framing error and no break
\* when every stop bit is there, and no parity error of a good frame.
ErrorsOfTheLine ==
  [][ /\ ~FE' /\ ~BI'
      /\ FrameEnd => frame # Silence
      /\ WordEnd /\ LCR.pen /\ ~frame.good => PE'
      /\ PE' /\ ~PE => ~frame.good ]_allVars
===============================================================================
