----------------------------- MODULE SerialSender -----------------------------
(***************************************************************************)
(* What a serial transmitter promises: each word it accepts goes out once,  *)
(* in order, as a start bit, the bits of the word, a parity bit if asked    *)
(* for, and a stop bit.                                                     *)
(***************************************************************************)
EXTENDS Integers, Sequences, FiniteSets

CONSTANTS WordsOf(_), Empty
VARIABLES
  format,    \* of the frames: it does not change
  holding,   \* the word accepted and not yet started, or Empty
  sending,   \* the bits of the current frame that are still to come
  wire       \* the bit on the line

Ones(word) == Cardinality({ i \in DOMAIN word : word[i] = 1 })
ParityOf(word) ==
  IF format.sp THEN 1 - format.eps
  ELSE IF format.eps = 1 THEN Ones(word) % 2 ELSE 1 - (Ones(word) % 2)

Frame(word) == word \o (IF format.pen THEN << ParityOf(word) >> ELSE << >>) \o << 1 >>

Init == holding = Empty /\ sending = << >> /\ wire = 1

Accept == holding = Empty /\ holding' \in WordsOf(format.wls)

Start ==
  /\ sending = << >> /\ holding # Empty
  /\ wire' = 0 /\ sending' = Frame(holding) /\ holding' = Empty

Shift == sending # << >> /\ wire' = Head(sending) /\ sending' = Tail(sending)

Next == /\ UNCHANGED format
        /\ \/ Accept /\ UNCHANGED << sending, wire >>
           \/ Start
           \/ Shift /\ (Accept \/ UNCHANGED holding)

senderVars == << format, holding, sending, wire >>
Spec == Init /\ [][Next]_senderVars

\* And it does send what it accepted.
FairSpec == Spec /\ WF_senderVars(Next /\ (Start \/ Shift))
===============================================================================
