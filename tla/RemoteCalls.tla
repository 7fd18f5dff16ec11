----------------------------- MODULE RemoteCalls -----------------------------
(***************************************************************************)
(* What a remote disk promises to the program that calls it: each function  *)
(* call is performed by the server, once at most and only while the program *)
(* waits for it, and the program gets the answer to that very call, or an   *)
(* error after which the call is never performed any more.                  *)
(***************************************************************************)
EXTENDS Integers, Sequences, SequencesExt

CONSTANT TimedOut

VARIABLES
  calls,      \* how many calls the program has made; the last one may be in progress
  waiting,    \* the program waits for the last call
  performed,  \* the calls performed, in their order
  answered    \* the call the program took the last answer for, or TimedOut

callVars == << calls, waiting, performed, answered >>

Init == calls = 0 /\ waiting = FALSE /\ performed = << >> /\ answered = TimedOut

Call == ~waiting /\ calls' = calls + 1 /\ waiting' = TRUE /\ UNCHANGED << performed, answered >>

Perform ==
  /\ waiting /\ ~Contains(performed, calls)
  /\ performed' = Append(performed, calls)
  /\ UNCHANGED << calls, waiting, answered >>

Return ==
  /\ waiting /\ Contains(performed, calls)
  /\ answered' = calls /\ waiting' = FALSE
  /\ UNCHANGED << calls, performed >>

GiveUp ==
  /\ waiting
  /\ answered' = TimedOut /\ waiting' = FALSE
  /\ UNCHANGED << calls, performed >>

Next == Call \/ Perform \/ Return \/ GiveUp

Spec == Init /\ [][Next]_callVars

\* And no call waits for ever.
FairSpec == Spec /\ WF_callVars(Perform \/ Return \/ GiveUp)
===============================================================================
