------------------------------ MODULE DisplayList ------------------------------
(***************************************************************************)
(* What the controller of the display promises: after power-up, and when    *)
(* asked to, it clears the display and gives it a list of words, one by one *)
(* and in order; and it is busy until the display has them all.             *)
(***************************************************************************)
EXTENDS Naturals, Sequences

VARIABLES
  list,    \* the words: they do not change
  got,     \* those that the display has taken
  fresh,   \* the display has been cleared since the sequence began
  busy

Init == got = << >> /\ fresh = FALSE /\ busy = TRUE

Clear  == ~fresh /\ fresh' = TRUE /\ got' = << >> /\ UNCHANGED busy
Take   == /\ fresh /\ Len(got) < Len(list)
          /\ got' = Append(got, list[Len(got) + 1])
          /\ UNCHANGED << fresh, busy >>
Finish == busy /\ fresh /\ got = list /\ busy' = FALSE /\ UNCHANGED << got, fresh >>

\* A refresh when it is done, or a reset at any time.
Restart == busy' = TRUE /\ fresh' = FALSE /\ UNCHANGED got

Next == UNCHANGED list /\ (Clear \/ Take \/ Finish \/ Restart)

displayVars == << list, got, fresh, busy >>
Spec == Init /\ [][Next]_displayVars

\* And it does get to the end.
FairSpec == Spec /\ WF_displayVars(UNCHANGED list /\ (Clear \/ Take \/ Finish))
================================================================================
