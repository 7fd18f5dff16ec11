------------------------------- MODULE MCT16450 -------------------------------
(***************************************************************************)
(* Small instances of the T16450 in loopback.                               *)
(***************************************************************************)
EXTENDS T16450

TwoWords(n) == { [i \in 1..n |-> 0], [i \in 1..n |-> IF i \in {2, n - 1, n} THEN 1 ELSE 0] }

F(wls, stb, pen, eps, sp) ==
  [wls |-> wls, stb |-> stb, pen |-> pen, eps |-> eps, sp |-> sp]

\* Every length, both parities and stick parity, 1, 1.5 and 2 stop bits.
EveryFormat ==
  { F(5, FALSE, FALSE, 0, FALSE), F(5, TRUE, TRUE, 1, FALSE), F(6, TRUE, TRUE, 0, FALSE),
    F(7, FALSE, TRUE, 1, TRUE), F(8, TRUE, FALSE, 0, FALSE) }
===============================================================================
