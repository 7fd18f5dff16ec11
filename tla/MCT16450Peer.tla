----------------------------- MODULE MCT16450Peer -----------------------------
(***************************************************************************)
(* Small instances of the receiver of the T16450 and its peer.              *)
(***************************************************************************)
EXTENDS T16450Peer

TwoWords(n) == { [i \in 1..n |-> 0], [i \in 1..n |-> IF i \in {2, n - 1, n} THEN 1 ELSE 0] }

F(wls, pen, eps, sp) == [wls |-> wls, stb |-> FALSE, pen |-> pen, eps |-> eps, sp |-> sp]

Short == { F(5, FALSE, 0, FALSE), F(5, TRUE, 1, FALSE), F(6, TRUE, 0, TRUE) }

Skewed == {13, 16, 20}
===============================================================================
