------------------------------ MODULE MCOledCtrl ------------------------------
(***************************************************************************)
(* Small instances of the controller of the display.                        *)
(***************************************************************************)
EXTENDS OledCtrl

\* Words of three bits. The size of the last list needs the upper part of init_len.
ThreeLists == { << 5, 2 >>, << 1, 6, 3 >>, << 6, 1, 4, 3, 7, 2, 5, 0 >> }
===============================================================================
