------------------------------- MODULE MCCpmFs -------------------------------
(***************************************************************************)
(* Small instances of CpmFs.                                                *)
(***************************************************************************)
EXTENDS CpmFs, TLC

Sym == Permutations(Names)
===============================================================================
