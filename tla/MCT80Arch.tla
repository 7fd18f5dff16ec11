------------------------------ MODULE MCT80Arch ------------------------------
(***************************************************************************)
(* The instances of MCT80 with the history of T80Arch.                      *)
(***************************************************************************)
EXTENDS MCT80, T80Arch
===============================================================================
