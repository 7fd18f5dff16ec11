-------------------------------- MODULE MCT80a --------------------------------
(***************************************************************************)
(* Small instances of T80a, with the microcode of T80MCode.                 *)
(***************************************************************************)
EXTENDS MCT80, T80a

\* A class of every shape of bus cycle: reads, writes, I/O, block I/O, cycles without an
\* access before and after the others, displacements.
BusShapes == Pages({"EI", "JR", "INAn", "ED", "CB", "DD"},
                   {"CBHL"}, {"OTIR", "RLD", "IM2"})
===============================================================================
