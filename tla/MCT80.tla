-------------------------------- MODULE MCT80 --------------------------------
(***************************************************************************)
(* Small instances of T80, with the microcode of T80MCode.                  *)
(***************************************************************************)
EXTENDS T80, T80MCode

Flags == {"JPcc", "JRcc", "DJNZ", "CALLcc", "RETcc", "LDIR", "CPIR", "INIR", "OTIR"}

Pages(p0, p1, p2) == [p \in 0..2 |-> CASE p = 0 -> p0 [] p = 1 -> p1 [] p = 2 -> p2]

\* Every opcode class, and interrupts in modes 0 and 2.  (The CB page has no CB but as
\* the last byte of DD CB.)
Every == Pages(Page[1], Page[2] \ {"CB"}, Page[3] \ {"IM1"})

\* What can upset the flip-flops and the address register, every prefix, and mode 1.
Delicate == Pages({"EI", "HALT", "INAn", "ED", "CB", "DD"}, {"CBHL"}, {"RETN", "LDIR", "IM1"})

\* The least that enables interrupts, halts, and waits for a device.
Few == Pages({"NOP", "EI", "HALT", "INAn", "ED"}, {}, {"RETN"})

\* For liveness: no DD, for a program of prefixes alone puts off NMI for ever.
NoPrefixes == Pages({"EI", "HALT", "INAn", "ED"}, {}, {"RETN"})

OneTarget == {0}
===============================================================================
