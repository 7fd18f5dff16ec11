--------------------------------- MODULE Z80 ---------------------------------
(***************************************************************************)
(* What the core promises to a program: instructions are atomic, each takes *)
(* PC past its own bytes or to its target, interrupts are taken only        *)
(* between instructions and leave a way back.  No clock, no machine cycles, *)
(* no bus.  A prefix is a step of its own after which nothing is accepted.  *)
(***************************************************************************)
EXTENDS Naturals

CONSTANTS PCSpan, JumpTargets, NMIVector, IM1Vector, Opcodes,
          MayReset

VARIABLES
  pc,          \* address of the next opcode
  op,          \* the opcode being executed and whether its branch is taken, or NoOp
  page,        \* 0, or the prefix that the next opcode continues
  ret,         \* the return address that the last instruction pushed, or NoAddress
  iff1, iff2,  \* the interrupt enable flip-flops
  im,          \* the interrupt mode
  halted,
  response     \* "none", or the interrupt being responded to

vars == << pc, op, page, ret, iff1, iff2, im, halted, response >>

NoOp == << "none", FALSE >>
NoAddress == PCSpan
PCs == 0 .. PCSpan - 1
Plus(n) == (pc + n) % PCSpan

\* Bytes of an instruction after its opcode.
OperandBytes(class) ==
  CASE class \in {"LDrn", "LDHLn", "INAn", "OUTnA", "JR", "JRcc", "DJNZ"} -> 1
    [] class \in {"LDAnn", "LDnnA", "LDddnn", "LDHLnn", "LDnnHL", "LDddmm", "LDmmdd",
                  "JP", "JPcc", "CALL", "CALLcc"} -> 2
    [] OTHER -> 0

\* The classes with an (HL) operand, which DD and FD turn into (IX+d).
Indirect == {"LDrHL", "LDHLr", "LDHLn", "INCHL"}
Branches == {"JP", "JPcc", "JR", "JRcc", "DJNZ", "CALL", "CALLcc", "RET", "RETcc",
             "RST", "JPHL", "RETN"}
Conditional == {"JPcc", "JRcc", "DJNZ", "CALLcc", "RETcc"}
Pushes == {"CALL", "CALLcc", "RST"}
Repeating == {"LDIR", "CPIR", "INIR", "OTIR"}

\* Bytes of an instruction from the opcode on.  After DD, a CB opcode follows its
\* displacement.
Length(class, p) ==
  IF p = 3 /\ class \in Opcodes[1] THEN 3
  ELSE 1 + OperandBytes(class) + IF p = 3 /\ class \in Indirect THEN 1 ELSE 0

-------------------------------------------------------------------------------
Init ==
  /\ pc = 0 /\ op = NoOp /\ page = 0 /\ ret = NoAddress
  /\ iff1 = FALSE /\ iff2 = FALSE /\ im = 0
  /\ halted = FALSE /\ response = "none"

\* The opcodes that may follow the prefix.  DD CB is decoded as one opcode of page 1.
Fetchable ==
  CASE page = 0 -> Opcodes[0]
    [] page = 3 -> (Opcodes[0] \ {"CB"}) \cup (IF "CB" \in Opcodes[0] THEN Opcodes[1] ELSE {})
    [] OTHER -> Opcodes[page]

Fetch ==
  /\ op = NoOp /\ response = "none" /\ ~halted
  /\ op' \in Fetchable \X BOOLEAN
  /\ op'[2] => op'[1] \in Conditional \cup Repeating
  /\ UNCHANGED << pc, page, ret, iff1, iff2, im, halted, response >>

class == op[1]
taken == class \in Conditional => op[2]

ExecutePrefix(p) ==
  /\ class = (CASE p = 1 -> "CB" [] p = 2 -> "ED" [] p = 3 -> "DD")
  /\ op' = NoOp /\ page' = p /\ pc' = Plus(1) /\ ret' = NoAddress
  /\ UNCHANGED << iff1, iff2, im, halted, response >>

\* What may be accepted once a step is over, and what that does to the flip-flops;
\* f1 and f2 are the flip-flops as the step leaves them.
Continue(f1, f2, mayInterrupt) ==
  \/ response' = "none" /\ iff1' = f1 /\ iff2' = f2
  \/ response' = "NMI" /\ iff1' = FALSE /\ iff2' = f2
  \/ mayInterrupt /\ f1 /\ response' = "INT" /\ iff1' = FALSE /\ iff2' = FALSE

\* EI and the returns from interrupt let one more instruction run.
FlipFlops ==
  CASE class = "EI" -> Continue(TRUE, TRUE, FALSE)
    [] class = "DI" -> Continue(FALSE, FALSE, TRUE)
    [] class = "RETN" -> Continue(iff2, iff2, FALSE)
    [] OTHER -> Continue(iff1, iff2, TRUE)

Execute ==
  /\ op # NoOp /\ class \notin {"CB", "ED", "DD"}
  /\ CASE class \in Branches /\ taken -> pc' \in JumpTargets
       [] class \in Repeating /\ op[2] -> pc' = Plus(PCSpan - 1)
       [] OTHER -> pc' = Plus(Length(class, page))
  /\ ret' = IF class \in Pushes /\ taken THEN Plus(Length(class, page)) ELSE NoAddress
  /\ FlipFlops
  /\ im' = CASE class = "IM0" -> 0 [] class = "IM1" -> 1 [] class = "IM2" -> 2
             [] OTHER -> im
  /\ halted' = (class = "HALT" /\ response' = "none")
  /\ op' = NoOp /\ page' = 0

\* A halted processor executes NOPs until an interrupt is accepted.
Idle ==
  /\ response = "none" /\ halted
  /\ Continue(iff1, iff2, TRUE)
  /\ halted' = (response' = "none")
  /\ ret' = NoAddress
  /\ UNCHANGED << pc, op, im, page >>

\* The response pushes the address of the instruction that was not executed.
Respond ==
  /\ response # "none"
  /\ ret' = pc
  /\ CASE response = "NMI" -> pc' = NMIVector
       [] response = "INT" /\ im = 1 -> pc' = IM1Vector
       [] OTHER -> pc' \in JumpTargets
  /\ Continue(iff1, iff2, TRUE)
  /\ UNCHANGED << op, im, halted, page >>

Reset == MayReset /\ Init'

Next == \/ Fetch \/ Execute \/ Idle \/ Respond \/ Reset
        \/ \E p \in 1..3 : ExecutePrefix(p)

Spec == Init /\ [][Next]_vars
===============================================================================
