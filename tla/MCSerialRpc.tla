----------------------------- MODULE MCSerialRpc -----------------------------
(***************************************************************************)
(* Small instances of SerialRpc.                                            *)
(***************************************************************************)
EXTENDS SerialRpc

\* Parameters that look like the bytes of the protocol: a handle of 1, a sector 6.
Codes == << 1, 2, 6, 7, 21 >>

\* What a byte may become: one that makes a length too long, or neither ACK nor NAK.
Junk == {0, 4}

\* The errors that the protocol gets over: any in a request, a NAK, and what follows the
\* length of an answer, garbled.
Survivable ==
  ({"request"} \X (1..5) \X (Junk \cup {Lost}))
  \cup ({"refuse"} \X {1} \X (Junk \cup {ACK, Lost}))
  \cup ({"refused"} \X {1} \X (Junk \cup {ACK}))
  \cup ({"answer"} \X (3..5) \X {4})

\* A disk that has to spin up, or a track that is formatted.
Mechanics == {OPEN, PWRITE}
===============================================================================
