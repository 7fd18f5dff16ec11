------------------------------- MODULE SerialRpc -------------------------------
(***************************************************************************)
(* LibDsk's remote disks over a serial line: a program that calls the       *)
(* library (lib/remote.c, lib/rpccli.c, lib/rpctios.c) and the server that  *)
(* holds the disk (tools/serslave.c, lib/rpcserv.c).  The line garbles or   *)
(* loses bytes; a packet is                                                 *)
(*    << SOH or STX, length, data, crc >>                                   *)
(* with one byte for the length and one for the CRC, and two of data: the   *)
(* function, or the error, and a parameter, or a result.                    *)
(***************************************************************************)
EXTENDS Integers, Sequences, SequencesExt, FiniteSets

CONSTANTS
  MaxCalls,    \* bound: how many calls the program makes
  MaxErrors,   \* bound: how many bytes the line garbles or loses
  Room,        \* bound: how many bytes wait in one direction before a packet is resent
  Params,      \* the parameter byte of each call, a sequence
  Errors,      \* what the line may do: << packet or reply, position, new byte or Lost >>
  Slow         \* the functions that may take the server more than 30 seconds

SOH == 1
STX == 2
ACK == 6
NAK == 21

OPEN == 101          \* or RPC_DSK_CREAT, which differs in the disk alone
CLOSE == 103
PWRITE == 108        \* or any other call on a drive
PROPERTIES == 100    \* RPC_DSK_PROPERTIES, and RPC_DSK_GETCOMMENT that follows it

OK == 0
Failed == 50
Lost == -1           \* what becomes of a byte that does not arrive
TimedOut == 0

ASSUME RpcAssumption ==
  /\ MaxCalls \in Nat /\ MaxErrors \in Nat /\ Room \in Nat
  /\ Len(Params) = MaxCalls
  /\ \A i, j \in 1..MaxCalls : Params[i] \in 1..31 /\ (i # j => Params[i] # Params[j])

VARIABLES
  toServer, toClient,  \* the bytes under way
  errors,              \* history: how many bytes were garbled or lost
  calls,               \* history: how many calls were made; the number of the last one
  client,              \* where tios_call waits: "ack", "stx" or "answer", or "idle"
  session,             \* of the program: "closed", "opening" (OPEN has succeeded), "open"
  request,             \* the data of the call in progress
  answered,            \* history: the call the last answer was for, or TimedOut
  server,              \* "soh", "packet", "executing", "answering", "reply", or "gone"
  data,                \* the call the server has accepted, then its answer
  nRefCount,           \* drives open at the server
  performed            \* history: the calls performed

line == << toServer, toClient, errors >>
clientVars == << calls, client, session, request, answered >>
serverVars == << server, data, nRefCount, performed >>
vars == << line, clientVars, serverVars >>
-------------------------------------------------------------------------------
\* No two packets of the model have one CRC, and an error in a packet is always found.
Crc(d) == IF Len(d) = 2 THEN 1000 + 32 * d[1] + d[2] ELSE -1

Packet(start, d) == << start, Len(d) >> \o d \o << Crc(d) >>

\* What may come out of the line for the bytes that are sent: one byte at most is lost or
\* garbled.
Received(kind, bytes) ==
  {bytes} \cup
  { IF e[3] = Lost THEN RemoveAt(bytes, e[2]) ELSE ReplaceAt(bytes, e[2], e[3]) :
      e \in { e \in Errors : errors < MaxErrors /\ e[1] = kind } }

ToServer(kind, bytes) ==
  \E got \in Received(kind, bytes) :
    /\ toServer' = toServer \o got
    /\ errors' = IF got = bytes THEN errors ELSE errors + 1

ToClient(kind, bytes) ==
  \E got \in Received(kind, bytes) :
    /\ toClient' = toClient \o got
    /\ errors' = IF got = bytes THEN errors ELSE errors + 1

\* The rest of a packet whose first byte has been read is there, and its CRC is right.
Complete(bytes) == bytes # << >> /\ Len(bytes) >= bytes[1] + 2
Body(bytes) == SubSeq(bytes, 2, bytes[1] + 1)
Intact(bytes) == bytes[bytes[1] + 2] = Crc(Body(bytes))
AfterPacket(bytes) == SubSeq(bytes, bytes[1] + 3, Len(bytes))
-------------------------------------------------------------------------------
Init ==
  /\ toServer = << >> /\ toClient = << >> /\ errors = 0
  /\ calls = 0 /\ client = "idle" /\ session = "closed" /\ request = << >>
  /\ answered = TimedOut
  /\ server = "soh" /\ data = << >> /\ nRefCount = 0 /\ performed = << >>

\* The calls of remote_open come in their order; a drive is used, then closed.
Function ==
  CASE session = "closed" -> {OPEN}
    [] session = "opening" -> {PROPERTIES}
    [] session = "open" -> {PWRITE, CLOSE}

Call(function) ==
  /\ client = "idle" /\ calls < MaxCalls
  /\ calls' = calls + 1
  /\ request' = << function, Params[calls + 1] >>
  /\ client' = "ack"
  /\ ToServer("request", Packet(SOH, request'))
  /\ UNCHANGED << toClient, session, answered, serverVars >>

Accepted ==
  /\ client = "ack" /\ toClient # << >> /\ Head(toClient) = ACK
  /\ client' = "stx"
  /\ toClient' = Tail(toClient)
  /\ UNCHANGED << toServer, errors, calls, session, request, answered, serverVars >>

\* NAK, or a byte that is neither: then whatever has come in is swallowed.
Resends ==
  /\ client = "ack" /\ toClient # << >> /\ Head(toClient) # ACK
  /\ Len(toServer) <= Room
  /\ \E n \in 1..Len(toClient) :
       /\ Head(toClient) = NAK => n = 1
       /\ toClient' = SubSeq(toClient, n + 1, Len(toClient))
  /\ ToServer("request", Packet(SOH, request))
  /\ UNCHANGED << clientVars, serverVars >>

SeeksSTX ==
  /\ client = "stx" /\ toClient # << >>
  /\ client' = IF Head(toClient) = STX THEN "answer" ELSE "stx"
  /\ toClient' = Tail(toClient)
  /\ UNCHANGED << toServer, errors, calls, session, request, answered, serverVars >>

\* Mutant: a program told that its drive was not closed believes it is open.
AfterCallOfClose(failed) ==
  session' = CASE request[1] = CLOSE -> IF failed THEN session ELSE "closed"
               [] request[1] = OPEN -> IF failed THEN "closed" ELSE "opening"
               [] request[1] = PROPERTIES -> IF failed THEN "closed" ELSE "open"
               [] OTHER -> session

\* What remote_open and remote_close do with the error of a call.
AfterCall(failed) ==
  session' = CASE request[1] = CLOSE -> "closed"
               [] request[1] = OPEN -> IF failed THEN "closed" ELSE "opening"
               [] request[1] = PROPERTIES -> IF failed THEN "closed" ELSE "open"
               [] OTHER -> session

TakesAnswer ==
  /\ client = "answer" /\ Complete(toClient) /\ Intact(toClient)
  /\ client' = "idle"
  /\ AfterCall(Body(toClient)[1] # OK)
  /\ answered' = CHOOSE n \in 1..MaxCalls : Params[n] = Body(toClient)[2]
  /\ toClient' = AfterPacket(toClient)
  /\ ToServer("accepted", << ACK >>)
  /\ UNCHANGED << calls, request, serverVars >>

RefusesAnswer ==
  /\ client = "answer" /\ Complete(toClient) /\ ~Intact(toClient)
  /\ client' = "stx"
  /\ toClient' = AfterPacket(toClient)
  /\ ToServer("refused", << NAK >>)
  /\ UNCHANGED << calls, session, request, answered, serverVars >>

\* The server waits for bytes that are not there.
Starved ==
  \/ server \in {"soh", "reply"} /\ toServer = << >>
  \/ server = "packet" /\ ~Complete(toServer)
  \/ server = "gone"

\* Mutant: the client waits for ACK without looking at the time.
GivesUpAfterACK ==
  /\ \/ client = "stx" /\ toClient = << >>
     \/ client = "answer" /\ ~Complete(toClient)
  /\ Starved \/ (server = "executing" /\ data[1] \in Slow)
  /\ client' = "idle"
  /\ toClient' = << >>
  /\ AfterCall(TRUE)
  /\ answered' = TimedOut
  /\ UNCHANGED << toServer, errors, calls, request, serverVars >>

\* Thirty seconds without the bytes that are waited for; those that came are lost.
GivesUp ==
  /\ \/ client \in {"ack", "stx"} /\ toClient = << >>
     \/ client = "answer" /\ ~Complete(toClient)
  /\ Starved \/ (server = "executing" /\ data[1] \in Slow)
  /\ client' = "idle"
  /\ toClient' = << >>
  /\ AfterCall(TRUE)
  /\ answered' = TimedOut
  /\ UNCHANGED << toServer, errors, calls, request, serverVars >>
-------------------------------------------------------------------------------
SeeksSOH ==
  /\ server = "soh" /\ toServer # << >>
  /\ server' = IF Head(toServer) = SOH THEN "packet" ELSE "soh"
  /\ toServer' = Tail(toServer)
  /\ UNCHANGED << toClient, errors, clientVars, data, nRefCount, performed >>

TakesPacket ==
  /\ server = "packet" /\ Complete(toServer) /\ Intact(toServer)
  /\ data' = Body(toServer)
  /\ server' = "executing"
  /\ toServer' = AfterPacket(toServer)
  /\ ToClient("accept", << ACK >>)
  /\ UNCHANGED << clientVars, nRefCount, performed >>

RefusesPacket ==
  /\ server = "packet" /\ Complete(toServer) /\ ~Intact(toServer)
  /\ server' = "soh"
  /\ toServer' = AfterPacket(toServer)
  /\ ToClient("refuse", << NAK >>)
  /\ UNCHANGED << clientVars, data, nRefCount, performed >>

\* Mutant: a drive that could not be opened is taken off the count.
RefsOfFailures(function, err) ==
  CASE function = OPEN -> IF err = OK THEN nRefCount + 1 ELSE nRefCount - 1
    [] function = CLOSE -> nRefCount - 1
    [] OTHER -> nRefCount

\* dsk_rpc_server: whatever a drive answers, closing it takes it off the count.
Refs(function, err) ==
  CASE function = OPEN /\ err = OK -> nRefCount + 1
    [] function = CLOSE -> nRefCount - 1
    [] OTHER -> nRefCount

Executes ==
  /\ server = "executing"
  /\ \E err \in IF data[1] = PROPERTIES THEN {OK} ELSE {OK, Failed} :
       /\ nRefCount' = Refs(data[1], err)
       /\ data' = << err, data[2] >>
  /\ performed' = Append(performed, CHOOSE n \in 1..MaxCalls : Params[n] = data[2])
  /\ server' = "answering"
  /\ UNCHANGED << line, clientVars >>

Answers ==
  /\ server = "answering"
  /\ server' = "reply"
  /\ ToClient("answer", Packet(STX, data))
  /\ UNCHANGED << toServer, clientVars, data, nRefCount, performed >>

\* write_packet is over; main goes on while a drive is open.
Serves == server' = IF nRefCount = 0 THEN "gone" ELSE "soh"

Acknowledged ==
  /\ server = "reply" /\ toServer # << >> /\ Head(toServer) = ACK
  /\ toServer' = Tail(toServer)
  /\ Serves
  /\ UNCHANGED << toClient, errors, clientVars, data, nRefCount, performed >>

\* Any byte but ACK has the answer sent again.
AnswersAgain ==
  /\ server = "reply" /\ toServer # << >> /\ Head(toServer) # ACK
  /\ Len(toClient) <= Room
  /\ toServer' = Tail(toServer)
  /\ ToClient("answer", Packet(STX, data))
  /\ UNCHANGED << clientVars, serverVars >>

\* Five minutes without a byte: the program has been busy elsewhere.  The error of
\* read_packet ends the server, that of write_packet is not looked at.
LosesPatience ==
  /\ client = "idle" /\ Starved /\ server # "gone"
  /\ IF server = "reply" THEN Serves ELSE server' = "gone"
  /\ toServer' = << >>
  /\ UNCHANGED << toClient, errors, clientVars, data, nRefCount, performed >>

ClientStep ==
  Accepted \/ Resends \/ SeeksSTX \/ TakesAnswer \/ RefusesAnswer \/ GivesUp

ServerStep ==
  \/ SeeksSOH \/ TakesPacket \/ RefusesPacket \/ Executes
  \/ Answers \/ Acknowledged \/ AnswersAgain

Next ==
  \/ \E function \in Function : Call(function)
  \/ ClientStep \/ ServerStep \/ LosesPatience

Spec == Init /\ [][Next]_vars

\* Both machines run, and a wait of thirty seconds comes to its end.
FairSpec == Spec /\ WF_vars(ClientStep) /\ WF_vars(ServerStep)
-------------------------------------------------------------------------------
Calls == INSTANCE RemoteCalls WITH waiting <- client # "idle"

\* The registers of both machines, and what a packet can hold.
TypeOK ==
  /\ client \in {"idle", "ack", "stx", "answer"} /\ session \in {"closed", "opening", "open"}
  /\ server \in {"soh", "packet", "executing", "answering", "reply", "gone"}
  /\ nRefCount \in 0..MaxCalls
  /\ errors \in 0..MaxErrors /\ calls \in 0..MaxCalls /\ answered \in 0..MaxCalls

\* Until the program closes its drive the server counts it, whichever of Errors the line makes:
\* main (serslave.c:813) does not end for want of drives.  It may end for silence, LosesPatience.
DriveHeld ==
  session # "closed" /\ (client # "idle" => request[1] # CLOSE) => nRefCount > 0

\* Every call is performed at most once and while the program waits for it, returns its own
\* answer or an error, and returns.
ImplementsCalls == Calls!FairSpec

\* "Each function call becomes two transmissions: The client sends a packet to the server,
\* which performs the necessary action and sends a packet back" (doc/protocol.txt:7-8): an
\* answer belongs to the call that takes it.
OwnAnswer == client = "idle" => answered \in {calls, TimedOut}
===============================================================================
