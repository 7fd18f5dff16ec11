# Specifications of the UnIC T80

This directory holds TLA+ models of the programs of this repository whose correctness is a
matter of order and timing: the T80 processor core, its asynchronous bus wrappers, its UART
(VHDL) and the controller of its display (Python, made into SystemVerilog), and, of the CP/M
software that comes with them, the file system of the disk tools (cpmtools) and the remote
disks of LibDsk (C). With them are the TLC configurations that check the models on small
instances, and proofs, checked by TLAPS, about each of them.

In the models of the hardware a step is an edge of a clock, the variables are the registers
of the clocked processes, under their names in the source, and combinational signals are
operators. In those of the software a step is what another process, or a crash, can come
between: one block written, one byte or packet taken. `PROJECT.json` maps every definition
to the lines it stands for.

- [The system](#the-system)
- [Modules](#modules)
- [Runs](#runs), [bounds](#bounds), [fairness](#fairness)
- [Findings](#findings)
- [Proofs](#proofs)
- [What is not covered](#what-is-not-covered)
- [Plan](#plan)

## The system

The repository is a Z80 for an FPGA that plugs into the socket of the original chip. Three
tops use it: `build/soc_top.sv` (the pin-compatible Z80, with an OLED display on the side),
`soc_top.vhd` (CPU, RAM and UART on one FPGA) and `shadow_tracer/shadow_tracer.sv` (the core
runs beside a real Z80 and their pins are compared). `sim/` simulates the first two, and
`cpm/` has the tools that make disks for the machines it goes into.

    T80_MCode   -- TStates, MCycles, Prefix, ... -->  T80   (sequencer, interrupts, data path)
                                                       |  MCycle, TState, Write, IORQ, NoRead
                                                       v
                                            T80a / T80a_dido  (strobes, on both clock edges)
                                                       |  MREQ_n IORQ_n RD_n WR_n A D
                                                       v
                                    soc_top.vhd: RAM, T16450 (RClk <- BaudOut)

    cpmcp cpmrm cpmchattr fsck.cpm  --->  cpmfs.c  --->  device_*.c  --->  a disk, or LibDsk
    LibDsk: remote.c, rpccli.c, rpctios.c  <--- serial line --->  serslave.c, rpcserv.c: the disk

| component | state | operations | hard behaviour |
| --- | --- | --- | --- |
| `T80.vhd`, state machine | MCycle, TState, IntE_FF1/2, Halt_FF, NMI_s, BusReq_s, BusAck, wait-state flip-flops | one clock; reset | NMI, INT, BUSRQ, WAIT and HALT arrive in any order; reset leaves four flip-flops alone |
| `T80.vhd`, data path | PC, A, IR, ISet, XY_State, DO, registers, flags | opcode latch in T2; end of cycle; middle of cycle | A is loaded one machine cycle ahead of its use; stopped separately from the sequencer |
| `T80_MCode.vhd` | none: a ROM | outputs for (IR, ISet, MCycle, flags, NMICycle, IntCycle, XY_State) | some outputs depend on flags, interrupt cycles and DD/FD |
| `T80a.vhd` | 14 flip-flops on both edges | rising edge, falling edge, reset | glitch-free strobes under WAIT, grant and reset |
| `T16450.vhd`, transmitter | THR, LSR(6:5), TX_* | clock; write THR | a one-word queue with two producers of its flags; stop bits of three lengths |
| `T16450.vhd`, receiver | RBR, LSR(4:0), RX_*, Bit_Phase | clock; read RBR, LSR | a line of another clock domain; flags that are set and cleared on one clock |
| `T16450.vhd`, registers | LCR, MCR, MSR, IER, DLL, DLM | read, write | strobes that last several clocks |
| `soc_top.vhd` | RAM | decode, read, write | CPU and UART share the clock, not the length of an access |
| `oled_ctrl.py` | two state machines, a memory | start-up sequence | a pipeline with a stall |
| cpmtools, file system | the directory and the data on the disk; the directory, the allocation vector and `dirtyDirectory` in core | copy a file, erase, change attributes, check, save the directory | the directory is saved last and a block at a time; a tool can be killed between two writes; disk and directory fill up; extents, records and blocks have three different sizes |
| LibDsk, serial client and server | bytes under way; where each side waits; open drives | call, acknowledge, refuse, resend, give up; execute, answer | bytes are lost and garbled; a side gives up while the other goes on; requests and answers are resent |

Correct means:

- **core**: a program cannot tell, but for time, that there is a bus, that WAIT_n stretches
  it, or when an interrupt came: instructions are atomic, NMI and INT are taken between them
  and leave a way back; no edge of NMI_n is forgotten; nothing locks it up;
- **wrapper**: on the pins, every access is one transfer with stable address and data; the
  bus changes hands quietly; the byte used is the byte of the access;
- **UART**: what is written goes out once, in order, in the programmed format; what comes in
  is received once and intact from any peer whose clock is close enough; the status register
  tells the truth;
- **display controller**: the display, once cleared, gets the words of the memory, each once
  and in order, and `busy` lasts until it has them all;
- **file system**: a tool does what it says to the files it names and nothing to any other;
  whenever it is killed, the disk holds no damage: what was there before, or a part of the
  change, and no block in two files;
- **remote disk**: a call is performed once or not at all, the caller gets its answer or an
  error, and does get one of them; the server counts a drive until the
  program closes it (which does not keep it from ending after five minutes of silence).

## Modules

| module | models | correspondence |
| --- | --- | --- |
| `T80MCode` | `T80_MCode.vhd`, Mode 0 | one entry per opcode class: the sequence of its machine cycles, each with its last T state and the outputs it raises; `CycleOf`, `CountOf`, `PrefixOf` are the ROM outputs |
| `T80` | `T80.vhd` | one action per branch of the state machine (`HoldForBus`, `StretchT2`, `GrantBus`, `FetchDisplacement`, `ResumeAfterDisplacement`, `EndInstruction`, `NextMachineCycle`, `StretchT1`, `NextTState`), composed with the flip-flops beside it and with `DataPath` into `Clock`; `Reset` |
| `Z80` | nothing: the abstract specification | a program's view: fetch, execute, take an interrupt; no clock |
| `T80Arch` | `T80` with a history | what an instruction boundary shows, the refinement mapping to `Z80`, and what the mapping asks of the ROM |
| `T80Proofs` | theorems about `T80` and `T80Arch` | interrupts and bus grants first, then the fetches, then that `T80` implements `Z80` |
| `T80a` | `T80a.vhd`, both wrappers | EXTENDS `T80`; the two wrappers differ in the data latch only, so both latches are variables: `Fall`, `Rise` (in which the core steps) and `ResetAll` |
| `T80aProofs` | theorems about `T80a` | rests on those about `T80` |
| `T16450Line`, `T16450Tx`, `T16450Rx` | `T16450.vhd` | the baud generator, the transmitter, the receiver: one operator per process |
| `SerialSender` | nothing: the abstract specification | what a transmitter promises |
| `T16450Peer` | the receiver, a foreign sender, and a CPU that runs `getchar` | the sender has any phase, skewed edges, and noise between frames; the CPU polls LSR and reads RBR with the two-clock strobes of `soc_top.vhd` (`Processor`) |
| `T16450` | both halves in loopback (`MCR(4) = '1'`) | a CPU that writes and reads as it likes, each access two clocks long (`Accesses`) |
| `T16450RxProofs`, `T16450Proofs`, `T16450PeerProofs` | theorems about `T16450` and `T16450Peer` | the first has the lemmas on the receiver that the other two share |
| `OledCtrl` | `OledCtrl` and `SpiCtrl` of `build/oled_ctrl.py` | `Play` and `Shift` are the registers of the two modules, `Cleared` their resets; the wires keep their names; `Samples` is the display |
| `DisplayList` | nothing: the abstract specification | a list that is given to a display word by word |
| `OledCtrlProofs` | theorems about `OledCtrl` | |
| `CpmFs` | `cpmfs.c`, `cpmcp.c`, `cpmrm.c`, `cpmchattr.c`, `fsck.cpm.c` | a tool runs from `ReadSuper` to `Umount` or `Crash`; `Creat`, `Write` (one pass of the loop of cpmWrite: one block), `WriteFails`, `Close`; `Unlink`; `AttrSet`; `Fsck`; `SyncBlock` writes one block of the directory |
| `FileStore` | nothing: the abstract specification | files that are created, extended, erased and protected, a saved copy that follows them in part, and crashes that go back to it |
| `CpmFsProofs` | theorems about `CpmFs` | what holds of the disk first, then that `CpmFs` implements `FileStore` |
| `SerialRpc` | `remote.c`, `rpctios.c` (client), `serslave.c`, `rpcserv.c` (server) | the client is where tios_call waits, the server where read_packet or write_packet does; each action consumes what one read takes, and sends what follows it |
| `RemoteCalls` | nothing: the abstract specification | calls that are performed at most once and only while their caller waits |
| `SerialRpcProofs` | theorems about `SerialRpc` | |
| `MC*` | instances for TLC | opcode sets, formats, words, line errors |

What the models abstract from:

- *Opcodes* are classes with one sequence of machine cycles each: `LDIR` also stands for
  `LDDR`, `RST` for the eight of them, `DD` for `FD`. The ROM is a CONSTANT of `T80`, which
  `T80MCode` provides and `CoreAssumption` and `ProgramAssumption` constrain, so that the
  theorems hold for every ROM that meets them.
- *Flags* are one bit, `cc`: the branch is taken, the block instruction repeats. It is chosen
  with the opcode.
- *Addresses*: PC counts modulo `PCSpan`; jumps go to `JumpTargets`; an address that is not
  derived from PC is `NotPC`. That is enough to see a wrong return address or a stale A.
- *Data*: DO matters only as a half of a return address. In `T80a` a byte is named by the
  machine cycle it was read in. In the UART a word is its bits. In `CpmFs` a unit of a file
  is named by the file, its length and its position, so that any mix-up shows.
- *Inputs* (`WAIT_n`, `INT_n`, `NMI_n`, `BUSRQ_n`, `RESET_n`) are free on every clock, which
  includes the periodic WAIT_n and the scheduled interrupts of `sim/DebugSystem.vhd`.
- *Reset* is one step. Flip-flops without a reset start, and stay, with any value.
- The UART's LCR and divisor are programmed before the first word and stay, as `sim/test.c`
  does. An access of the CPU lasts two clocks of XIn, as `T80a_dido` makes it without wait
  states: the UART acts on both, and the byte is what it shows after the second.
- *The display* takes a bit with every rising edge of `spi_clk` and a word with the last of
  them; a bit that changes with the edge is taken either way. Registers of its controller
  start at 0, as after `rst` (`build/soc_top.sv` ties `rst` low and leaves this to the FPGA).
- *Disks*: the lengths of a record, a sector, a block, a logical extent and a chunk of cpmcp
  are CONSTANTS, in units; a sector is written whole. The directory is saved a block at a time,
  while writeBlock (`cpmfs.c:382`) writes the sectors of a block one by one: a crash between
  two of them leaves what the models show with as many entries to a block as a sector has, and
  the theorems hold for every number. Time stamps, passwords and users are
  left out.
- *Calls*: OPEN, PROPERTIES and CLOSE, whose order matters, and PWRITE for all the others; a
  packet has two bytes of data, and a CRC that finds every error.

## Runs

| run | question | result |
| --- | --- | --- |
| `t80_inputs` | with every input at every clock, NMI, bus requests and resets included, in mode 1: interrupts shut out in a response; bytes are read at PC; M1_n marks the fetch; a grant freezes the core; `T80` implements `Z80` | hold |
| `t80_every` | for every opcode class of the ROM, with INT in modes 0 and 2: types; bytes are read at PC; implements `Z80` | hold |
| `t80_live` | a falling edge of NMI_n is answered; the core always fetches again | hold |
| `t80a_bus` | the pins of T80a: one transfer at a time, quiet grants, stable address, data valid under WR_n and held after it, the right byte in both data latches, IORQ_n in the last clock of T1 of an acknowledge | hold |
| `t80a_answer` | is the answer to INT latched while IORQ_n is low? | violated |
| `uart_rx` | each frame of a peer is received once, DR announces the word that was sent, the errors are those of the line; what `getchar` returns is what was sent, in order, but for words that were overrun while it was late | hold |
| `uart_loop` | for every format: types, the length of each bit, the transmitter implements `SerialSender` with its liveness, each write to THR counting once; words come back in order, intact and without errors, and do come back | hold |
| `oled` | with refreshes and resets at any clock: does the display get its list, the last word before `busy` falls; do data and select stand still while `spi_clk` is high and as it rises? | hold |
| `cpm_fs` | tools one after the other, one of them killed anywhere: no block has two owners; data the disk shows is not written over; fsck.cpm finds nothing; `CpmFs` implements `FileStore` | hold |
| `cpm_fsck` | is the directory that a tool leaves behind in core the one on the disk? | violated |
| `rpc` | on a bad line: `SerialRpc` implements `RemoteCalls` with its liveness; the server counts a drive until it is closed | hold |
| `rpc_slow` | on a perfect line, with a call of more than 30 seconds: is an answer taken for the call it belongs to? | violated |

`T80Arch!ImplementsZ80` is the strongest statement about the core. It looks at the machine
when an instruction ends, `View`, and asks that the sequence of views be a behaviour of
`Z80`. Three differences of timing are part of the mapping: EI sets the flip-flops in the M1
cycle that follows it, Halt_FF falls one clock after the interrupt is accepted, and a DD CB
instruction shows its opcode after the displacement. What is pushed is taken from DO in the
write cycles, so a return address torn by a change of PC in the middle is seen.

`OledCtrl!ImplementsList` counts a word as taken when the display has its last bit, and asks
that each be the next of the list: a word that is repeated or left out for the clock by which
the memory lags, or a last word that is cut off, is no step of `DisplayList`.

`CpmFs!ImplementsStore` maps the two directories to files as cpmls and cpmcp find them: the
first extent of each name is listed (`Listed`), the last gives the size (`SizeOf`), and every
unit is read through the extent and the pointer that cpmRead computes (`UnitAt`). The tool
sees `dir`, the next tool would see `diskDir`. A file that reaches the disk in part has a
beginning of what was copied; only a file that is being erased may be cut anywhere.

`SerialRpc!ImplementsCalls` forgets the bytes: a call is in progress while the client is not
idle. Resent requests, resent answers, and what is left of both, must be stutters.

Each property was also checked against a plausible bug in the definition it is about; the
altered definitions, marked *Mutant* in the modules, and the run that refutes each are
listed in `PROJECT.json`.

### Bounds

- `PCSpan` is 4 in `t80_inputs` and `t80_every`: the longest step PC takes is over three
  bytes, and the one address more tells `pc` from what it was. It is 2 in `t80_live` and 1 in
  `T80a`, whose properties do not compare addresses.
- The opcode sets trade classes for inputs. `Every` has all classes but IM 1; with
  them come INT, wait states and the modes, no NMI, bus request or reset. `Delicate` has the
  classes that hold the most state between machine cycles (displacements, prefixes, repeats,
  HALT, I/O wait states) and those that touch the interrupt logic (EI, RETN), and all inputs.
  `BusShapes` has one of every shape of bus cycle. The hazards are of one or two instructions
  in a row with one or two inputs, so the union of the runs meets them; no run has all opcodes
  with all inputs, and none has NMI in mode 2. The theorems have all of them at once.
- `IntAckOps` is {RST}: what the devices of an IM 0 system answer. (With an answer of one
  machine cycle `IORQ_int_inhibit` would not be set up again, T80a.vhd:317.)
- UART: two words per length, one of them mixed, so that a bit in the wrong place is seen.
  `EveryFormat` has each word length, parity and stop bit. Divisor 2 is the least at which
  BaudOut falls (with 0 or 1, which no driver programs, `BitTiming` does not hold: the first
  enable of a long stop bit is counted with the old TX_Stop_Bit, T16450.vhd:377); the
  receiver needs no more than 1, for it looks at nothing between enables. Both runs are
  instances of theorems, for every divisor of 2 at least, or of any, and every word.
- `StartLengths` (13 to 20 enables out of 16) is how far the edges after the start bit may be
  off, in place of a drift along the frame; `GlitchMax` is 6 enables: at 7 noise is a start
  bit for the receiver, by its own definition (T16450.vhd:290, 306). The proofs are for
  start bits of 11 to 23 enables; with 10 or 24 TLC finds frames lost or garbled.
- `oled`: words of three bits; lists of two, three and eight words, the last of which needs
  the upper part of `init_len` (in the memory of the repository, 570 words of nine bits do);
  dividers from 0, where every clock is a tick, to 4, where a word waits for its tick. A list of
  one word is left out, as the generated one is long: `busy` would fall before it is sent.
- `cpm_fs`: a block of 4 units has two sectors and two records, a logical extent two blocks
  and an entry four pointers, so that one entry covers two extents, as it does with
  blocks of 2K. The lengths are 0, 9 (a record, a block and an extent begun and not
  ended) and 18 (more than one entry). Three entries over two directory blocks make the
  directory fill up and the save of it divisible; of the seven blocks, five hold data, and 18
  units need all of them, so the disk fills up in the middle of a file as well. One crash is
  enough to leave any half-written directory, and every tool can follow it. The two names are
  symmetric.
- `rpc`: five calls are one more than open, properties, use, close. Three errors meet one
  exchange three times, or one each. The parameters are small numbers that look like the
  bytes of the protocol, so that a byte in the wrong place can be taken for SOH, ACK or NAK.
  `Room` (bytes that wait in one direction before anything is resent) stands for the buffers
  of the line. It keeps the model finite; a call that it blocked for good would never return,
  and the run shows that every call does.
- `Errors` of `rpc`, `Survivable`: any byte of a request may be lost or garbled, a NAK garbled
  (also to ACK), that of the server lost as well, and a byte of an answer after its length
  garbled. What is left out is what the protocol does not survive, see the findings. The run is
  an instance of theorems for any byte of 0 to 255, any number of calls and of errors.
- Nothing else in the models counts without bound: no state constraint is used.

### Fairness

`T80!FairSpec`: again and again there is a clock with WAIT_n high after which BUSRQ_n is
sampled high, and from some clock on there is no reset. The core has no time-out: a device
that holds WAIT_n, BUSRQ_n or RESET_n for ever stops it, and that is the protocol. `t80_live`
leaves out DD, for a program of DD prefixes alone puts off interrupts for ever, as on a Z80.
`T16450`, `T16450Tx`: XIn is a free running clock; nothing is assumed of the processor.
`OledCtrl`: the clock runs, and from some clock on there is no reset.

`SerialRpc!FairSpec`: the client takes a step that it can take, and so does the server; both
are programs that do nothing else. Giving up is a step of the client, for the 30 seconds end
(`rpctios.c:334`), but it can be taken only while nothing else comes: the server waits as
well, or works on a call that is slow. The program need not make another call, and the five
minutes after which the server leaves need never pass. Nothing is assumed of the line.
Deadlock is not checked in `rpc` and `rpc_slow`, as the program may be through with its calls
and the server gone. `CpmFs` has no fairness: a tool may be killed at any time, and there is
nothing that it would have to wait for.

## Findings

- `t80a_answer`: T80a.vhd:302 drops IORQ_int in the first clock of T2 whether or not WAIT_n
  stretches it, so a vector asked for with wait states is latched after IORQ_n has risen.
- `cpm_fsck`: fsck.cpm saves nothing. It repairs entries in core, says that the file system
  was modified (`fsck.cpm.c:619`) and calls cpmUmount; cpmSync saves the directory only if
  `dirtyDirectory` is set (`cpmfs.c:1231`), which fsck.cpm never does.
- The same run shows where damage comes from: the extent number is computed once for each
  physical extent of a call (`cpmfs.c:1745`), and `cpmcp -t` writes chunks of 2048 or 2049 bytes, which
  may straddle two logical extents of one entry. The entry keeps the number of the first with
  the record count of the second. With `Text = FALSE`, as in `cpm_fs`, chunks do not straddle.
- `rpc_slow`: when the server takes more than 30 seconds, the client gives up, and the late
  answer can become that of the next call: nothing in a packet says which request it is for.

Disagreements met on the way that no run is spent on:

- The first clock of a read of LSR clears its error bits (T16450.vhd:283), and the CPU takes the
  byte after the second: in `soc_top.vhd` it can see only an error that arises in between. In
  the same way a word that arrives between the two clocks of a read of RBR is what is read, and
  the one before it is lost without OE, for the first clock has cleared DR. `WordsReturned`
  allows for it; DR itself is safe, as reads of LSR leave it alone. `sim/test.c` does not look at
  the error bits.
- `reset` of OledCtrl, a "synchronous reset request" by its comment (`build/oled_ctrl.py:141`),
  is not used. `spi_clk_delay` never delays anything: a word begins on a tick, which ends it
  (`IInv` of `OledCtrlProofs`).
- TEMT is raised with the last bit of a word although THR is full (T16450.vhd:446), and OE is
  overwritten by each word (T16450.vhd:337), so that the word after the overrun one can clear
  it before LSR is read.
- `rpcserv.c:28-31` says that the count of drives decreases when a dsk_close succeeds; it does
  always (line 84). The model follows the code.
- An ACK that is garbled makes the client resend a request the server has performed, which
  the server answers byte by byte with its last answer; a call after it may meet what is left
  of them, as in `rpc_slow`. A lost byte of an answer leaves both sides reading until one gives
  up, and so does a lost NAK of the client. `Survivable` leaves these out.
- When PROPERTIES fails, remote_open forgets the drive it has opened (`remote.c:161`), and the
  server keeps counting it.

## Proofs

`T80Proofs` proves, for every `PCSpan`, jump target, opcode set, device answer and microcode
that meet `CoreAssumption`, and with or without NMI, bus requests and resets:

- `Invariance`: `Spec => []Inv`
- `TypeCorrect`: `Spec => []TypeOK`
- `InterruptSafety`: `Spec => []InterruptsShutOut`
- `GrantTransparency`: `Spec => GrantFreezes`

`CoreAssumption` is made of these: `ConstantsAssumption` says that the vectors and targets are
addresses. `MicrocodeAssumption` says what the core relies on in its ROM: machine cycles of
3 to 6 T states, at least 4 in M1, 3 and 5 for the displacement; EI in one unprefixed machine
cycle and never an answer to INT; DI in the first cycle; HALT no prefix; prefixes on the
first page only. TLC evaluates it for `T80MCode` at the start of every run of the core.

`TypeOK` alone is not inductive, nor is `InterruptsShutOut`. The argument:

- `TState` could run past the last T state of a cycle if the length changed under it;
  `TBound` says it does not, and needs that IR, `cc` and the rest change in T2 of M1 only,
  when no length is below 4, and in T2 of cycle 7, whose length is always 5.
- EI sets IFF1 in T2 of its own M1... which is the T2 in which the *next* opcode is latched:
  IR still holds EI. If that M1 is the response to an interrupt, IFF1 would be set
  behind its back. NMI is guarded by `not NMICycle`; for INT nothing is, and what excludes
  it is that INT is never accepted at the end of EI (`NoResponseToEI`). That rests on EI being
  one machine cycle (`EIIsShort`, `CountKnown`: MCycles, a register one clock late, is right
  by the time it is compared), and on no displacement fetch splitting it.
- `XY_Ind`, `DisplacementMarked` and `NoPrefixPending` exclude that an interrupt, HALT or a
  second displacement comes between a prefix and its opcode.
- `GrantedAtEnd` says where the sequencer can stand when the bus is away; `GrantTransparency`
  follows from it and `Stays`/`Advances`, the two lemmas on what a clock does.

The proofs are laid out by action of `Sequencer`; each of the nine conjuncts of `Inv` has a
lemma that says which of the three kinds of clock (`Stays`, `Advances`, `Enters`) disturbs it.

The second part of `T80Proofs` adds, under the same assumption:

- `FetchInvariance`: `Spec => []FInv`
- `FetchMarked`: `Spec => []M1MarksFetch`
- `AddressInvariance`: `Spec => []AInv`
- `FetchesAtPC`: `Spec => []ReadsAtPC`

M1_n is a register, and `M1MarksFetch` says that it is low exactly in T1 and T2 of an M1 cycle.
It falls with the end of an instruction or after a displacement, so the proof has to show that an M1
cycle begins nowhere else, and that none ends before T2 has raised it:

- `CountSettled`, `CyclesCounted`: the number of machine cycles, which follows the opcode one
  clock late and may depend on `cc` and the prefix, is settled by the end of each cycle, and
  the cycle that runs is never past it. `MicrocodeAssumption` says of the ROM what this needs:
  no number falls below a cycle that has begun, nor where a displacement intervenes.
- `Displacing`, `IndexedOnce`: the displacement is fetched once per opcode, and there is a
  cycle to come back to; a DD CB opcode is the one that is fetched with it.
- `AckWaits`: the wait states of an acknowledge are over before T2, so that `TState` cannot
  stand still in T2 with M1_n already high.

`ReadsAtPC` looks two machine cycles at once: A is loaded at the end of one for the next, and
what the next one needs depends on the opcode. `AddressAssumption`, the last part of
`MicrocodeAssumption`, says of the ROM that a cycle leaves A at PC if the next one takes an
operand, or if it can be the last one of its instruction, be it by the count, because a block
instruction repeats no more or because DJNZ has reached zero. `AInv` says when the core has
this in its registers: `RoundsSettled` (No_BTR, one clock late, is right when a cycle ends),
`GoesOnElsewhere` (a displacement is followed by an access to memory, so that A may be left at
IX+d), and `AtPC`, which speaks of T1 and T2 and of the clocks in which the bus is away, when the
end of a cycle has loaded A and the next cycle has not begun.

The third part is the refinement, for every ROM that meets `ProgramAssumption` as well:

- `ArchInvariance`: `ArchSpec => []ArchInv`
- `CoreRunsProgram`: `ArchSpec => ImplementsZ80`

`ArchIsCore` says that the history only watches, so that `Inv`, `FInv` and `AInv` hold here too.
`ProgramAssumption` (in `T80Arch`) says what makes a ROM that of a Z80, opcode by opcode and
machine cycle by machine cycle, as far as the last cycle (`Reaches`): the operands are read
right after M1 (`OperandRule`), a branch that is taken jumps in the last cycle (`JumpRule`), PCH
and PCL go to DO one after the other, are written in the two cycles that follow, and nothing is
written after them (`PushRule`), a block instruction repeats in the cycle after its round
(`RepeatRule`), the flip-flops are touched by EI, DI, IM, HALT and RETN alone (`FlagRule`), a
displacement passes one byte or two (`IndexRule`, `DisplacementRule`), and a response to NMI or
INT pushes PC in three cycles and jumps in the last (`ResponseRule`). TLC evaluates it for
`T80MCode` in `t80_inputs` and `t80_every`.

A step of `Z80` is some twenty clocks, any of which can be repeated by a wait state or followed
by a grant, and nothing but `seen` and the registers remembers where it began. `ArchInv` says
what each register is, given the opcode in IR (`This`), what the last boundary showed (`seen`)
and the machine cycle:

- `DataKnown`: PC as a distance from `seen.pc`, in the first two T states of cycle `k`
  (`EarlyPC`), after T2 (`LatePC`), and while the bus is away at the end (`EndPC`); what the
  halves of the return address have become (`OutData`, `OnStack`); BTR_r (`Round`), which takes
  PC back in the cycle after it is set.
- `FlowKnown`: no cycle begins after the last one, so that the rules of the ROM apply, and an
  (IX+d) operand has had its displacement, once, by M2.
- `OpcodeKnown`: the opcode is one that may follow the prefix, or what an interrupt or HALT puts
  in its place (`Fits`); DD CB has its last byte from T2 of cycle 7.
- `ResponseKnown`, `HaltKnown`, `AtBoundary`, `FlagsKnown`: when the flip-flops and the mode are
  those that the boundary showed, and when the opcode has acted on them. The three differences
  of timing in the mapping are here: until T2 of the next M1, IR still holds EI; Halt_FF is
  behind `seen.halted` for a clock when an interrupt wakes the core, and ahead of it while the
  bus is away at the end of HALT; RETN restores IFF1 in T2 of its last cycle.
- `IOWaits`: the automatic wait state of an I/O cycle is over by T2, so that T2 moves PC once.

`ClockShape` sorts the clocks by what they do to the data path: nothing (`Quiet`), T2 of M1
(`Takes`), T2 of another cycle (`Moves`), the last T state (`Ends`). `Takes` is Fetch of `Z80`,
or a stutter where the core puts in an opcode of its own; `Moves` is Fetch when it reads the
last byte of DD CB; `Ends` is Execute, ExecutePrefix, Idle or Respond when the instruction is
over (`ProgramExecutes`, `ProgramResponds`) and a stutter when it goes on, by a displacement,
back from one, to the next cycle, or to where the bus is given away (one lemma for each). That
PC is where `Z80` has it is arithmetic modulo `PCSpan`, with `ModPlus` in place of what the solver
does not know of `%`.

`T80aProofs` proves, for every instance of the core, with whatever the four inputs do:

- `BusRunsCore`: `SpecBus => Spec`; so everything above holds of the core in the wrapper
- `BusInvariance`: `SpecBus => [](Inv /\ FInv /\ BInv)`
- `BusTypeCorrect`, `TransfersAreExclusive`, `GrantsAreQuiet`, `WritesAreValid`,
  `OpcodesAreRead`, `BytesAreRead`, `AcknowledgesInTime`: the invariants of `t80a_bus`
- `BytesAreHeld`, `AddressIsStable`: its two action properties

Two assumptions on the ROM come with it, evaluated by TLC on every run of the wrapper.
`StrobeAssumption`: an opcode fetch and a displacement are plain reads of memory, no block
instruction repeats in its first cycle, and a relative jump comes right after the cycle that
has read its operand. `AnswerAssumption`: what an INT is answered with has more than one machine cycle.
The second was found by the proof, at `IORQ_int_inhibit`: the two clocks by which the
wrapper delays IORQ_n in an acknowledge are counted by a shift register that is set up again
only in a cycle that is no acknowledge (T80a.vhd:317). After an answer of one cycle, say
`LD r,r`, an INT that is taken at once finds it run down, and IORQ_n falls too early; TLC shows
it with `IntAckOps = {"LDrr"}`. What is put on the bus in IM 0 is an RST or a CALL in practice.

The properties speak of pins; none is inductive, as a strobe is made of flip-flops of both
edges. `BInv` says where each flip-flop is: `FallState` and `RiseState` give the value of each,
after a falling and a rising edge, from MCycle, TState and what the machine cycle asks for;
`Requested` that the strobes of T1 are those of T2 and T3, which needs that On(..), a function
of IR, `cc`, `ISet` and the cycle, does not change between (that is `Inv` and `FInv` of the
core); `AtRest` that all is quiet from the end of the cycle in which the bus is granted until
the core has it back; `AskedFor` and `Latched` follow the byte from the device into both
latches; `InhibitCounts` and `InhibitReady` are the shift register.

`T16450Proofs` is about the UART in loopback, for every set of formats and all words:

- `TxInvariance`: `SpecUART => []TxInv`; `TransmitterIsSender`: `SpecUART => Sender!Spec`, the
  safety part of `ImplementsSender`: a bit leaves only as the next one of the word's frame, and
  no word is dropped or doubled between THR and the shift register. Parity over the
  bits that have been sent (TX_Parity) and over those to come add up (`OnesTail`).
- and for `Divisor >= 2`: `TimingInvariance`, `TxTypeCorrect`, `BitsInTime` (`BitTiming`),
  `LoopbackInvariance`, `WordsAreEchoed` (`EchoIntact`), `FlightIsBounded` (`InFlightBound`).

The hypothesis on the divisor is needed (see [bounds](#bounds)); `sim/test.c:27` programs 10.
`BitTiming` needs `Enabling` and `Counting`: TX_Tick, a register, is seen by the state machine
one clock late but never one enable late, and TX_Cnt knows how much of a bit is over. `Following`
ties the two halves: the receiver's count is five or six enables ahead of the end
of the bit on the line (`Tracking`; the filter takes two enables, the start bit is confirmed at
its middle, and the sixth is lost after a long stop bit), the bits it has sampled are the last
ones the transmitter has shifted out (`Tallies`), and the words in flight are at most the one
being shifted and the one in THR (`Delivery`).

`T16450PeerProofs` is about the receiver on the line of a peer, for every format, word, divisor
and phase of the peer, and a processor that polls at any time. `Tolerated` is the
hypothesis of the theorems: the start bit lasts 11 to 23 enables in place of 16, noise 6 at most.

- `HearingInvariance`: `Hearing`
- `RxTypeCorrect`, `FramesAreHeard`, `WordsAreReady`, `WordsAreReturned`, `ErrorsAreOfTheLine`:
  all properties of `uart_rx`

Both bounds are sharp: with 10, 24 or 7 TLC finds `FramesHeard` violated. So the edges of a
frame may come 5 enables early or 7 late, no more. `Hearing` says, for the number of the bit
that is on the line and the enables since it began, what the filter, the phase counter and
the bit counter are; with noise, that the counter was started and will not confirm.

`OledCtrlProofs` is about the controller of the display, for every width of a word up to the
16 bits that `spi_dcnt` can count, every list that fits its 2^(W+1) addresses, every pair of
dividers, and refreshes and resets at any clock:

- `Invariant`: `Spec => []IInv`
- `PlaysList`: `Spec => Display!Spec`, the safety part of `ImplementsList`
- `SteadyLines`: `Spec => MosiSteady`

Seen from the display a word is the work of both state machines and of a memory a clock behind
its address, so the invariant has four parts. `SpiInv`: `spi_clk_delay` is over whenever a bit
is on the line. `CtrlInv`: the memory has caught up with `init_cnt` by the time a word ends,
the size is in `init_len` while the display is under reset, and the last word is under way
when `read_last` begins, so that its stale `last_state` sends nothing (lists of one word
are excluded by `SizesAssumption` for this reason: the first word would be skipped). `ShiftInv`:
what the display has of a word and what is in `spi_dreg` are the two halves of the word,
shifted so far (`Halves`). `ListInv`: the display has the words that were taken, but for the
one under way. `ShiftCases` reduces a clock of the shifter to five cases, from which the rest
is proved. `PowersAssumption` states the one fact about powers that the provers do not know.

`CpmFsProofs` proves, for every disk format, set of names and lengths that meet
`FormatAssumption`, with or without `-t`, and with any number of crashes:

- `Invariant`: `Spec => []IInv`
- `TypeCorrect`: `Spec => []TypeOK`
- `OneOwner`: `Spec => []BlocksOwned`
- `KeepsData`: `Spec => DataKept`

`FormatAssumption` asks for positive lengths and counts and for a disk that holds its
directory, and for no relation between the lengths: none of the four facts depends on how a
position becomes an extent number. `BlocksOwned` is not inductive. While a tool saves its
directory the disk has a part of the old directory and a part of the new one, and a block
could be in both parts. What excludes it is that no tool both frees blocks and hands them
out: `Agreement` says, tool by tool, how the directory in core differs from the one on the
disk. cpmcp only adds to it, in entries that the disk has free; cpmrm only takes from it;
cpmchattr leaves the pointers alone; fsck.cpm never saves. Then any mixture of the two
directories is contained in one of them (`SyncBlockInv`). The other half is that the
allocation vector covers the directory in core while a block is chosen (`BlockFacts`), so that
a new block is in neither directory, and a block that is written again belongs to the file
that is being copied, which the disk does not show yet; `KeepsData` is the same argument for
the data. `InRange` keeps pointers out of the directory's own blocks. There is a lemma for
each action.

The fifth theorem depends on how a position becomes an extent number:

- `StaysClean`: `Aligned` implies `Spec => []FsckClean`

`Aligned` says that there is no `-t` and that a record divides a block, a block and a chunk of
cpmcp a logical extent, and a logical extent what an entry holds. The first is needed: with
`-t` the run `cpm_fsck` begins with a disk on which fsck.cpm finds a fault. The others hold of
the 128, 4096 and 16384 bytes in the code and of CP/M's block sizes and extent masks.
`CleanInv` adds to `IInv` that every entry in use is `Filled`: of the extents before its last
one it has all blocks, and of the last one as many as its records need; that a part of a file
has one entry (`Distinct`); and, for a file being copied (`Copying`), that the entry for the
part at `file.pos` has exactly the blocks of the units before `file.pos`, and that what was
handed to cpmWrite ends in the logical extent it began in. `EntryFilled` is the step of
cpmWrite; the arithmetic under it (`Position`, `Ceiling`, `RoundUp`) rests on the uniqueness of
quotient and remainder alone, since the solver does not reason about products of unknowns.

The last theorem is the refinement, with any number of crashes:

- `KeepsPromises`: `Spec => ImplementsStore`, if `Readable` and `RecordsDiffer`

`Readable` is `Aligned`, and that a sector divides a block: with `-t` a file may be read back
shorter than it was written (see the findings), so that the first promise fails. `RecordsDiffer`
says that what stands for no file, a constant, is not itself a file. Of the actions, `Creat`
maps to Create, `Write` to Write, `Unlink` to Erase, `AttrSet` to Protect, `SyncBlock` to
Flush and `Crash` to Crash (`CreatMaps`, `WriteMaps`...). The others stutter, `WriteFails` too: the
empty entry that cpmWrite has begun when it finds no block does not change what the file is.

The mapping reads every file back, from its entries and blocks, in core and on the disk. That a
step changes one file as promised, and no other, needs `StoreInv`:

- `CopyInv`: the units before `file.pos` are in the blocks of the entries they belong to, the
  parts before that position are full, and the part there ends with it (`Copied`). `WritePass`
  is the step of cpmWrite. It looks at one unit of one entry, before and after, for
  each way in which `Part`, block and offset of the position move on.
- `FileAgreement`, file by file: what cpmcp adds comes after all that is in the directory, part
  after part, and belongs to files that the disk does not have (`New`, `Grown`); what cpmrm
  takes away, it takes away as a whole; cpmchattr leaves the lengths alone.
- `Synced`: cpmSync has written the blocks up to the one it has come to.

`SyncBlock` is the hard case: after any number of blocks of the directory, the disk shows a file
of which some entries are there and others not yet. `Beginning` proves that this is no file, or a
beginning of the new one, and that it only grows, from the order of the entries: cpmcp takes
the first free entry, so what is saved first are the parts that come first.

`SerialRpcProofs` is about the remote disk, for any number of calls and of errors:

- `Invariant`: `Spec => []IInv`, if `Forgiving`
- `TypeCorrect` and `DrivesAreHeld`: the invariants of `rpc`, if `Forgiving`
- `CallsAreKept`: `Spec => Calls!Spec`, the safety part of `ImplementsCalls`, if `Forgiving`

`Forgiving` is the hypothesis: the errors of the line are among those of the run `rpc`, with
any byte in place of the few it tries, and no drive is slower than the client is patient. Each
part of it is needed. `rpc_slow` is a drive that is too slow, and with any of the
errors that are left out (an ACK lost or garbled, a NAK of the client lost, a byte of an answer
lost, its STX or its length garbled) TLC finds a call performed that nobody waits for.

`DriveHeld` and the refinement are about four variables; what they need is what can be in
the bytes under way. A resent request follows the remains of the one before, and when a length or
an SOH was damaged, the server may take a packet to begin anywhere in them. `Phases` says, for
each state of the server, where the client is and what is on the line. The protocol is half
duplex: the client sends only when nothing is on its way to it, the server only when it has
read everything. While the server looks for a request (`Seeking`, `Reading`), there
may be remains in front of it, but no packet in them is ever complete without the request
(`Dead`), and the packet that the request completes is refused unless it is the request itself, and
is then the last there is (`Holds`). `Arrives` says what makes this so: five bytes damaged in
one place have an SOH beyond the first only where the length that follows it is too large for
the rest, and their last byte is not the CRC of any other two. `DeadRest`, `Begun` and
`Appended` are the three ways in which the bytes change: one is read, and a request is there,
or comes. When the server has replied (`Replying`, `Acknowledging`), what comes
is the ACK, perhaps with the next request behind it, or one byte that asks for the answer again.
`Counts` ties the drives to the calls: an OPEN that is not performed yet leaves the count below
the number of calls, and a CLOSE finds its drive counted. There is a lemma for each
action; `Refs` and `performed` change in one of them only, `Executes`, and `Phases` says that the
client then waits for the very call that the server holds.

Only model-checked: what cpmcp does with `-t`, beyond the first four facts about `CpmFs`;
and all liveness (fairness and ENABLED are outside what TLAPS proves):
`EchoArrives`, the fairness of `ImplementsSender`, `ImplementsList` and `ImplementsCalls`, the
properties of `t80_live`.

## What is not covered

- Register contents, the ALU, WZ, R and the flags: the programs of `sim/` (zexall and others)
  test them instruction by instruction, which is the right tool; the reset of SP, I and R too.
- Modes 1 to 3, the R800 multiplies, CEN, DIRSet, and the wrappers no build of this repository
  uses (`T80s`, `T80se`, `T80sed`, `T80pa`, `T80as`, `T8080se`, `GBse`).
- Metastability of asynchronous inputs, and delays: an edge samples a value.
- IER, IIR, MSR, break sending and rewriting LCR or the divisor under way.
- The rest of `soc_top.vhd` (address decoding, RAM), the shadow tracer and the scripts. The
  shadow tracer compares a chip, which is not in the repository, with the core.
- cpmtools: time stamps (DateStamper and CP/M 3), passwords, labels, users, cpmRename (which
  no tool calls), and the second phase of fsck.cpm, which changes nothing. The parsing of
  `diskdefs` is there only as the relations between the constants.
- LibDsk: the drivers, one for each format of image, are sequential translations of byte
  layouts, and so is the packing of parameters; a unit test is the right tool for them. The
  transports over fork and Win32 have no errors and no time-outs. XON/XOFF and RTS flow
  control of `rpctios.c` is left out.
- The assembler (`sim/zmac`) and the emulator (`sim/yaze-ag`), most of the C lines of the
  repository: sequential third-party programs that the simulations use as they are.

Most of what is modelled of the repository's own work is VHDL, so the share of C and script
lines that the map covers is small and says little.

Two hazards are in the models and have no property: the drive that the server keeps counting
(see the findings), and an edge of NMI_n on the very clock that
accepts the one before is lost (T80.vhd:1399). No document of the repository says otherwise.

## Plan

Order: what decides every instruction first, then what the pins show, then what the CPU
talks to, then the disks.

1. *(done)* `T80MCode`, `T80`, `Z80`, `T80Arch` and their runs; `T80Proofs`, the refinement
   included.
2. *(done)* `T80a`, for both wrappers.
3. *(done)* `T16450*` and `SerialSender`.
4. *(done)* `CpmFs`, `FileStore` and `CpmFsProofs`; `SerialRpc`, `RemoteCalls` and
   `SerialRpcProofs`.
5. *(done)* `OledCtrl`, `DisplayList`, `OledCtrlProofs`; the accesses of `soc_top.vhd` to the
   UART in `T16450` and `T16450Peer`; the theorems about the wrappers, the UART and the fetches.
6. `T16450` registers: IIR priority, MSR deltas and their clearing, break.

Of the properties of the passing runs all but liveness are theorems.
