------------------------------ MODULE FileStore ------------------------------
(***************************************************************************)
(* What the tools that change a CP/M disk promise: the files a tool sees,   *)
(* and those that are on the disk once it is done, or has been interrupted. *)
(***************************************************************************)
EXTENDS Naturals, Sequences, SequencesExt

CONSTANTS
  Names,
  Lengths,   \* how long the files are that are copied to the disk
  Absent

VARIABLES
  files,     \* what the tool that runs makes of the disk: name -> file or Absent
  saved,     \* what the next tool would find, if the disk were taken out now
  crashes    \* how many tools have been interrupted

storeVars == << files, saved, crashes >>

\* The first n units of the file of the given length that is copied to the name f.
Source(f, length, n) == [i \in 1..n |-> << f, length, i - 1 >>]

Init == files = [f \in Names |-> Absent] /\ saved = files /\ crashes = 0

\* What becomes of a file that a tool works on.
Create(old, new) == old = Absent /\ new = [data |-> << >>, ro |-> FALSE]

Write(f, old, new) ==
  /\ old # Absent /\ new # Absent
  /\ Len(old.data) < Len(new.data) /\ old.ro = new.ro
  /\ \E length \in Lengths :
       /\ Len(new.data) <= length
       /\ old.data = Source(f, length, Len(old.data))
       /\ new.data = Source(f, length, Len(new.data))

Erase(old, new) == old # Absent /\ new = Absent

Protect(old, new) == old # Absent /\ new # Absent /\ old.data = new.data

Change(f) ==
  /\ LET old == files[f]
         new == files'[f]
     IN Create(old, new) \/ Write(f, old, new) \/ Erase(old, new) \/ Protect(old, new)
  /\ \A g \in Names \ {f} : files'[g] = files[g]
  /\ UNCHANGED << saved, crashes >>

\* A part of the changes reaches the disk.  A file that is there as it should be stays so;
\* one that is being made has a beginning of what it should be; one that is being erased
\* may be anything.
Settle(goal, old, new) ==
  IF old = goal THEN new = old
  ELSE \/ goal = Absent
       \/ old = Absent /\ new = Absent
       \/ /\ new # Absent /\ IsPrefix(new.data, goal.data)
          /\ old # Absent => Len(old.data) <= Len(new.data)

Flush ==
  /\ \A f \in Names : Settle(files[f], saved[f], saved'[f])
  /\ UNCHANGED << files, crashes >>

Crash == crashes' = crashes + 1 /\ files' = saved /\ UNCHANGED saved

Next == (\E f \in Names : Change(f)) \/ Flush \/ Crash

Spec == Init /\ [][Next]_storeVars
===============================================================================
