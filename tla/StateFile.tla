------------------------------- MODULE StateFile -------------------------------
(***************************************************************************)
(* One YAML state file and the processes that change it.  Every            *)
(* "ravel-lite state" verb is a process of its own that reads the file,    *)
(* changes what it read and replaces the file by writing .<file>.tmp next  *)
(* to it and renaming that: read_* and write_* with atomic_write, the same *)
(* lines in every src/state/*/yaml_io.rs and in src/state/phase.rs.        *)
(*                                                                         *)
(* Files are inodes under two names: fs::write opens the one .tmp names    *)
(* and truncates it, or makes one, and writes through the handle whatever  *)
(* has become of the name since.  A content is the set of changes it       *)
(* holds; "whole" if it is one serialisation, neither empty nor the start  *)
(* of one with the rest of another.  A process may fail or die anywhere.   *)
(***************************************************************************)
CONSTANTS
  Verbs,       \* runs of ravel-lite state, each with one change of its own
  Concurrent   \* a run may start before another has ended

ASSUME ConcurrentAssumption == Concurrent \in BOOLEAN

First == "first"   \* the inode the file begins as
Inodes == Verbs \cup {First}
None == "none"
ASSUME NameAssumption == First \notin Verbs /\ None \notin Inodes

Content == [whole : BOOLEAN, holds : SUBSET Verbs]
Empty == [whole |-> FALSE, holds |-> {}]

VARIABLES
  inode,   \* the content of each inode
  file,    \* the inode of the file
  tmp,     \* the inode of .<file>.tmp, if there is one
  pc,      \* where each run is
  seen,    \* the changes it read
  handle   \* the inode it has open for writing

vars == <<inode, file, tmp, pc, seen, handle>>

Busy == {"seen", "open", "written"}

Init ==
  /\ inode = [n \in Inodes |-> IF n = First THEN [whole |-> TRUE, holds |-> {}] ELSE Empty]
  /\ file = First
  /\ tmp = None
  /\ pc = [v \in Verbs |-> "idle"]
  /\ seen = [v \in Verbs |-> {}]
  /\ handle = [v \in Verbs |-> None]

Goto(v, label) == pc' = [pc EXCEPT ![v] = label]

\* read_*: a content that is not whole does not parse.
Read(v) ==
  /\ pc[v] = "idle"
  /\ Concurrent \/ \A w \in Verbs : pc[w] \notin Busy
  /\ IF inode[file].whole
       THEN Goto(v, "seen") /\ seen' = [seen EXCEPT ![v] = inode[file].holds]
       ELSE Goto(v, "error") /\ UNCHANGED seen
  /\ UNCHANGED <<inode, file, tmp, handle>>

\* Mutant: the file itself is written, as write_phase does.
OpenInPlace(v) ==
  /\ pc[v] = "seen"
  /\ handle' = [handle EXCEPT ![v] = file]
  /\ tmp' = file
  /\ inode' = [inode EXCEPT ![file] = Empty]
  /\ Goto(v, "open")
  /\ UNCHANGED <<file, seen>>

\* fs::write opens the file .tmp, truncated; a left-over one is used again.
Open(v) ==
  /\ pc[v] = "seen"
  /\ LET n == IF tmp = None THEN v ELSE tmp
     IN  /\ tmp' = n
         /\ handle' = [handle EXCEPT ![v] = n]
         /\ inode' = [inode EXCEPT ![n] = Empty]
  /\ Goto(v, "open")
  /\ UNCHANGED <<file, seen>>

\* Mutant: the change is put into what the run started with.
WrittenAfresh(v) == {v}

\* What the run serialises.
Written(v) == seen[v] \cup {v}

\* ... and writes it.  Over another's text the longer one's end remains.
Write(v) ==
  /\ pc[v] = "open"
  /\ \E whole \in BOOLEAN :
       /\ inode[handle[v]] = Empty => whole
       /\ inode' = [inode EXCEPT ![handle[v]] = [whole |-> whole, holds |-> Written(v)]]
  /\ Goto(v, "written")
  /\ UNCHANGED <<file, tmp, seen, handle>>

\* A system call fails: .tmp may remain, written or not.
Fail(v) ==
  /\ pc[v] \in Busy
  /\ Goto(v, "error")
  /\ UNCHANGED <<inode, file, tmp, seen, handle>>

\* fs::rename takes whatever has the name .tmp by now.
Rename(v) ==
  /\ pc[v] = "written"
  /\ IF tmp = None
       THEN Goto(v, "error") /\ UNCHANGED <<file, tmp>>
       ELSE Goto(v, "ok") /\ file' = tmp /\ tmp' = None
  /\ UNCHANGED <<inode, seen, handle>>

\* The process is killed.
Die(v) ==
  /\ pc[v] \in Busy
  /\ Goto(v, "dead")
  /\ UNCHANGED <<inode, file, tmp, seen, handle>>

Next == \E v \in Verbs :
  Read(v) \/ Open(v) \/ Write(v) \/ Fail(v) \/ Rename(v) \/ Die(v)

Spec == Init /\ [][Next]_vars
-----------------------------------------------------------------------------
\* Names, handles and contents have their type.
TypeOK ==
  /\ inode \in [Inodes -> Content]
  /\ file \in Inodes
  /\ tmp \in Inodes \cup {None}
  /\ pc \in [Verbs -> Busy \cup {"idle", "ok", "error", "dead"}]
  /\ seen \in [Verbs -> SUBSET Verbs]
  /\ handle \in [Verbs -> Inodes \cup {None}]

\* A reader never sees a truncated file, whenever a writer is killed.
NeverTruncated == inode[file].whole

\* The file is the atomic one: a change is there from the rename on, and not
\* at all if the run failed or was killed.
Abstract == INSTANCE AtomicFile WITH
  value <- inode[file].holds,
  told <- [v \in Verbs |-> IF pc[v] = "ok" THEN "ok"
                           ELSE IF pc[v] \in {"error", "dead"} THEN "error" ELSE "pending"]
ImplementsAtomicFile == Abstract!Spec
===============================================================================
