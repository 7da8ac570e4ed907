------------------------------ MODULE PtySession ------------------------------
(***************************************************************************)
(* The interactive agent under "run --debug" (src/agent/pty_capture.rs):   *)
(* it runs under a pseudo-terminal, and three threads of the runner copy   *)
(* its output to the terminal and to the debug log, copy the keys to it,   *)
(* and forward window sizes, until it exits and they are joined.           *)
(***************************************************************************)
EXTENDS Integers, Sequences, SequencesExt

CONSTANTS
  PtyCapacity,   \* chunks the pseudo-terminal holds
  MaxChunks,     \* bound: chunks the child prints
  MaxKeys        \* bound: keys the user types

ASSUME PtyAssumption == PtyCapacity \in Nat \ {0} /\ MaxChunks \in Nat /\ MaxKeys \in Nat

VARIABLES
  session,    \* where run_pty_session is
  claude,     \* the child; what it started may keep the terminal's slave end
  master,     \* the output in the pseudo-terminal, numbered chunks
  transcript, screen,   \* the chunks in the debug log, and on the terminal
  cooked,     \* the user's terminal is not in raw mode
  tee,        \* the output thread, with the chunk it holds
  keys,       \* typed, read by the feeder, passed on to the child
  feeder, resizer,   \* the other threads
  shutdown,   \* the flag they poll
  printed     \* history

pty_vars == <<session, claude, master, transcript, screen, cooked, tee, keys, feeder, resizer,
              shutdown, printed>>

PtyStart(where, alive) ==
  /\ session = where
  /\ claude = [alive |-> alive, slave |-> FALSE]
  /\ master = <<>> /\ transcript = <<>> /\ screen = <<>>
  /\ cooked = TRUE
  /\ tee = [at |-> "none", chunk |-> 0]
  /\ keys = [typed |-> 0, fed |-> 0, swallowed |-> 0]
  /\ feeder = "none" /\ resizer = "none"
  /\ shutdown = FALSE
  /\ printed = 0

PtyIdle == PtyStart("idle", FALSE)

\* The child is spawned before the terminal is put into raw mode.
PtyInit == PtyStart("spawned", TRUE)

-----------------------------------------------------------------------------
(* The child and the user                                                  *)

ChildPrints ==
  /\ claude.alive /\ printed < MaxChunks
  /\ Len(master) < PtyCapacity
  /\ printed' = printed + 1
  /\ master' = Append(master, printed + 1)
  /\ UNCHANGED <<session, claude, transcript, screen, cooked, tee, keys, feeder, resizer, shutdown>>

\* A process the child starts has the slave end open, too.
KeepSlave ==
  /\ claude.alive /\ ~claude.slave
  /\ claude' = [claude EXCEPT !.slave = TRUE]
  /\ UNCHANGED <<session, master, transcript, screen, cooked, tee, keys, feeder, resizer, shutdown, printed>>

ChildExits ==
  /\ claude.alive
  /\ claude' = [claude EXCEPT !.alive = FALSE]
  /\ UNCHANGED <<session, master, transcript, screen, cooked, tee, keys, feeder, resizer, shutdown, printed>>

SlaveCloses ==
  /\ claude.slave
  /\ claude' = [claude EXCEPT !.slave = FALSE]
  /\ UNCHANGED <<session, master, transcript, screen, cooked, tee, keys, feeder, resizer, shutdown, printed>>

Type ==
  /\ keys.typed < MaxKeys
  /\ keys' = [keys EXCEPT !.typed = @ + 1]
  /\ UNCHANGED <<session, claude, master, transcript, screen, cooked, tee, feeder, resizer, shutdown, printed>>

-----------------------------------------------------------------------------
(* The runner and its threads                                              *)

\* RawModeGuard::enable, then the threads of drive_pty_io.
DrivePtyIo ==
  /\ session = "spawned"
  /\ session' = "waiting"
  /\ cooked' = FALSE
  /\ tee' = [at |-> "reading", chunk |-> 0]
  /\ feeder' = "polling" /\ resizer' = "polling"
  /\ UNCHANGED <<claude, master, transcript, screen, keys, shutdown, printed>>

\* Raw mode is refused: the error returns with the child still there.
EnableFails ==
  /\ session = "spawned"
  /\ session' = "failed"
  /\ UNCHANGED <<claude, master, transcript, screen, cooked, tee, keys, feeder, resizer, shutdown, printed>>

\* log_pty_chunk: one entry for what one read returned.
LogPtyChunk(chunk) == transcript' = Append(transcript, chunk)

\* tee_to: a chunk is logged, then written.
TeeRead ==
  /\ tee.at = "reading" /\ master # <<>>
  /\ tee' = [at |-> "writing", chunk |-> Head(master)]
  /\ master' = Tail(master)
  /\ LogPtyChunk(Head(master))
  /\ UNCHANGED <<session, claude, screen, cooked, keys, feeder, resizer, shutdown, printed>>

TeeWrite ==
  /\ tee.at = "writing"
  /\ tee' = [at |-> "reading", chunk |-> 0]
  /\ screen' = Append(screen, tee.chunk)
  /\ UNCHANGED <<session, claude, master, transcript, cooked, keys, feeder, resizer, shutdown, printed>>

\* The master's end of file: no slave end is open.
TeeEnds ==
  /\ tee.at = "reading" /\ master = <<>>
  /\ ~claude.alive /\ ~claude.slave
  /\ tee' = [at |-> "ended", chunk |-> 0]
  /\ UNCHANGED <<session, claude, master, transcript, screen, cooked, keys, feeder, resizer, shutdown, printed>>

\* pump_stdin_with_shutdown: the flag is looked at between two reads; the key
\* a child that is gone would have got is gone, too.
Feed ==
  /\ feeder = "polling"
  /\ keys.fed + keys.swallowed < keys.typed
  /\ keys' = IF claude.alive THEN [keys EXCEPT !.fed = @ + 1]
             ELSE [keys EXCEPT !.swallowed = @ + 1]
  /\ UNCHANGED <<session, claude, master, transcript, screen, cooked, tee, feeder, resizer, shutdown, printed>>

FeederEnds ==
  /\ feeder = "polling" /\ shutdown
  /\ feeder' = "ended"
  /\ UNCHANGED <<session, claude, master, transcript, screen, cooked, tee, keys, resizer, shutdown, printed>>

ResizerEnds ==
  /\ resizer = "polling" /\ shutdown
  /\ resizer' = "ended"
  /\ UNCHANGED <<session, claude, master, transcript, screen, cooked, tee, keys, feeder, shutdown, printed>>

\* Mutant: the flag is not set.
ChildWaitedQuietly ==
  /\ session = "waiting" /\ ~claude.alive
  /\ session' = "joining"
  /\ UNCHANGED <<claude, master, transcript, screen, cooked, tee, keys, feeder, resizer, shutdown, printed>>

ChildWaited ==
  /\ session = "waiting" /\ ~claude.alive
  /\ session' = "joining"
  /\ shutdown' = TRUE
  /\ UNCHANGED <<claude, master, transcript, screen, cooked, tee, keys, feeder, resizer, printed>>

\* Mutant: the thread that reads the keys is left to itself.
JoinedTwo ==
  /\ session = "joining"
  /\ tee.at = "ended" /\ resizer = "ended"
  /\ session' = "returned"
  /\ cooked' = TRUE
  /\ UNCHANGED <<claude, master, transcript, screen, tee, keys, feeder, resizer, shutdown, printed>>

\* All three are joined, then the guard is dropped.
Joined ==
  /\ session = "joining"
  /\ tee.at = "ended" /\ feeder = "ended" /\ resizer = "ended"
  /\ session' = "returned"
  /\ cooked' = TRUE
  /\ UNCHANGED <<claude, master, transcript, screen, tee, keys, feeder, resizer, shutdown, printed>>

TeeTo == TeeRead \/ TeeWrite \/ TeeEnds
PumpStdin == Feed \/ FeederEnds
RunPtySession == DrivePtyIo \/ EnableFails \/ ChildWaited \/ Joined

PtyNext ==
  /\ session # "idle"
  /\ \/ ChildPrints \/ KeepSlave \/ ChildExits \/ SlaveCloses \/ Type
     \/ TeeTo \/ PumpStdin \/ ResizerEnds \/ RunPtySession

PtySpec == PtyInit /\ [][PtyNext]_pty_vars

\* The threads go on while they can; the flag is polled every 100 ms, so the
\* feeder sees it.  The user ends the agent some time, and what it left ends.
PtyFairness ==
  /\ WF_pty_vars(TeeTo)
  /\ WF_pty_vars(FeederEnds)
  /\ WF_pty_vars(ResizerEnds)
  /\ WF_pty_vars((ChildWaited \/ Joined))
  /\ WF_pty_vars(ChildExits)
  /\ WF_pty_vars(~claude.alive /\ SlaveCloses)
-----------------------------------------------------------------------------
\* The log is never behind the terminal, which a hang is diagnosed by, and a
\* session that returned has shown everything; no thread of it is left that
\* would read the user's next answer, and the terminal is as it was.
SessionLeavesNothing ==
  /\ IsPrefix(screen, transcript) /\ Len(transcript) <= Len(screen) + 1
  /\ session = "returned" =>
       /\ Len(screen) = printed
       /\ cooked
       /\ "polling" \notin {tee.at, feeder, resizer}

\* A session that was started is left, once the agent is.
SessionEnds == (session = "waiting") ~> (session = "returned")
=============================================================================
