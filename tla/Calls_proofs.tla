----------------------------- MODULE Calls_proofs -----------------------------
(***************************************************************************)
(* The search for a cycle answers right on any graph of any size; a        *)
(* session under a pseudo-terminal of any capacity, with any output, has   *)
(* shown all of it and left no thread behind when it returns; and what a   *)
(* headless agent says, however much it is, reaches the user in full and   *)
(* in order, through pipes of any capacity.  That the search, the session  *)
(* and the agent's run end is left to TLC.                                 *)
(***************************************************************************)
EXTENDS MCCalls, TLAPS, WellFoundedInduction, SequenceTheorems

\* What is reached from an item is closed, and holds the item.
LEMMA ReachedIsClosed ==
  ASSUME NEW G \in Graph, NEW e \in Ids, NEW j \in Ids, NEW k \in G[j],
         Reaches(G, e, j)
  PROVE  Reaches(G, e, k)
BY DEF Reaches, Closed


\* What the search has met is reached; what it has marked, it has followed.
IInv ==
  /\ TypeOK
  /\ \A x \in stack \cup visited : Reaches(deps, from, x)
  /\ from \in stack \cup visited
  /\ \A v \in visited : deps[v] \subseteq stack \cup visited
  /\ to \notin visited
  /\ found = "yes" => Reaches(deps, from, to)
  /\ found = "no" => stack = {}

\* At the start only the first item is met.
LEMMA InitIInv == Init => IInv
<1> SUFFICES ASSUME Init PROVE IInv
    OBVIOUS
<1>1. TypeOK BY DEF Init, TypeOK
<1>2. Reaches(deps, from, from) BY DEF Reaches
<1> QED BY <1>1, <1>2 DEF Init, IInv

\* Every round of the search keeps what it knows.
LEMMA NextIInv == IInv /\ [Next]_vars => IInv'
<1> SUFFICES ASSUME IInv, [Next]_vars PROVE IInv'
    OBVIOUS
<1>1. CASE Exhausted BY <1>1 DEF Exhausted, IInv, TypeOK
<1>2. CASE UNCHANGED vars BY <1>2 DEF vars, IInv, TypeOK
<1>3. CASE Pop
  <2>1. PICK current \in stack :
          \/ current = to /\ found' = "yes" /\ UNCHANGED <<stack, visited>>
          \/ current # to /\ Visit(current) /\ UNCHANGED found
          \/ current # to /\ Skip(current) /\ UNCHANGED found
        BY <1>3 DEF Pop
  <2>2. UNCHANGED <<deps, from, to>> /\ found = "searching" BY <1>3 DEF Pop
  <2>3. current \in Ids /\ Reaches(deps, from, current) BY DEF IInv, TypeOK
  <2>4. CASE current = to /\ found' = "yes" /\ UNCHANGED <<stack, visited>>
        BY <2>2, <2>3, <2>4 DEF IInv, TypeOK
  <2>5. CASE current # to /\ Skip(current) /\ UNCHANGED found
        BY <2>2, <2>3, <2>5 DEF IInv, TypeOK, Skip
  <2>6. CASE current # to /\ Visit(current) /\ UNCHANGED found
    <3>1. \A k \in deps[current] : k \in Ids /\ Reaches(deps, from, k)
      <4>1. deps \in Graph /\ from \in Ids BY DEF IInv, TypeOK
      <4> QED BY <2>3, <4>1, ReachedIsClosed DEF Graph
    <3>2. /\ visited' = visited \cup {current}
          /\ stack' = (stack \ {current}) \cup deps[current]
          /\ found' = found /\ current # to
          BY <2>6 DEF Visit
    <3>3. TypeOK' BY <2>2, <2>3, <3>1, <3>2 DEF IInv, TypeOK
    <3>4. stack' \cup visited' = stack \cup visited \cup deps[current] BY <3>2
    <3>5. \A x \in stack' \cup visited' : Reaches(deps, from, x)
          BY <3>1, <3>4 DEF IInv
    <3>6. \A v \in visited' : deps[v] \subseteq stack' \cup visited'
          BY <3>2, <3>4 DEF IInv
    <3> QED BY <2>2, <3>2, <3>3, <3>4, <3>5, <3>6 DEF IInv
  <2> QED BY <2>1, <2>4, <2>5, <2>6
<1> QED BY <1>1, <1>2, <1>3 DEF Next

\* dependency_path_exists answers "yes" exactly if following dependencies from
\* "from" leads to "to", whatever cycles the graph has.
THEOREM SearchIsCorrect == Spec => []Correct
<1>1. IInv => Correct
  <2> SUFFICES ASSUME IInv, found = "no" PROVE ~Reaches(deps, from, to)
      BY DEF IInv, Correct
  <2>1. /\ visited \in SUBSET Ids /\ from \in visited /\ to \notin visited
        /\ \A v \in visited : deps[v] \subseteq visited
        BY DEF IInv, TypeOK
  <2> QED BY <2>1 DEF Reaches, Closed
<1> QED BY <1>1, InitIInv, NextIInv, PTL DEF Spec
-----------------------------------------------------------------------------
(* The session under a pseudo-terminal                                     *)

\* What was printed is in the log or still in the pseudo-terminal; the log is
\* ahead of the screen by the chunk the output thread holds; that thread ends
\* with nothing left to read and nobody left to print.
PtyInv ==
  /\ session \in {"spawned", "waiting", "joining", "returned", "failed"}
  /\ claude \in [alive : BOOLEAN, slave : BOOLEAN]
  /\ tee.at \in {"none", "reading", "writing", "ended"}
  /\ master \in Seq(Nat) /\ screen \in Seq(Nat) /\ transcript \in Seq(Nat) /\ printed \in Nat
  /\ printed = Len(transcript) + Len(master)
  /\ tee.at = "writing" => tee.chunk \in Nat /\ transcript = Append(screen, tee.chunk)
  /\ tee.at # "writing" => transcript = screen
  /\ tee.at = "ended" => master = <<>> /\ ~claude.alive /\ ~claude.slave
  /\ session = "spawned" => tee.at = "none"
  /\ session = "returned" => tee.at = "ended" /\ feeder = "ended" /\ resizer = "ended" /\ cooked

\* A session starts with nothing printed.
LEMMA PtyInitInv == PtyInit => PtyInv
BY DEF PtyInit, PtyStart, PtyInv

\* What the child and the user do keeps it.
LEMMA OutsidersKeepPty ==
  ASSUME PtyInv, ChildPrints \/ KeepSlave \/ ChildExits \/ SlaveCloses \/ Type
  PROVE  PtyInv'
<1>1. CASE ChildPrints
  <2>1. /\ printed' = printed + 1 /\ master' = Append(master, printed + 1)
        /\ claude.alive
        /\ UNCHANGED <<session, claude, transcript, screen, cooked, tee, feeder, resizer>>
    BY <1>1 DEF ChildPrints
  <2>2. master' \in Seq(Nat) /\ Len(master') = Len(master) + 1
    BY <2>1 DEF PtyInv
  <2> QED BY <2>1, <2>2 DEF PtyInv
<1>2. CASE KeepSlave
  <2>1. /\ claude.alive /\ claude' = [claude EXCEPT !.slave = TRUE]
        /\ UNCHANGED <<session, master, transcript, screen, cooked, tee, feeder, resizer, printed>>
    BY <1>2 DEF KeepSlave
  <2> QED BY <2>1 DEF PtyInv
<1>3. CASE ChildExits BY <1>3 DEF ChildExits, PtyInv
<1>4. CASE SlaveCloses BY <1>4 DEF SlaveCloses, PtyInv
<1>5. CASE Type BY <1>5 DEF Type, PtyInv
<1> QED BY <1>1, <1>2, <1>3, <1>4, <1>5

\* What the threads do keeps it.
LEMMA ThreadsKeepPty ==
  ASSUME PtyInv, TeeTo \/ PumpStdin \/ ResizerEnds
  PROVE  PtyInv'
<1>1. CASE TeeRead
  <2>1. /\ tee.at = "reading" /\ master # <<>>
        /\ tee' = [at |-> "writing", chunk |-> Head(master)]
        /\ master' = Tail(master) /\ transcript' = Append(transcript, Head(master))
        /\ UNCHANGED <<session, claude, screen, cooked, feeder, resizer, printed>>
    BY <1>1 DEF TeeRead, LogPtyChunk
  <2>2. /\ Head(master) \in Nat /\ master' \in Seq(Nat) /\ Len(master') = Len(master) - 1
        /\ transcript' \in Seq(Nat) /\ Len(transcript') = Len(transcript) + 1
    BY <2>1 DEF PtyInv
  <2>3. session # "returned" /\ session # "spawned" BY <2>1 DEF PtyInv
  <2> QED BY <2>1, <2>2, <2>3 DEF PtyInv
<1>2. CASE TeeWrite
  <2>1. /\ tee.at = "writing" /\ tee' = [at |-> "reading", chunk |-> 0]
        /\ screen' = Append(screen, tee.chunk)
        /\ UNCHANGED <<session, claude, master, transcript, cooked, feeder, resizer, printed>>
    BY <1>2 DEF TeeWrite
  <2> QED BY <2>1 DEF PtyInv
<1>3. CASE TeeEnds BY <1>3 DEF TeeEnds, PtyInv
<1>4. CASE PumpStdin
  <2>1. UNCHANGED <<session, claude, master, transcript, screen, cooked, tee, resizer, printed>>
    BY <1>4 DEF PumpStdin, Feed, FeederEnds
  <2>2. feeder' = feeder \/ feeder' = "ended"
    BY <1>4 DEF PumpStdin, Feed, FeederEnds
  <2> QED BY <2>1, <2>2 DEF PtyInv
<1>5. CASE ResizerEnds BY <1>5 DEF ResizerEnds, PtyInv
<1> QED BY <1>1, <1>2, <1>3, <1>4, <1>5 DEF TeeTo

\* What run_pty_session does keeps it.
LEMMA RunnerKeepsPty ==
  ASSUME PtyInv, RunPtySession
  PROVE  PtyInv'
<1>1. CASE DrivePtyIo
  <2>1. /\ session = "spawned" /\ session' = "waiting"
        /\ tee' = [at |-> "reading", chunk |-> 0]
        /\ UNCHANGED <<claude, master, transcript, screen, printed>>
    BY <1>1 DEF DrivePtyIo
  <2> QED BY <2>1 DEF PtyInv
<1>2. CASE EnableFails BY <1>2 DEF EnableFails, PtyInv
<1>3. CASE ChildWaited BY <1>3 DEF ChildWaited, PtyInv
<1>4. CASE Joined BY <1>4 DEF Joined, PtyInv
<1> QED BY <1>1, <1>2, <1>3, <1>4 DEF RunPtySession

\* A sequence is a prefix of itself and of what is appended to it.
LEMMA PrefixOfAppended ==
  ASSUME NEW s \in Seq(Nat), NEW c \in Nat
  PROVE  IsPrefix(s, s) /\ IsPrefix(s, Append(s, c)) /\ Len(Append(s, c)) = Len(s) + 1
<1>1. SubSeq(s, 1, Len(s)) = s
  <2>1. SubSeq(s, 1, Len(s)) \in Seq(Nat) /\ Len(SubSeq(s, 1, Len(s))) = Len(s)
    OBVIOUS
  <2>2. \A i \in 1..Len(s) : SubSeq(s, 1, Len(s))[i] = s[i]
    OBVIOUS
  <2> QED BY <2>1, <2>2
<1>2. SubSeq(Append(s, c), 1, Len(s)) = s
  <2> DEFINE t == Append(s, c)
  <2>1. t \in Seq(Nat) /\ Len(t) = Len(s) + 1 /\ \A i \in 1..Len(s) : t[i] = s[i]
    OBVIOUS
  <2> HIDE DEF t
  <2>2. SubSeq(t, 1, Len(s)) \in Seq(Nat) /\ Len(SubSeq(t, 1, Len(s))) = Len(s)
    BY <2>1
  <2>3. \A i \in 1..Len(s) : SubSeq(t, 1, Len(s))[i] = s[i]
    BY <2>1
  <2> QED BY <2>2, <2>3 DEF t
<1> QED BY <1>1, <1>2 DEF IsPrefix

\* The invariant says what the property says.
LEMMA PtyInvSuffices == PtyInv => SessionLeavesNothing
<1> SUFFICES ASSUME PtyInv PROVE SessionLeavesNothing
    OBVIOUS
<1>1. IsPrefix(screen, transcript) /\ Len(transcript) <= Len(screen) + 1
  <2>1. CASE tee.at = "writing"
    <3>1. tee.chunk \in Nat /\ transcript = Append(screen, tee.chunk) /\ screen \in Seq(Nat)
      BY <2>1 DEF PtyInv
    <3>2. IsPrefix(screen, transcript) /\ Len(transcript) = Len(screen) + 1
      BY <3>1, PrefixOfAppended
    <3> QED BY <3>1, <3>2
  <2>2. CASE tee.at # "writing"
    <3>1. transcript = screen /\ screen \in Seq(Nat) BY <2>2 DEF PtyInv
    <3> QED BY <3>1, PrefixOfAppended
  <2> QED BY <2>1, <2>2
<1>2. ASSUME session = "returned"
      PROVE  Len(screen) = printed /\ cooked /\ "polling" \notin {tee.at, feeder, resizer}
  BY <1>2 DEF PtyInv
<1> QED BY <1>1, <1>2 DEF SessionLeavesNothing

\* Whatever the agent prints under "run --debug", and however the three threads
\* take turns: the log is never behind the terminal, and a session that
\* returned has shown everything and left no thread and no raw mode behind
\* (agent/pty_capture.rs).
THEOREM SessionsLeaveNothing == PtySpec => []SessionLeavesNothing
<1>1. PtyInv /\ [PtyNext]_pty_vars => PtyInv'
  <2> SUFFICES ASSUME PtyInv, [PtyNext]_pty_vars PROVE PtyInv'
      OBVIOUS
  <2>1. CASE UNCHANGED pty_vars BY <2>1 DEF pty_vars, PtyInv
  <2>2. CASE PtyNext
    BY <2>2, OutsidersKeepPty, ThreadsKeepPty, RunnerKeepsPty DEF PtyNext
  <2> QED BY <2>1, <2>2
<1> QED BY <1>1, PtyInitInv, PtyInvSuffices, PTL DEF PtySpec

-----------------------------------------------------------------------------
(* Folds.  What FoldLeft computes is the end of a chain of values, one for *)
(* each element of the sequence.                                           *)

\* A set of numbers with 0 and, with each number, the next has them all.
LEMMA EveryNumber ==
  ASSUME NEW T \in SUBSET Nat, 0 \in T, \A n \in T : n + 1 \in T
  PROVE  T = Nat
<1> SUFFICES ASSUME Nat \ T # {} PROVE FALSE
    OBVIOUS
<1> DEFINE Lt == {ss \in Nat \X Nat : ss[1] < ss[2]}
<1>1. IsWellFoundedOn(Lt, Nat) BY NatLessThanWellFounded DEF OpToRel
<1>2. PICK n \in Nat \ T : \A m \in Nat \ T : <<m, n>> \notin Lt
  <2> HIDE DEF Lt
  <2> QED BY <1>1, WFMin
<1>3. \A m \in Nat \ T : ~(m < n) BY <1>2
<1>4. n - 1 \in Nat /\ n - 1 \in T BY <1>3
<1> QED BY <1>4

\* Max is the greatest number of a set, if it has one.
LEMMA MaxIs ==
  ASSUME NEW s \in SUBSET Nat, NEW m \in s, \A y \in s : y <= m
  PROVE  Max(s) = m
<1>1. \E x \in s : \A y \in s : x >= y OBVIOUS
<1>2. Max(s) \in s /\ \A y \in s : Max(s) >= y
  <2> DEFINE c == CHOOSE x : x \in s /\ \A y \in s : x >= y
  <2>1. \E x : x \in s /\ \A y \in s : x >= y BY <1>1
  <2>2. c \in s /\ \A y \in s : c >= y BY <2>1, Zenon
  <2>3. Max(s) = c BY DEF Max
  <2> HIDE DEF c
  <2> QED BY <2>2, <2>3
<1>3. Max(s) \in Nat /\ Max(s) <= m /\ Max(s) >= m BY <1>2
<1> QED BY <1>3

\* A set of numbers up to n that is not empty has a greatest one.
LEMMA GreatestOf ==
  ASSUME NEW n \in Nat, NEW s \in SUBSET (1..n), s # {}
  PROVE  \E m \in s : \A y \in s : y <= m
<1> DEFINE Lt == {ss \in Nat \X Nat : ss[1] < ss[2]}
           gaps == {n - k : k \in s}
<1>1. IsWellFoundedOn(Lt, Nat) BY NatLessThanWellFounded DEF OpToRel
<1>2. gaps \in SUBSET Nat /\ gaps # {}
  <2>1. \A k \in 1..n : n - k \in Nat OBVIOUS
  <2>2. gaps \in SUBSET Nat BY <2>1
  <2> QED BY <2>2
<1>3. PICK g \in gaps : \A y \in gaps : <<y, g>> \notin Lt
  <2> HIDE DEF Lt, gaps
  <2> QED BY <1>1, <1>2, WFMin
<1>4. PICK m \in s : g = n - m OBVIOUS
<1>5. \A y \in s : y <= m
  <2> SUFFICES ASSUME NEW y \in s, y > m PROVE FALSE
      OBVIOUS
  <2>1. n - y \in gaps /\ n - y < n - m /\ n - m \in Nat /\ n - y \in Nat OBVIOUS
  <2> QED BY <1>3, <1>4, <2>1
<1> QED BY <1>5

LEMMA MaxWithin ==
  ASSUME NEW n \in Nat, NEW s \in SUBSET (1..n), s # {}
  PROVE  Max(s) \in 1..n
<1>1. PICK m \in s : \A y \in s : y <= m BY GreatestOf
<1>2. Max(s) = m BY <1>1, MaxIs
<1> QED BY <1>2

\* The function that a fold is defined by, for a step G on values of V.
Folds(iter, base, n, G) ==
  iter = [s \in SUBSET (1..n) |->
            IF s = {} THEN base ELSE G[<<iter[s \ {Max(s)}], Max(s)>>]]

\* There is one, and its values are values of V.
LEMMA FoldExists ==
  ASSUME NEW V, NEW base \in V, NEW n \in Nat, NEW G \in [V \X (1..n) -> V]
  PROVE  \E iter \in [SUBSET (1..n) -> V] : Folds(iter, base, n, G)
<1> DEFINE Has(k) == \E iter \in [SUBSET (1..k) -> V] : Folds(iter, base, k, G)
           T == {k \in Nat : k <= n => Has(k)}
<1>1. 0 \in T
  <2> DEFINE iter == [s \in SUBSET (1..0) |-> base]
  <2>1. SUBSET (1..0) = {{}} OBVIOUS
  <2>2. iter \in [SUBSET (1..0) -> V] /\ Folds(iter, base, 0, G) BY <2>1 DEF Folds
  <2> QED BY <2>2
<1>2. ASSUME NEW k \in T PROVE k + 1 \in T
  <2> SUFFICES ASSUME k + 1 <= n PROVE Has(k + 1)
    <3> HIDE DEF Has
    <3> QED OBVIOUS
  <2>1. k \in Nat /\ k <= n /\ Has(k)
    <3> HIDE DEF Has
    <3> QED OBVIOUS
  <2>2. PICK old \in [SUBSET (1..k) -> V] : Folds(old, base, k, G) BY <2>1
  <2> DEFINE new == [s \in SUBSET (1..(k + 1)) |->
                       IF k + 1 \in s THEN G[<<old[s \ {k + 1}], k + 1>>] ELSE old[s]]
  <2>3. \A s \in SUBSET (1..k) : old[s] = IF s = {} THEN base ELSE G[<<old[s \ {Max(s)}], Max(s)>>]
    BY <2>2 DEF Folds
  <2>4. ASSUME NEW s \in SUBSET (1..(k + 1))
        PROVE  new[s] = IF s = {} THEN base ELSE G[<<new[s \ {Max(s)}], Max(s)>>]
    <3>1. CASE k + 1 \in s
      <4>1. Max(s) = k + 1 BY <2>1, <3>1, MaxIs
      <4>2. s \ {k + 1} \in SUBSET (1..(k + 1)) /\ k + 1 \notin s \ {k + 1} OBVIOUS
      <4>3. new[s \ {k + 1}] = old[s \ {k + 1}] BY <4>2
      <4> QED BY <3>1, <4>1, <4>3
    <3>2. CASE k + 1 \notin s
      <4>1. s \in SUBSET (1..k) BY <2>1, <3>2
      <4>2. new[s] = old[s] BY <3>2
      <4>3. new[s \ {Max(s)}] = old[s \ {Max(s)}] BY <3>2
      <4> QED BY <2>3, <4>1, <4>2, <4>3
    <3> QED BY <3>1, <3>2
  <2>5. ASSUME NEW s \in SUBSET (1..(k + 1)) PROVE new[s] \in V
    <3>1. CASE k + 1 \in s
      <4>1. s \ {k + 1} \in SUBSET (1..k) BY <2>1
      <4>2. <<old[s \ {k + 1}], k + 1>> \in V \X (1..n) BY <2>1, <2>2, <4>1
      <4> QED BY <3>1, <4>2
    <3>2. CASE k + 1 \notin s
      <4>1. s \in SUBSET (1..k) BY <2>1, <3>2
      <4> QED BY <2>2, <3>2, <4>1
    <3> QED BY <3>1, <3>2
  <2>6. new \in [SUBSET (1..(k + 1)) -> V] BY <2>5
  <2>7. Folds(new, base, k + 1, G)
    <3> DEFINE step(s) == IF s = {} THEN base ELSE G[<<new[s \ {Max(s)}], Max(s)>>]
    <3>1. \A s \in SUBSET (1..(k + 1)) : new[s] = step(s) BY <2>4
    <3>2. DOMAIN new = SUBSET (1..(k + 1)) BY <2>6
    <3>3. new = [s \in SUBSET (1..(k + 1)) |-> new[s]] BY <2>6
    <3> HIDE DEF new, step
    <3>4. [s \in SUBSET (1..(k + 1)) |-> new[s]] = [s \in SUBSET (1..(k + 1)) |-> step(s)] BY <3>1
    <3> QED BY <3>3, <3>4 DEF step, Folds
  <2> QED BY <2>6, <2>7
<1>3. T = Nat
  <2>1. T \in SUBSET Nat OBVIOUS
  <2> HIDE DEF T
  <2> QED BY <1>1, <1>2, <2>1, EveryNumber
<1>4. n <= n OBVIOUS
<1> QED BY <1>3, <1>4

\* A function that follows such a step on V, and the values it goes through.
Follows(iter, base, V, n, G) ==
  /\ iter[{}] = base
  /\ \A s \in SUBSET (1..n) : s # {} /\ iter[s \ {Max(s)}] \in V
                                 => iter[s] = G[<<iter[s \ {Max(s)}], Max(s)>>]

Chain(h, base, V, n, G) ==
  h \in [0..n -> V] /\ h[0] = base /\ \A k \in 1..n : h[k] = G[<<h[k - 1], k>>]

ChainOf(iter, n) == [k \in 0..n |-> iter[1..k]]

\* What follows the step goes through a chain of values of V.
LEMMA FoldChain ==
  ASSUME NEW V, NEW base \in V, NEW n \in Nat, NEW G \in [V \X (1..n) -> V],
         NEW iter, Follows(iter, base, V, n, G)
  PROVE  Chain(ChainOf(iter, n), base, V, n, G)
<1> USE DEF Follows, Chain, ChainOf
<1> DEFINE T == {k \in Nat : k <= n => iter[1..k] \in V}
           h == [k \in 0..n |-> iter[1..k]]
<1>1. \A k \in 1..n : iter[1..(k - 1)] \in V => iter[1..k] = G[<<iter[1..(k - 1)], k>>]
  <2> SUFFICES ASSUME NEW k \in 1..n, iter[1..(k - 1)] \in V
               PROVE  iter[1..k] = G[<<iter[1..(k - 1)], k>>]
      OBVIOUS
  <2>1. Max(1..k) = k
    <3>1. 1..k \in SUBSET Nat /\ k \in 1..k /\ \A y \in 1..k : y <= k OBVIOUS
    <3> QED BY <3>1, MaxIs
  <2>2. (1..k) \ {k} = 1..(k - 1) OBVIOUS
  <2>3. 1..k \in SUBSET (1..n) /\ 1..k # {}
    <3>1. \A y \in 1..k : y \in 1..n OBVIOUS
    <3>2. k \in 1..k OBVIOUS
    <3> QED BY <3>1, <3>2
  <2> QED BY <2>1, <2>2, <2>3
<1>2. 0 \in T
  <2>1. 1..0 = {} OBVIOUS
  <2> QED BY <2>1
<1>3. ASSUME NEW k \in T PROVE k + 1 \in T
  <2> SUFFICES ASSUME k + 1 <= n PROVE iter[1..(k + 1)] \in V
      OBVIOUS
  <2>1. k \in Nat /\ iter[1..k] \in V /\ k + 1 \in 1..n /\ (k + 1) - 1 = k OBVIOUS
  <2>2. iter[1..(k + 1)] = G[<<iter[1..k], k + 1>>] BY <1>1, <2>1
  <2>3. <<iter[1..k], k + 1>> \in V \X (1..n) BY <2>1
  <2> QED BY <2>2, <2>3
<1>4. T = Nat
  <2>1. T \in SUBSET Nat OBVIOUS
  <2> HIDE DEF T
  <2> QED BY <1>2, <1>3, <2>1, EveryNumber
<1>5. \A k \in 0..n : iter[1..k] \in V BY <1>4
<1>6. h \in [0..n -> V] BY <1>5
<1>7. h[0] = base /\ h[n] = iter[1..n]
  <2>1. 1..0 = {} OBVIOUS
  <2> QED BY <2>1
<1>8. \A k \in 1..n : h[k] = G[<<h[k - 1], k>>]
  <2> SUFFICES ASSUME NEW k \in 1..n PROVE h[k] = G[<<h[k - 1], k>>]
      OBVIOUS
  <2>1. k \in 0..n /\ k - 1 \in 0..n OBVIOUS
  <2>2. h[k] = iter[1..k] /\ h[k - 1] = iter[1..(k - 1)] BY <2>1
  <2> HIDE DEF h
  <2> QED BY <1>1, <1>5, <2>1, <2>2
<1> QED BY <1>6, <1>7, <1>8

\* Two chains of the same steps have the same values.
Stepped(a, n, G) == \A k \in 1..n : a[k] = G[<<a[k - 1], k>>]

LEMMA ChainsAgree ==
  ASSUME NEW n \in Nat, NEW G, NEW a, NEW b, a[0] = b[0], Stepped(a, n, G), Stepped(b, n, G)
  PROVE  a[n] = b[n]
<1> USE DEF Stepped
<1> DEFINE T == {k \in Nat : k <= n => a[k] = b[k]}
<1>1. 0 \in T OBVIOUS
<1>2. ASSUME NEW k \in T PROVE k + 1 \in T
  <2> SUFFICES ASSUME k + 1 <= n PROVE a[k + 1] = b[k + 1]
      OBVIOUS
  <2>1. k + 1 \in 1..n /\ (k + 1) - 1 = k /\ a[k] = b[k] OBVIOUS
  <2> QED BY <2>1
<1>3. T = Nat
  <2>1. T \in SUBSET Nat OBVIOUS
  <2> HIDE DEF T
  <2> QED BY <1>1, <1>2, <2>1, EveryNumber
<1> QED BY <1>3

-----------------------------------------------------------------------------
(* What is left of a sequence.                                             *)

\* The chain of Without.
Leaves(h, s, S, D) ==
  /\ h \in [0..Len(s) -> Seq(D)]
  /\ h[0] = <<>> /\ h[Len(s)] = Without(s, S)
  /\ \A k \in 1..Len(s) : h[k] = IF s[k] \in S THEN h[k - 1] ELSE Append(h[k - 1], s[k])

LEMMA WithoutChain ==
  ASSUME NEW D, NEW s \in Seq(D), NEW S
  PROVE  \E h : Leaves(h, s, S, D)
<1> DEFINE n == Len(s)
           V == Seq(D)
           step(v, k) == IF s[k] \in S THEN v ELSE Append(v, s[k])
           G == [p \in V \X (1..n) |-> step(p[1], p[2])]
           Iter(iter) == iter = [x \in SUBSET DOMAIN s |->
                                   IF x = {} THEN <<>> ELSE step(iter[x \ {Max(x)}], Max(x))]
           F == CHOOSE iter : Iter(iter)
<1>1. DOMAIN s = 1..n /\ n \in Nat OBVIOUS
<1>2. Without(s, S) = F[DOMAIN s] BY DEF Without, FoldLeft, MapThenFoldSet
<1>3. \A v \in V, k \in 1..n : step(v, k) \in V OBVIOUS
<1>4. G \in [V \X (1..n) -> V] /\ \A v \in V, k \in 1..n : G[<<v, k>>] = step(v, k)
  <2> HIDE DEF V, step, n
  <2> QED BY <1>3
<1>5. \E iter : Iter(iter)
  <2>1. <<>> \in V OBVIOUS
  <2> HIDE DEF V, G, n
  <2>2. PICK iter \in [SUBSET (1..n) -> V] : Folds(iter, <<>>, n, G)
    BY <1>1, <1>4, <2>1, FoldExists
  <2> HIDE DEF step
  <2>3. ASSUME NEW x \in SUBSET (1..n), x # {}
        PROVE  G[<<iter[x \ {Max(x)}], Max(x)>>] = step(iter[x \ {Max(x)}], Max(x))
    <3>1. Max(x) \in 1..n BY <1>1, <2>3, MaxWithin
    <3>2. iter[x \ {Max(x)}] \in V BY <2>2
    <3> QED BY <1>4, <3>1, <3>2
  <2>4. Iter(iter) BY <1>1, <2>2, <2>3 DEF Folds
  <2> QED BY <2>4
<1>6. Iter(F) BY <1>5, Zenon
<1> HIDE DEF F
<1>7. F[{}] = <<>> BY <1>6
<1>8. \A x \in SUBSET (1..n) :
        x # {} /\ F[x \ {Max(x)}] \in V => F[x] = G[<<F[x \ {Max(x)}], Max(x)>>]
  <2> SUFFICES ASSUME NEW x \in SUBSET (1..n), x # {}, F[x \ {Max(x)}] \in V
               PROVE  F[x] = G[<<F[x \ {Max(x)}], Max(x)>>]
      OBVIOUS
  <2>1. Max(x) \in 1..n BY <1>1, MaxWithin
  <2>2. F[x] = step(F[x \ {Max(x)}], Max(x)) BY <1>1, <1>6
  <2> HIDE DEF step, G, V, n
  <2> QED BY <1>4, <2>1, <2>2
<1>9. <<>> \in V OBVIOUS
<1> DEFINE h == ChainOf(F, n)
<1>10. h[n] = F[1..n] BY <1>1 DEF ChainOf
<1>11. Chain(h, <<>>, V, n, G)
  <2> HIDE DEF V, G, n
  <2>1. n \in Nat /\ G \in [V \X (1..n) -> V] BY <1>1, <1>4
  <2>2. Follows(F, <<>>, V, n, G) BY <1>7, <1>8 DEF Follows
  <2> QED BY <2>1, <2>2, <1>9, FoldChain
<1> HIDE DEF h
<1>12. h \in [0..n -> V] /\ h[0] = <<>> /\ \A k \in 1..n : h[k] = step(h[k - 1], k)
  <2> HIDE DEF V, G, n, step
  <2>1. h \in [0..n -> V] /\ h[0] = <<>> BY <1>11 DEF Chain
  <2> SUFFICES ASSUME NEW k \in 1..n PROVE h[k] = step(h[k - 1], k)
      BY <2>1
  <2>2. k - 1 \in 0..n BY <1>1
  <2>3. h[k - 1] \in V BY <2>1, <2>2
  <2> QED BY <1>4, <1>11, <2>3 DEF Chain
<1> QED BY <1>1, <1>2, <1>10, <1>12 DEF Leaves

\* One more element is left out or comes last.
LEMMA WithoutAppend ==
  ASSUME NEW D, NEW s \in Seq(D), NEW S, NEW e \in D
  PROVE  /\ Without(s, S) \in Seq(D)
         /\ Without(Append(s, e), S) = IF e \in S THEN Without(s, S) ELSE Append(Without(s, S), e)
<1>0. PICK n \in Nat : n = Len(s) OBVIOUS
<1> DEFINE t == Append(s, e)
           V == Seq(D)
           step(v, k) == IF t[k] \in S THEN v ELSE Append(v, t[k])
           G == [p \in V \X (1..(n + 1)) |-> step(p[1], p[2])]
<1>1. n \in Nat /\ t \in Seq(D) /\ Len(t) = n + 1 /\ t[n + 1] = e /\ \A k \in 1..n : t[k] = s[k]
  BY <1>0
<1>2. PICK a : Leaves(a, s, S, D) BY WithoutChain
<1>3. PICK b : Leaves(b, t, S, D)
  <2> HIDE DEF t
  <2> QED BY <1>1, WithoutChain
<1>a. /\ a \in [0..n -> V] /\ a[0] = <<>> /\ a[n] = Without(s, S)
      /\ \A k \in 1..n : a[k] = IF s[k] \in S THEN a[k - 1] ELSE Append(a[k - 1], s[k])
  BY <1>0, <1>2 DEF Leaves
<1>b. /\ b \in [0..(n + 1) -> V] /\ b[0] = <<>> /\ b[n + 1] = Without(t, S)
      /\ \A k \in 1..(n + 1) : b[k] = step(b[k - 1], k)
  <2> HIDE DEF t
  <2> QED BY <1>1, <1>3 DEF Leaves
<1>4. \A v \in V, k \in 1..(n + 1) : G[<<v, k>>] = step(v, k) OBVIOUS
<1>5. \A k \in 1..n : a[k] = G[<<a[k - 1], k>>] /\ b[k] = G[<<b[k - 1], k>>]
  <2> SUFFICES ASSUME NEW k \in 1..n PROVE a[k] = G[<<a[k - 1], k>>] /\ b[k] = G[<<b[k - 1], k>>]
      OBVIOUS
  <2>1. k - 1 \in 0..n /\ k - 1 \in 0..(n + 1) /\ k \in 1..(n + 1) BY <1>1
  <2>2. a[k - 1] \in V /\ b[k - 1] \in V BY <1>a, <1>b, <2>1
  <2>3. a[k] = step(a[k - 1], k) /\ b[k] = step(b[k - 1], k) BY <1>1, <1>a, <1>b, <2>1
  <2> HIDE DEF step, G, V, t
  <2> QED BY <1>4, <2>1, <2>2, <2>3
<1>6. a[n] = b[n]
  <2> HIDE DEF G, V, t
  <2>1. n \in Nat /\ a[0] = b[0] BY <1>1, <1>a, <1>b
  <2>2. Stepped(a, n, G) /\ Stepped(b, n, G) BY <1>5 DEF Stepped
  <2> QED BY <2>1, <2>2, ChainsAgree
<1>7. n + 1 \in 1..(n + 1) /\ (n + 1) - 1 = n BY <1>1
<1>8. b[n + 1] = IF e \in S THEN b[n] ELSE Append(b[n], e)
  <2> HIDE DEF t
  <2> QED BY <1>1, <1>b, <1>7
<1>9. n \in 0..n BY <1>1
<1>10. Without(s, S) \in V BY <1>a, <1>9
<1> QED BY <1>a, <1>b, <1>6, <1>8, <1>10

\* A sequence of one row.
LEMMA WithoutOne ==
  ASSUME NEW S, NEW e \in S
  PROVE  Without(<<>>, S) = <<>> /\ Without(<<e>>, S) = <<>>
<1> DEFINE empty == <<>>
<1>1. empty \in Seq({e}) /\ Len(empty) = 0 /\ Append(empty, e) = <<e>> OBVIOUS
<1>2. Without(empty, S) = <<>>
  <2>1. PICK h : Leaves(h, empty, S, {e})
    <3> HIDE DEF empty
    <3> QED BY <1>1, WithoutChain
  <2> QED BY <1>1, <2>1 DEF Leaves
<1>3. Without(Append(empty, e), S) = Without(empty, S)
  <2> HIDE DEF empty
  <2> QED BY <1>1, WithoutAppend
<1> QED BY <1>1, <1>2, <1>3

-----------------------------------------------------------------------------
(* The report an agent ends with (format_result_text).                     *)

\* The kinds of line, and of row.
LineKinds == {"action", "reasoned", "more", "open", "ruler", "text", "blank", "noise"}
RowKinds == {"action", "reason", "more", "insight", "text", "blank"}
Formats == [out : Seq(RowKinds), insight : BOOLEAN, action : BOOLEAN]
Unformatted == [out |-> <<"blank">>, insight |-> FALSE, action |-> FALSE]

\* Rows as they are pushed: a blank one first, and no two in a row.
Spaced(out) ==
  /\ out \in Seq(RowKinds) /\ Len(out) > 0 /\ out[1] = "blank"
  /\ \A i \in 2..Len(out) : out[i] = "blank" => out[i - 1] # "blank"

Full(out) == Without(out, {"blank"})

\* Push keeps them so, and adds its row unless it is blank.
LEMMA PushKeeps ==
  ASSUME NEW out, Spaced(out), NEW row \in RowKinds
  PROVE  /\ Spaced(Push(out, row))
         /\ Full(Push(out, row)) = IF row = "blank" THEN Full(out) ELSE Append(Full(out), row)
         /\ Full(out) \in Seq(RowKinds)
<1> DEFINE n == Len(out)
           new == Append(out, row)
<1>1. out \in Seq(RowKinds) /\ n \in Nat /\ n > 0 BY DEF Spaced
<1>2. Last(out) = out[n] BY DEF Last
<1>3. Full(new) = (IF row = "blank" THEN Full(out) ELSE Append(Full(out), row)) /\ Full(out) \in Seq(RowKinds)
  BY <1>1, WithoutAppend DEF Full
<1>4. CASE row = "blank" /\ Last(out) = "blank" BY <1>3, <1>4 DEF Push
<1>5. CASE ~(row = "blank" /\ Last(out) = "blank")
  <2>1. Push(out, row) = new BY <1>5 DEF Push
  <2>2. new \in Seq(RowKinds) /\ Len(new) = n + 1 /\ new[n + 1] = row /\ \A i \in 1..n : new[i] = out[i]
    BY <1>1
  <2>3. ASSUME NEW i \in 2..(n + 1), new[i] = "blank" PROVE new[i - 1] # "blank"
    <3>1. CASE i = n + 1
      <4>1. i - 1 = n /\ n \in 1..n BY <1>1, <3>1
      <4> QED BY <1>2, <1>5, <2>2, <2>3, <3>1, <4>1
    <3>2. CASE i # n + 1
      <4>1. i \in 2..n /\ i \in 1..n /\ i - 1 \in 1..n BY <1>1, <3>2
      <4> QED BY <2>2, <2>3, <4>1 DEF Spaced
    <3> QED BY <3>1, <3>2
  <2>4. Spaced(new)
    <3>1. 1 \in 1..n BY <1>1
    <3>2. new[1] = "blank" BY <2>2, <3>1 DEF Spaced
    <3> HIDE DEF new
    <3> QED BY <1>1, <2>2, <2>3, <3>2 DEF Spaced
  <2> QED BY <1>3, <2>1, <2>4
<1> QED BY <1>4, <1>5

\* The rows of a line, by what the lines before it have opened.
RowsAfter(acc, line) ==
  IF line \in {"noise", "blank"} \/ (line = "ruler" /\ acc.insight) THEN <<>>
  ELSE IF line = "reasoned" THEN <<"action", "reason">>
  ELSE IF line = "action" THEN <<"action">>
  ELSE IF line = "more" /\ acc.action THEN <<"more">>
  ELSE IF line = "open" THEN <<"insight">>
  ELSE <<"text">>

SpacedFormats == {acc \in Formats : Spaced(acc.out)}

\* One line: what it adds, and what it opens and closes.
LEMMA FormatLineKeeps ==
  ASSUME NEW acc \in SpacedFormats, NEW line \in LineKinds
  PROVE  LET new == FormatLine(acc, line)
         IN /\ new \in SpacedFormats
            /\ Full(acc.out) \in Seq(RowKinds)
            /\ Full(new.out) = Full(acc.out) \o RowsAfter(acc, line)
            /\ new.insight <=> line = "open" \/ (acc.insight /\ line # "ruler")
            /\ new.action <=> \/ IsAction(line)
                              \/ acc.action /\ (line \in {"more", "noise"} \/ (line = "ruler" /\ acc.insight))
<1> DEFINE out == acc.out
           new == FormatLine(acc, line)
<1>1. /\ acc = [out |-> out, insight |-> acc.insight, action |-> acc.action]
      /\ out \in Seq(RowKinds) /\ acc.insight \in BOOLEAN /\ acc.action \in BOOLEAN /\ Spaced(out)
  BY DEF SpacedFormats, Formats
<1>2. \A o, i, a : Spaced(o) /\ i \in BOOLEAN /\ a \in BOOLEAN
        => [out |-> o, insight |-> i, action |-> a] \in SpacedFormats
  BY DEF SpacedFormats, Formats, Spaced
<1>3. \A o, row : Spaced(o) /\ row \in RowKinds
        => /\ Spaced(Push(o, row)) /\ Full(o) \in Seq(RowKinds)
           /\ Full(Push(o, row)) = IF row = "blank" THEN Full(o) ELSE Append(Full(o), row)
  BY PushKeeps
<1>4. /\ "blank" \in RowKinds /\ "action" \in RowKinds /\ "reason" \in RowKinds
      /\ "more" \in RowKinds /\ "insight" \in RowKinds /\ "text" \in RowKinds
  BY DEF RowKinds
<1>5. Full(out) \in Seq(RowKinds) BY <1>1, <1>3, <1>4
<1>6. Full(out) \o <<>> = Full(out) BY <1>5
<1>7. \A r \in RowKinds : Full(out) \o <<r>> = Append(Full(out), r) BY <1>5
<1>8. \A r, q \in RowKinds : Full(out) \o <<r, q>> = Append(Append(Full(out), r), q) BY <1>5
<1>10. CASE line = "noise"
  <2>1. new = acc /\ RowsAfter(acc, line) = <<>> BY <1>10 DEF FormatLine, RowsAfter
  <2>2. line \notin {"open", "ruler", "action", "reasoned"} BY <1>10
  <2> HIDE DEF new
  <2>3. /\ new.insight <=> line = "open" \/ (acc.insight /\ line # "ruler")
        /\ new.action <=> \/ IsAction(line)
                          \/ acc.action /\ (line \in {"more", "noise"} \/ (line = "ruler" /\ acc.insight))
    BY <1>10, <2>1, <2>2, Zenon DEF IsAction
  <2> QED BY <1>5, <1>6, <2>1, <2>3 DEF new
<1>11. CASE IsAction(line)
  <2> DEFINE led == IF acc.action THEN Push(out, "blank") ELSE out
             title == Push(led, "action")
             full == IF line = "reasoned" THEN Push(title, "reason") ELSE title
  <2>1. new = [out |-> full, insight |-> acc.insight, action |-> TRUE]
    BY <1>1, <1>11 DEF FormatLine, PushAction, IsAction
  <2>2. Spaced(led) /\ Full(led) = Full(out) BY <1>1, <1>3, <1>4
  <2> HIDE DEF led
  <2>3. Spaced(title) /\ Full(title) = Append(Full(out), "action") BY <1>3, <1>4, <2>2
  <2> HIDE DEF title
  <2>4. /\ Spaced(full)
        /\ Full(full) = IF line = "reasoned" THEN Append(Append(Full(out), "action"), "reason")
                        ELSE Append(Full(out), "action")
    BY <1>3, <1>4, <2>3
  <2> HIDE DEF full
  <2>5. RowsAfter(acc, line) = IF line = "reasoned" THEN <<"action", "reason">> ELSE <<"action">>
    BY <1>11 DEF RowsAfter, IsAction
  <2>6. Full(full) = Full(out) \o RowsAfter(acc, line) BY <1>4, <1>7, <1>8, <2>4, <2>5
  <2>7. new \in SpacedFormats BY <1>1, <1>2, <2>1, <2>4
  <2>8. line # "open" /\ line # "ruler" BY <1>11 DEF IsAction
  <2> QED BY <1>5, <1>11, <2>1, <2>6, <2>7, <2>8
<1>12. CASE line = "more" /\ acc.action
  <2>1. new = [out |-> Push(out, "more"), insight |-> acc.insight, action |-> TRUE]
    BY <1>1, <1>12 DEF FormatLine, IsAction
  <2>2. RowsAfter(acc, line) = <<"more">> BY <1>12 DEF RowsAfter
  <2>3. Full(Push(out, "more")) = Full(out) \o <<"more">> BY <1>1, <1>3, <1>4, <1>7
  <2>4. new \in SpacedFormats BY <1>1, <1>2, <1>3, <1>4, <2>1
  <2>5. new.out = Push(out, "more") /\ new.insight = acc.insight /\ new.action = TRUE BY <2>1
  <2> HIDE DEF new
  <2>6. ~IsAction(line) /\ line # "open" /\ line # "ruler" BY <1>12 DEF IsAction
  <2>7. /\ new.insight <=> line = "open" \/ (acc.insight /\ line # "ruler")
        /\ new.action <=> \/ IsAction(line)
                          \/ acc.action /\ (line \in {"more", "noise"} \/ (line = "ruler" /\ acc.insight))
    BY <1>12, <2>5, <2>6, Zenon
  <2>8. Full(new.out) = Full(out) \o RowsAfter(acc, line) BY <2>2, <2>3, <2>5
  <2> QED BY <1>5, <2>4, <2>7, <2>8 DEF new
<1>13. CASE line = "open"
  <2>1. new = [out |-> Push(out, "insight"), insight |-> TRUE, action |-> FALSE]
    BY <1>1, <1>13 DEF FormatLine, IsAction
  <2>2. RowsAfter(acc, line) = <<"insight">> BY <1>13 DEF RowsAfter
  <2>3. Full(Push(out, "insight")) = Full(out) \o <<"insight">> BY <1>1, <1>3, <1>4, <1>7
  <2>4. new \in SpacedFormats BY <1>1, <1>2, <1>3, <1>4, <2>1
  <2>5. new.out = Push(out, "insight") /\ new.insight = TRUE /\ new.action = FALSE BY <2>1
  <2> HIDE DEF new
  <2>6. ~IsAction(line) /\ line \notin {"ruler", "more", "noise"} BY <1>13 DEF IsAction
  <2>7. /\ new.insight <=> line = "open" \/ (acc.insight /\ line # "ruler")
        /\ new.action <=> \/ IsAction(line)
                          \/ acc.action /\ (line \in {"more", "noise"} \/ (line = "ruler" /\ acc.insight))
    BY <1>13, <2>5, <2>6, Zenon
  <2>8. Full(new.out) = Full(out) \o RowsAfter(acc, line) BY <2>2, <2>3, <2>5
  <2> QED BY <1>5, <2>4, <2>7, <2>8 DEF new
<1>14. CASE line = "ruler" /\ acc.insight
  <2>1. new = [out |-> out, insight |-> FALSE, action |-> acc.action]
    BY <1>1, <1>14 DEF FormatLine, IsAction
  <2>2. RowsAfter(acc, line) = <<>> BY <1>14 DEF RowsAfter
  <2>3. new \in SpacedFormats BY <1>1, <1>2, <2>1
  <2>4. new.out = out /\ new.insight = FALSE /\ new.action = acc.action BY <2>1
  <2> HIDE DEF new
  <2>5. ~IsAction(line) /\ line # "open" BY <1>14 DEF IsAction
  <2>6. /\ new.insight <=> line = "open" \/ (acc.insight /\ line # "ruler")
        /\ new.action <=> \/ IsAction(line)
                          \/ acc.action /\ (line \in {"more", "noise"} \/ (line = "ruler" /\ acc.insight))
    BY <1>14, <2>4, <2>5, Zenon
  <2>7. Full(new.out) = Full(out) \o RowsAfter(acc, line) BY <1>6, <2>2, <2>4
  <2> QED BY <1>5, <2>3, <2>6, <2>7 DEF new
<1>15. CASE line = "blank"
  <2>1. new = [out |-> Push(out, "blank"), insight |-> acc.insight, action |-> FALSE]
    BY <1>1, <1>15 DEF FormatLine, IsAction
  <2>2. RowsAfter(acc, line) = <<>> BY <1>15 DEF RowsAfter
  <2>3. Full(Push(out, "blank")) = Full(out) \o <<>> BY <1>1, <1>3, <1>4, <1>6
  <2>4. new \in SpacedFormats BY <1>1, <1>2, <1>3, <1>4, <2>1
  <2>5. new.out = Push(out, "blank") /\ new.insight = acc.insight /\ new.action = FALSE BY <2>1
  <2> HIDE DEF new
  <2>6. ~IsAction(line) /\ line \notin {"open", "ruler", "more", "noise"} BY <1>15 DEF IsAction
  <2>7. /\ new.insight <=> line = "open" \/ (acc.insight /\ line # "ruler")
        /\ new.action <=> \/ IsAction(line)
                          \/ acc.action /\ (line \in {"more", "noise"} \/ (line = "ruler" /\ acc.insight))
    BY <2>5, <2>6, Zenon
  <2>8. Full(new.out) = Full(out) \o RowsAfter(acc, line) BY <2>2, <2>3, <2>5
  <2> QED BY <1>5, <2>4, <2>7, <2>8 DEF new
<1>16. CASE /\ line \notin {"noise", "open", "blank"} /\ ~IsAction(line)
            /\ ~(line = "more" /\ acc.action) /\ ~(line = "ruler" /\ acc.insight)
  <2>1. new = [out |-> Push(out, "text"), insight |-> acc.insight, action |-> FALSE]
    BY <1>1, <1>16 DEF FormatLine
  <2>2. RowsAfter(acc, line) = <<"text">> BY <1>16 DEF RowsAfter, IsAction
  <2>3. Full(Push(out, "text")) = Full(out) \o <<"text">> BY <1>1, <1>3, <1>4, <1>7
  <2>4. new \in SpacedFormats BY <1>1, <1>2, <1>3, <1>4, <2>1
  <2>5. line = "ruler" => ~acc.insight BY <1>16
  <2> QED BY <1>1, <1>5, <1>16, <2>1, <2>2, <2>3, <2>4, <2>5
<1> QED BY <1>10, <1>11, <1>12, <1>13, <1>14, <1>15, <1>16

\* The chain of format_result_text's loop.
Formatted(h, lines) ==
  /\ h \in [0..Len(lines) -> SpacedFormats]
  /\ h[0] = Unformatted /\ h[Len(lines)] = FoldLeft(FormatLine, Unformatted, lines)
  /\ \A k \in 1..Len(lines) : h[k] = FormatLine(h[k - 1], lines[k])

LEMMA FormatChain ==
  ASSUME NEW lines \in Seq(LineKinds)
  PROVE  \E h : Formatted(h, lines)
<1> DEFINE n == Len(lines)
           V == SpacedFormats
           step(v, k) == FormatLine(v, lines[k])
           G == [p \in V \X (1..n) |-> step(p[1], p[2])]
           Iter(iter) == iter = [x \in SUBSET DOMAIN lines |->
                                   IF x = {} THEN Unformatted ELSE step(iter[x \ {Max(x)}], Max(x))]
           F == CHOOSE iter : Iter(iter)
<1>1. DOMAIN lines = 1..n /\ n \in Nat OBVIOUS
<1>2. FoldLeft(FormatLine, Unformatted, lines) = F[DOMAIN lines] BY DEF FoldLeft, MapThenFoldSet
<1>3. \A v \in V, k \in 1..n : step(v, k) \in V
  <2> SUFFICES ASSUME NEW v \in V, NEW k \in 1..n PROVE step(v, k) \in V
      OBVIOUS
  <2>1. lines[k] \in LineKinds BY <1>1
  <2> QED BY <2>1, FormatLineKeeps
<1>4. G \in [V \X (1..n) -> V] /\ \A v \in V, k \in 1..n : G[<<v, k>>] = step(v, k)
  <2> HIDE DEF V, step, n
  <2> QED BY <1>3
<1>5. Unformatted \in V
  <2> DEFINE first == <<"blank">>
  <2>1. "blank" \in RowKinds BY DEF RowKinds
  <2>2. first \in Seq(RowKinds) /\ Len(first) = 1 /\ first[1] = "blank" BY <2>1
  <2>3. Unformatted = [out |-> first, insight |-> FALSE, action |-> FALSE] BY DEF Unformatted
  <2> HIDE DEF first
  <2>4. Spaced(first)
    <3>1. 2..Len(first) = {} BY <2>2
    <3> QED BY <2>2, <3>1 DEF Spaced
  <2> QED BY <2>2, <2>3, <2>4 DEF SpacedFormats, Formats
<1>6. \E iter : Iter(iter)
  <2> HIDE DEF V, G, n
  <2>2. PICK iter \in [SUBSET (1..n) -> V] : Folds(iter, Unformatted, n, G)
    BY <1>1, <1>4, <1>5, FoldExists
  <2> HIDE DEF step
  <2>3. ASSUME NEW x \in SUBSET (1..n), x # {}
        PROVE  G[<<iter[x \ {Max(x)}], Max(x)>>] = step(iter[x \ {Max(x)}], Max(x))
    <3>1. Max(x) \in 1..n BY <1>1, <2>3, MaxWithin
    <3>2. iter[x \ {Max(x)}] \in V BY <2>2
    <3> QED BY <1>4, <3>1, <3>2
  <2>4. Iter(iter) BY <1>1, <2>2, <2>3 DEF Folds
  <2> QED BY <2>4
<1>7. Iter(F) BY <1>6, Zenon
<1> HIDE DEF F
<1>8. F[{}] = Unformatted BY <1>7
<1>9. \A x \in SUBSET (1..n) :
        x # {} /\ F[x \ {Max(x)}] \in V => F[x] = G[<<F[x \ {Max(x)}], Max(x)>>]
  <2> SUFFICES ASSUME NEW x \in SUBSET (1..n), x # {}, F[x \ {Max(x)}] \in V
               PROVE  F[x] = G[<<F[x \ {Max(x)}], Max(x)>>]
      OBVIOUS
  <2>1. Max(x) \in 1..n BY <1>1, MaxWithin
  <2>2. F[x] = step(F[x \ {Max(x)}], Max(x))
    <3> HIDE DEF step
    <3> QED BY <1>1, <1>7
  <2> HIDE DEF step, G, V, n
  <2> QED BY <1>4, <2>1, <2>2
<1> DEFINE h == ChainOf(F, n)
<1>10. h[n] = F[1..n] BY <1>1 DEF ChainOf
<1>11. Chain(h, Unformatted, V, n, G)
  <2> HIDE DEF V, G, n
  <2>1. n \in Nat /\ G \in [V \X (1..n) -> V] BY <1>1, <1>4
  <2>2. Follows(F, Unformatted, V, n, G) BY <1>8, <1>9 DEF Follows
  <2> QED BY <2>1, <2>2, <1>5, FoldChain
<1> HIDE DEF h
<1>12. h \in [0..n -> V] /\ h[0] = Unformatted /\ \A k \in 1..n : h[k] = step(h[k - 1], k)
  <2> HIDE DEF V, G, n, step
  <2>1. h \in [0..n -> V] /\ h[0] = Unformatted BY <1>11 DEF Chain
  <2> SUFFICES ASSUME NEW k \in 1..n PROVE h[k] = step(h[k - 1], k)
      BY <2>1
  <2>2. k - 1 \in 0..n BY <1>1
  <2>3. h[k - 1] \in V BY <2>1, <2>2
  <2> QED BY <1>4, <1>11, <2>3 DEF Chain
<1> QED BY <1>1, <1>2, <1>10, <1>12 DEF Formatted

\* The chain of FlattenSeq.
Flattened(h, rows, D) ==
  /\ h \in [0..Len(rows) -> Seq(D)]
  /\ h[0] = <<>> /\ h[Len(rows)] = FlattenSeq(rows)
  /\ \A k \in 1..Len(rows) : h[k] = h[k - 1] \o rows[k]

LEMMA FlattenChain ==
  ASSUME NEW D, NEW rows \in Seq(Seq(D))
  PROVE  \E h : Flattened(h, rows, D)
<1> DEFINE n == Len(rows)
           V == Seq(D)
           G == [p \in V \X (1..n) |-> p[1] \o rows[p[2]]]
           Eq(f) == f = [i \in 1..n |-> IF i = 1 THEN rows[i] ELSE f[i - 1] \o rows[i]]
           F == CHOOSE f : Eq(f)
<1>1. n \in Nat /\ \A k \in 1..n : rows[k] \in V OBVIOUS
<1>2. \A v \in V, k \in 1..n : v \o rows[k] \in V BY <1>1
<1>3. G \in [V \X (1..n) -> V] /\ \A v \in V, k \in 1..n : G[<<v, k>>] = v \o rows[k]
  <2> HIDE DEF V, n
  <2> QED BY <1>2
<1>4. <<>> \in V OBVIOUS
<1>5. PICK iter \in [SUBSET (1..n) -> V] : Folds(iter, <<>>, n, G)
  <2> HIDE DEF V, G, n
  <2> QED BY <1>1, <1>3, <1>4, FoldExists
<1> DEFINE h == ChainOf(iter, n)
<1>6. Chain(h, <<>>, V, n, G)
  <2> HIDE DEF V, G, n
  <2>1. n \in Nat /\ G \in [V \X (1..n) -> V] BY <1>1, <1>3
  <2>2. Follows(iter, <<>>, V, n, G) BY <1>5 DEF Follows, Folds
  <2> QED BY <2>1, <2>2, <1>4, FoldChain
<1> HIDE DEF h
<1>7. h \in [0..n -> V] /\ h[0] = <<>> /\ \A k \in 1..n : h[k] = h[k - 1] \o rows[k]
  <2> HIDE DEF V, G, n
  <2>1. h \in [0..n -> V] /\ h[0] = <<>> BY <1>6 DEF Chain
  <2> SUFFICES ASSUME NEW k \in 1..n PROVE h[k] = h[k - 1] \o rows[k]
      BY <2>1
  <2>2. k - 1 \in 0..n BY <1>1
  <2>3. h[k - 1] \in V BY <2>1, <2>2
  <2> QED BY <1>3, <1>6, <2>3 DEF Chain
<1>8. CASE n = 0
  <2>1. rows = <<>> BY <1>8
  <2>2. FlattenSeq(rows) = <<>> BY <1>8, <2>1 DEF FlattenSeq
  <2> QED BY <1>7, <1>8, <2>2 DEF Flattened
<1>9. CASE n # 0
  <2>1. FlattenSeq(rows) = F[n] BY <1>9 DEF FlattenSeq
  <2> DEFINE f == [i \in 1..n |-> h[i]]
  <2>2. Eq(f)
    <3>1. ASSUME NEW i \in 1..n PROVE f[i] = IF i = 1 THEN rows[i] ELSE f[i - 1] \o rows[i]
      <4>1. CASE i = 1
        <5>0. 1 - 1 = 0 /\ 1 \in 1..n BY <4>1
        <5>1. h[1] = <<>> \o rows[1] BY <1>7, <5>0
        <5>2. <<>> \o rows[1] = rows[1] BY <1>1, <4>1
        <5> QED BY <4>1, <5>1, <5>2
      <4>2. CASE i # 1
        <5>1. i - 1 \in 1..n BY <1>1, <4>2
        <5>2. f[i - 1] = h[i - 1] /\ f[i] = h[i] BY <5>1
        <5> HIDE DEF f
        <5> QED BY <1>7, <4>2, <5>2
      <4> QED BY <4>1, <4>2
    <3> QED BY <3>1
  <2>3. Eq(F)
    <3> HIDE DEF f, Eq
    <3> QED BY <2>2, Zenon
  <2> HIDE DEF F
  <2>4. \A i \in 1..n : F[i] = IF i = 1 THEN rows[i] ELSE F[i - 1] \o rows[i] BY <2>3
  <2> DEFINE T == {k \in Nat : k \in 1..n => F[k] = h[k]}
  <2>5. 0 \in T OBVIOUS
  <2>6. ASSUME NEW k \in T PROVE k + 1 \in T
    <3> SUFFICES ASSUME k + 1 \in 1..n PROVE F[k + 1] = h[k + 1]
        OBVIOUS
    <3>1. PICK j \in 1..n : j = k + 1 /\ j - 1 = k OBVIOUS
    <3>2. h[j] = h[k] \o rows[j] BY <1>7, <3>1
    <3>3. CASE k = 0
      <4>1. <<>> \o rows[j] = rows[j] BY <1>1
      <4>2. h[j] = rows[j] BY <1>7, <3>2, <3>3, <4>1
      <4>3. F[j] = rows[j] BY <2>4, <3>1, <3>3
      <4> QED BY <3>1, <4>2, <4>3
    <3>4. CASE k # 0
      <4>1. k \in 1..n /\ j # 1 BY <3>1, <3>4
      <4>2. F[k] = h[k] BY <4>1
      <4> QED BY <2>4, <3>1, <3>2, <4>1, <4>2
    <3> QED BY <3>3, <3>4
  <2>7. T = Nat
    <3>1. T \in SUBSET Nat OBVIOUS
    <3> HIDE DEF T
    <3> QED BY <2>5, <2>6, <3>1, EveryNumber
  <2>8. n \in T /\ n \in 1..n
    <3>1. n \in 1..n BY <1>1, <1>9
    <3> HIDE DEF T
    <3> QED BY <1>1, <2>7, <3>1
  <2>9. F[n] = h[n] BY <1>1, <2>8
  <2> QED BY <1>7, <2>1, <2>9 DEF Flattened
<1> QED BY <1>8, <1>9

\* An insight is open behind a line if the line opens it, or does not end it.
LEMMA InsightStep ==
  ASSUME NEW lines, NEW k \in Nat \ {0}
  PROVE  InInsight(lines, k + 1) <=> lines[k] = "open" \/ (InInsight(lines, k) /\ lines[k] # "ruler")
<1> DEFINE Free(j, m) == "ruler" \notin {lines[i] : i \in j..m}
<1>1. InInsight(lines, k) <=> \E j \in 1..(k - 1) : lines[j] = "open" /\ Free(j, k - 1) BY DEF InInsight
<1>2. InInsight(lines, k + 1) <=> \E j \in 1..k : lines[j] = "open" /\ Free(j, k)
  <2>1. (k + 1) - 1 = k OBVIOUS
  <2> QED BY <2>1 DEF InInsight
<1>3. \A j \in 1..(k - 1) : Free(j, k) <=> Free(j, k - 1) /\ lines[k] # "ruler"
  <2> SUFFICES ASSUME NEW j \in 1..(k - 1) PROVE Free(j, k) <=> Free(j, k - 1) /\ lines[k] # "ruler"
      OBVIOUS
  <2>1. j..k = (j..(k - 1)) \cup {k} OBVIOUS
  <2> QED BY <2>1
<1>4. lines[k] = "open" => Free(k, k)
  <2>1. k..k = {k} OBVIOUS
  <2> QED BY <2>1
<1>5. 1..k = (1..(k - 1)) \cup {k} OBVIOUS
<1> HIDE DEF Free
<1>6. ASSUME InInsight(lines, k + 1)
      PROVE  lines[k] = "open" \/ (InInsight(lines, k) /\ lines[k] # "ruler")
  BY <1>1, <1>2, <1>3, <1>5, <1>6
<1>7. ASSUME lines[k] = "open" \/ (InInsight(lines, k) /\ lines[k] # "ruler")
      PROVE  InInsight(lines, k + 1)
  BY <1>1, <1>2, <1>3, <1>4, <1>5, <1>7
<1> QED BY <1>6, <1>7

\* An action goes on behind a line if the line starts it, or is passed over.
LEMMA ActionStep ==
  ASSUME NEW lines, NEW k \in Nat \ {0}
  PROVE  Continues(lines, k + 1)
           <=> \/ IsAction(lines[k])
               \/ /\ Continues(lines, k)
                  /\ lines[k] \in {"more", "noise"} \/ (lines[k] = "ruler" /\ InInsight(lines, k))
<1> DEFINE Passed(i) == lines[i] \in {"more", "noise"} \/ (lines[i] = "ruler" /\ InInsight(lines, i))
           Open(j, m) == \A i \in (j + 1)..m : Passed(i)
<1>1. Continues(lines, k) <=> \E j \in 1..(k - 1) : IsAction(lines[j]) /\ Open(j, k - 1) BY DEF Continues
<1>2. Continues(lines, k + 1) <=> \E j \in 1..k : IsAction(lines[j]) /\ Open(j, k)
  <2>1. (k + 1) - 1 = k OBVIOUS
  <2> QED BY <2>1 DEF Continues
<1>a. Passed(k) <=> lines[k] \in {"more", "noise"} \/ (lines[k] = "ruler" /\ InInsight(lines, k)) OBVIOUS
<1> HIDE DEF Passed
<1>3. \A j \in 1..(k - 1) : Open(j, k) <=> Open(j, k - 1) /\ Passed(k)
  <2> SUFFICES ASSUME NEW j \in 1..(k - 1) PROVE Open(j, k) <=> Open(j, k - 1) /\ Passed(k)
      OBVIOUS
  <2>1. (j + 1)..k = ((j + 1)..(k - 1)) \cup {k} OBVIOUS
  <2> QED BY <2>1
<1>4. Open(k, k)
  <2>1. (k + 1)..k = {} OBVIOUS
  <2> QED BY <2>1
<1>5. 1..k = (1..(k - 1)) \cup {k} OBVIOUS
<1> HIDE DEF Open
<1>6. ASSUME Continues(lines, k + 1) PROVE IsAction(lines[k]) \/ (Continues(lines, k) /\ Passed(k))
  BY <1>1, <1>2, <1>3, <1>5, <1>6
<1>7. ASSUME IsAction(lines[k]) \/ (Continues(lines, k) /\ Passed(k)) PROVE Continues(lines, k + 1)
  BY <1>1, <1>2, <1>3, <1>4, <1>5, <1>7
<1> QED BY <1>a, <1>6, <1>7

\* Line by line the loop knows what is open, and has the rows of the lines.
LEMMA FormatsLines ==
  ASSUME NEW lines \in Seq(LineKinds), NEW h, Formatted(h, lines)
  PROVE  Full(h[Len(lines)].out) = FlattenSeq([i \in 1..Len(lines) |-> RowsOf(lines, i)])
<1> DEFINE rows == [i \in 1..Len(lines) |-> RowsOf(lines, i)]
<1>0. PICK n \in Nat : n = Len(lines) OBVIOUS
<1>1. \A i \in 1..n : RowsOf(lines, i) \in Seq(RowKinds)
  <2>1. /\ <<>> \in Seq(RowKinds) /\ <<"action", "reason">> \in Seq(RowKinds) /\ <<"action">> \in Seq(RowKinds)
        /\ <<"more">> \in Seq(RowKinds) /\ <<"insight">> \in Seq(RowKinds) /\ <<"text">> \in Seq(RowKinds)
    BY DEF RowKinds
  <2> QED BY <2>1 DEF RowsOf
<1>2. rows \in Seq(Seq(RowKinds)) /\ Len(rows) = n /\ \A i \in 1..n : rows[i] = RowsOf(lines, i)
  BY <1>0, <1>1
<1> HIDE DEF rows
<1>3. PICK g : Flattened(g, rows, RowKinds) BY <1>2, FlattenChain
<1>4. g[0] = <<>> /\ g[n] = FlattenSeq(rows) /\ \A k \in 1..n : g[k] = g[k - 1] \o rows[k]
  BY <1>2, <1>3 DEF Flattened
<1>5. /\ h \in [0..n -> SpacedFormats] /\ h[0] = Unformatted
      /\ \A k \in 1..n : h[k] = FormatLine(h[k - 1], lines[k])
  BY <1>0 DEF Formatted
<1> DEFINE Knows(k) == /\ Full(h[k].out) = g[k]
                       /\ h[k].insight <=> InInsight(lines, k + 1)
                       /\ h[k].action <=> Continues(lines, k + 1)
           T == {k \in Nat : k <= n => Knows(k)}
<1>6. 0 \in T
  <2>1. 1..(1 - 1) = {} /\ 0 + 1 = 1 OBVIOUS
  <2>2. ~InInsight(lines, 0 + 1) /\ ~Continues(lines, 0 + 1) BY <2>1 DEF InInsight, Continues
  <2>3. "blank" \in {"blank"} OBVIOUS
  <2>4. Full(<<"blank">>) = <<>> BY <2>3, WithoutOne DEF Full
  <2>5. Unformatted.out = <<"blank">> /\ ~Unformatted.insight /\ ~Unformatted.action BY DEF Unformatted
  <2> QED BY <1>4, <1>5, <2>2, <2>4, <2>5
<1>7. ASSUME NEW k \in T PROVE k + 1 \in T
  <2> SUFFICES ASSUME k + 1 <= n PROVE Knows(k + 1)
    <3> HIDE DEF Knows
    <3> QED OBVIOUS
  <2>1. k \in Nat /\ Knows(k)
    <3> HIDE DEF Knows
    <3> QED OBVIOUS
  <2>2. PICK j \in 1..n : j = k + 1 /\ j - 1 = k BY <2>1
  <2>3. lines[j] \in LineKinds /\ j \in Nat \ {0} BY <1>0, <2>2
  <2>4. h[k] \in SpacedFormats BY <1>5, <2>1
  <2> DEFINE acc == h[k]
             line == lines[j]
             new == FormatLine(acc, line)
  <2>5. h[j] = new BY <1>5, <2>2
  <2>6. /\ Full(new.out) = Full(acc.out) \o RowsAfter(acc, line)
        /\ new.insight <=> line = "open" \/ (acc.insight /\ line # "ruler")
        /\ new.action <=> \/ IsAction(line)
                          \/ acc.action /\ (line \in {"more", "noise"} \/ (line = "ruler" /\ acc.insight))
    BY <2>3, <2>4, FormatLineKeeps
  <2>7. Full(acc.out) = g[k] /\ (acc.insight <=> InInsight(lines, j)) /\ (acc.action <=> Continues(lines, j))
    BY <2>1, <2>2
  <2>8. RowsAfter(acc, line) = RowsOf(lines, j) BY <2>7 DEF RowsAfter, RowsOf
  <2> HIDE DEF new, acc, line
  <2>9. Full(new.out) = g[j] BY <1>2, <1>4, <2>2, <2>6, <2>7, <2>8
  <2>10. new.insight <=> InInsight(lines, j + 1)
    BY <2>3, <2>6, <2>7, InsightStep, Zenon DEF line
  <2>11. new.action <=> Continues(lines, j + 1)
    BY <2>3, <2>6, <2>7, ActionStep, Zenon DEF line
  <2>12. Knows(j) BY <2>5, <2>9, <2>10, <2>11
  <2> HIDE DEF Knows
  <2> QED BY <2>2, <2>12
<1>8. T = Nat
  <2>1. T \in SUBSET Nat OBVIOUS
  <2> HIDE DEF T
  <2> QED BY <1>6, <1>7, <2>1, EveryNumber
<1>9. n \in T /\ n <= n BY <1>8
<1>10. Knows(n)
  <2> HIDE DEF Knows
  <2> QED BY <1>9
<1> QED BY <1>0, <1>4, <1>10 DEF rows

\* The report as a whole: of what was pushed only a last blank row goes.
LEMMA TrimEndKeeps ==
  ASSUME NEW out, Spaced(out)
  PROVE  Full(TrimEnd(out)) = Full(out) /\ WellSpaced(TrimEnd(out))
<1>0. PICK n \in Nat : n = Len(out) /\ n > 0 /\ out \in Seq(RowKinds) /\ out[1] = "blank" BY DEF Spaced
<1> DEFINE full == {i \in 2..n : out[i] # "blank"}
           last == CHOOSE i \in full : \A j \in full : j <= i
           m == IF full = {} THEN 1 ELSE last
           rows == SubSeq(out, 1, m)
<1>1. TrimEnd(out) = rows BY <1>0 DEF TrimEnd
<1>2. \A i \in 2..n : out[i] = "blank" => out[i - 1] # "blank" BY <1>0 DEF Spaced
<1>3. /\ m \in 1..n
      /\ m # 1 => out[m] # "blank"
      /\ \A i \in (m + 1)..n : out[i] = "blank"
  <2>1. CASE full = {}
    <3>1. m = 1 /\ \A i \in 2..n : out[i] = "blank" BY <2>1
    <3> QED BY <1>0, <3>1
  <2>2. CASE full # {}
    <3>1. full \in SUBSET (1..n) /\ \A i \in full : i \in 2..n /\ out[i] # "blank" OBVIOUS
    <3>2. \E i \in full : \A j \in full : j <= i BY <2>2, <3>1, GreatestOf
    <3>3. last \in full /\ \A j \in full : j <= last
      <4> HIDE DEF full
      <4> QED BY <3>2
    <3>4. m = last BY <2>2
    <3> HIDE DEF last
    <3>5. m \in 2..n /\ out[m] # "blank" BY <3>1, <3>3, <3>4
    <3>6. \A i \in (m + 1)..n : out[i] = "blank"
      <4> SUFFICES ASSUME NEW i \in (m + 1)..n, out[i] # "blank" PROVE FALSE
          OBVIOUS
      <4>1. i \in 2..n /\ i > m BY <3>5
      <4>2. i \in full BY <4>1
      <4> HIDE DEF full
      <4> QED BY <3>3, <3>4, <3>5, <4>1, <4>2
    <3> QED BY <3>5, <3>6
  <2> QED BY <2>1, <2>2
<1> HIDE DEF m
<1>4. n = m \/ (n = m + 1 /\ out[n] = "blank")
  <2> SUFFICES ASSUME n # m PROVE n = m + 1 /\ out[n] = "blank"
      OBVIOUS
  <2>1. n \in (m + 1)..n BY <1>3
  <2>2. out[n] = "blank" BY <1>3, <2>1
  <2>3. n = m + 1
    <3> SUFFICES ASSUME n # m + 1 PROVE FALSE
        OBVIOUS
    <3>1. n - 1 \in (m + 1)..n /\ n \in 2..n BY <1>3, <2>1
    <3> QED BY <1>2, <1>3, <2>2, <3>1
  <2> QED BY <2>2, <2>3
<1>5. /\ rows \in Seq(RowKinds) /\ Len(rows) = m /\ \A i \in 1..m : rows[i] = out[i]
      /\ m \in Nat /\ m > 0
  BY <1>0, <1>3
<1>6. Full(rows) = Full(out)
  <2>1. CASE n = m
    <3> HIDE DEF rows
    <3>1. \A i \in 1..n : rows[i] = out[i] BY <1>5, <2>1
    <3>2. Len(rows) = Len(out) BY <1>0, <1>5, <2>1
    <3>3. rows = out BY <1>0, <1>5, <3>1, <3>2
    <3> QED BY <3>3
  <2>2. CASE n = m + 1 /\ out[n] = "blank"
    <3>1. out = Append(rows, "blank")
      <4> DEFINE new == Append(rows, "blank")
      <4>1. "blank" \in RowKinds BY DEF RowKinds
      <4>2. /\ new \in Seq(RowKinds) /\ Len(new) = m + 1 /\ new[m + 1] = "blank"
            /\ \A i \in 1..m : new[i] = rows[i]
        BY <1>5, <4>1
      <4> HIDE DEF new, rows
      <4>3. \A i \in 1..n : new[i] = out[i]
        <5> SUFFICES ASSUME NEW i \in 1..n PROVE new[i] = out[i]
            OBVIOUS
        <5>1. i \in 1..m \/ i = m + 1 BY <1>5, <2>2
        <5> QED BY <1>5, <2>2, <4>2, <5>1
      <4>4. Len(new) = n BY <2>2, <4>2
      <4>5. new = out BY <1>0, <4>2, <4>3, <4>4
      <4> QED BY <4>5 DEF new
    <3>2. "blank" \in RowKinds /\ "blank" \in {"blank"} BY DEF RowKinds
    <3> HIDE DEF rows
    <3> QED BY <1>5, <3>1, <3>2, WithoutAppend DEF Full
  <2> QED BY <1>4, <2>1, <2>2
<1>7. WellSpaced(rows)
  <2> HIDE DEF rows
  <2>1. rows[1] = "blank"
    <3>1. 1 \in 1..m BY <1>5
    <3> QED BY <1>0, <1>5, <3>1
  <2>2. ASSUME NEW i \in 2..m, rows[i] = "blank" PROVE rows[i - 1] # "blank" /\ i < m
    <3>1. i \in 1..m /\ i - 1 \in 1..m /\ i \in 2..n /\ i # 1 BY <1>3
    <3>2. out[i] = "blank" /\ out[i - 1] # "blank" BY <1>2, <1>5, <2>2, <3>1
    <3>3. i # m BY <1>3, <3>1, <3>2
    <3> QED BY <1>5, <3>1, <3>2, <3>3
  <2> QED BY <1>5, <2>1, <2>2 DEF WellSpaced
<1> QED BY <1>1, <1>6, <1>7

\* What format_result_text makes of any text reads as it should.
LEMMA ReportsRead ==
  ASSUME NEW lines \in Seq(LineKinds)
  PROVE  LET rows == FormatResultText(lines) IN NothingLost(lines, rows) /\ WellSpaced(rows)
<1>1. PICK h : Formatted(h, lines) BY FormatChain
<1>2. PICK n \in Nat : n = Len(lines) OBVIOUS
<1>3. h[n] \in SpacedFormats /\ h[n] = FoldLeft(FormatLine, Unformatted, lines)
  <2>1. n \in 0..n OBVIOUS
  <2> QED BY <1>1, <1>2, <2>1 DEF Formatted
<1>4. FormatResultText(lines) = TrimEnd(h[n].out) BY <1>3 DEF FormatResultText, Unformatted
<1>5. Spaced(h[n].out) BY <1>3 DEF SpacedFormats
<1>6. Full(h[n].out) = FlattenSeq([i \in 1..Len(lines) |-> RowsOf(lines, i)]) BY <1>1, <1>2, FormatsLines
<1> QED BY <1>4, <1>5, <1>6, TrimEndKeeps DEF NothingLost, Full

-----------------------------------------------------------------------------
(* What the lines of an agent become.                                      *)

\* One line of the report: a highlight it has already is passed over.
Told(agent, phase, acc, event) ==
  LET out == ParseLine(agent, event, phase, {}).out
  IN IF out.kind = "highlight" /\ Contains(acc, out) THEN acc ELSE acc \o Messages(out)

\* The chain of Report.
Reported(h, agent, phase, lines, M) ==
  /\ h \in [0..Len(lines) -> Seq(M)]
  /\ h[0] = <<>> /\ h[Len(lines)] = Report(agent, phase, lines)
  /\ \A k \in 1..Len(lines) : h[k] = Told(agent, phase, h[k - 1], lines[k])

\* The lines of E make messages of M.
Makes(agent, phase, E, M) == \A e \in E : ParseLine(agent, e, phase, {}).out \in M

LEMMA ToldTyped ==
  ASSUME NEW agent, NEW phase, NEW E, NEW M, Makes(agent, phase, E, M),
         NEW acc \in Seq(M), NEW e \in E
  PROVE  Told(agent, phase, acc, e) \in Seq(M)
<1> DEFINE out == ParseLine(agent, e, phase, {}).out
<1>1. out \in M BY DEF Makes
<1> HIDE DEF out
<1>2. Messages(out) \in Seq(M) BY <1>1 DEF Messages
<1>3. acc \o Messages(out) \in Seq(M) BY <1>2
<1> QED BY <1>3 DEF Told, out

LEMMA ReportChain ==
  ASSUME NEW agent, NEW phase, NEW E, NEW M, Makes(agent, phase, E, M), NEW lines \in Seq(E)
  PROVE  \E h : Reported(h, agent, phase, lines, M)
<1> DEFINE n == Len(lines)
           V == Seq(M)
           step(v, k) == Told(agent, phase, v, lines[k])
           G == [p \in V \X (1..n) |-> step(p[1], p[2])]
           Iter(iter) == iter = [x \in SUBSET DOMAIN lines |->
                                   IF x = {} THEN <<>> ELSE step(iter[x \ {Max(x)}], Max(x))]
           F == CHOOSE iter : Iter(iter)
<1>1. DOMAIN lines = 1..n /\ n \in Nat OBVIOUS
<1>2. Report(agent, phase, lines) = F[DOMAIN lines] BY DEF Report, FoldLeft, MapThenFoldSet, Told
<1>3. \A v \in V, k \in 1..n : step(v, k) \in V
  <2> SUFFICES ASSUME NEW v \in V, NEW k \in 1..n PROVE step(v, k) \in V
      OBVIOUS
  <2>1. lines[k] \in E BY <1>1
  <2> QED BY <2>1, ToldTyped
<1>4. G \in [V \X (1..n) -> V] /\ \A v \in V, k \in 1..n : G[<<v, k>>] = step(v, k)
  <2> HIDE DEF V, step, n
  <2> QED BY <1>3
<1>5. <<>> \in V OBVIOUS
<1>6. \E iter : Iter(iter)
  <2> HIDE DEF V, G, n
  <2>2. PICK iter \in [SUBSET (1..n) -> V] : Folds(iter, <<>>, n, G)
    BY <1>1, <1>4, <1>5, FoldExists
  <2> HIDE DEF step
  <2>3. ASSUME NEW x \in SUBSET (1..n), x # {}
        PROVE  G[<<iter[x \ {Max(x)}], Max(x)>>] = step(iter[x \ {Max(x)}], Max(x))
    <3>1. Max(x) \in 1..n BY <1>1, <2>3, MaxWithin
    <3>2. iter[x \ {Max(x)}] \in V BY <2>2
    <3> QED BY <1>4, <3>1, <3>2
  <2>4. Iter(iter) BY <1>1, <2>2, <2>3 DEF Folds
  <2> QED BY <2>4
<1>7. Iter(F) BY <1>6, Zenon
<1> HIDE DEF F
<1>8. F[{}] = <<>> BY <1>7
<1>9. \A x \in SUBSET (1..n) :
        x # {} /\ F[x \ {Max(x)}] \in V => F[x] = G[<<F[x \ {Max(x)}], Max(x)>>]
  <2> SUFFICES ASSUME NEW x \in SUBSET (1..n), x # {}, F[x \ {Max(x)}] \in V
               PROVE  F[x] = G[<<F[x \ {Max(x)}], Max(x)>>]
      OBVIOUS
  <2>1. Max(x) \in 1..n BY <1>1, MaxWithin
  <2>2. F[x] = step(F[x \ {Max(x)}], Max(x))
    <3> HIDE DEF step
    <3> QED BY <1>1, <1>7
  <2> HIDE DEF step, G, V, n
  <2> QED BY <1>4, <2>1, <2>2
<1> DEFINE h == ChainOf(F, n)
<1>10. h[n] = F[1..n] BY <1>1 DEF ChainOf
<1>11. Chain(h, <<>>, V, n, G)
  <2> HIDE DEF V, G, n
  <2>1. n \in Nat /\ G \in [V \X (1..n) -> V] BY <1>1, <1>4
  <2>2. Follows(F, <<>>, V, n, G) BY <1>8, <1>9 DEF Follows
  <2> QED BY <2>1, <2>2, <1>5, FoldChain
<1> HIDE DEF h
<1>12. h \in [0..n -> V] /\ h[0] = <<>> /\ \A k \in 1..n : h[k] = step(h[k - 1], k)
  <2> HIDE DEF V, G, n, step
  <2>1. h \in [0..n -> V] /\ h[0] = <<>> BY <1>11 DEF Chain
  <2> SUFFICES ASSUME NEW k \in 1..n PROVE h[k] = step(h[k - 1], k)
      BY <2>1
  <2>2. k - 1 \in 0..n BY <1>1
  <2>3. h[k - 1] \in V BY <2>1, <2>2
  <2> QED BY <1>4, <1>11, <2>3 DEF Chain
<1> QED BY <1>1, <1>2, <1>10, <1>12 DEF Reported

\* A report goes on where it was.
LEMMA ReportAppend ==
  ASSUME NEW agent, NEW phase, NEW E, NEW M, Makes(agent, phase, E, M),
         NEW s \in Seq(E), NEW e \in E
  PROVE  /\ Report(agent, phase, s) \in Seq(M)
         /\ Report(agent, phase, Append(s, e)) = Told(agent, phase, Report(agent, phase, s), e)
<1>0. PICK n \in Nat : n = Len(s) OBVIOUS
<1> DEFINE t == Append(s, e)
           V == Seq(M)
           step(v, k) == Told(agent, phase, v, t[k])
           G == [p \in V \X (1..(n + 1)) |-> step(p[1], p[2])]
<1>1. n \in Nat /\ t \in Seq(E) /\ Len(t) = n + 1 /\ t[n + 1] = e /\ \A k \in 1..n : t[k] = s[k]
  BY <1>0
<1>2. PICK a : Reported(a, agent, phase, s, M) BY ReportChain
<1>3. PICK b : Reported(b, agent, phase, t, M)
  <2> HIDE DEF t
  <2> QED BY <1>1, ReportChain
<1>4. /\ a \in [0..n -> V] /\ a[0] = <<>> /\ a[n] = Report(agent, phase, s)
      /\ \A k \in 1..n : a[k] = Told(agent, phase, a[k - 1], s[k])
  BY <1>0, <1>2 DEF Reported
<1>5. /\ b \in [0..(n + 1) -> V] /\ b[0] = <<>> /\ b[n + 1] = Report(agent, phase, t)
      /\ \A k \in 1..(n + 1) : b[k] = step(b[k - 1], k)
  <2> HIDE DEF t
  <2> QED BY <1>1, <1>3 DEF Reported
<1>6. \A v \in V, k \in 1..(n + 1) : G[<<v, k>>] = step(v, k) OBVIOUS
<1>7. \A k \in 1..n : a[k] = G[<<a[k - 1], k>>] /\ b[k] = G[<<b[k - 1], k>>]
  <2> SUFFICES ASSUME NEW k \in 1..n PROVE a[k] = G[<<a[k - 1], k>>] /\ b[k] = G[<<b[k - 1], k>>]
      OBVIOUS
  <2>1. k - 1 \in 0..n /\ k - 1 \in 0..(n + 1) /\ k \in 1..(n + 1) BY <1>1
  <2>2. a[k - 1] \in V /\ b[k - 1] \in V BY <1>4, <1>5, <2>1
  <2>3. a[k] = step(a[k - 1], k) /\ b[k] = step(b[k - 1], k) BY <1>1, <1>4, <1>5, <2>1
  <2> HIDE DEF step, G, V, t
  <2> QED BY <1>6, <2>1, <2>2, <2>3
<1>8. a[n] = b[n]
  <2> HIDE DEF G, V, t
  <2>1. n \in Nat /\ a[0] = b[0] BY <1>1, <1>4, <1>5
  <2>2. Stepped(a, n, G) /\ Stepped(b, n, G) BY <1>7 DEF Stepped
  <2> QED BY <2>1, <2>2, ChainsAgree
<1>9. n + 1 \in 1..(n + 1) /\ (n + 1) - 1 = n /\ n \in 0..n BY <1>1
<1>10. b[n + 1] = Told(agent, phase, b[n], e)
  <2> HIDE DEF t
  <2> QED BY <1>1, <1>5, <1>9
<1> QED BY <1>4, <1>5, <1>8, <1>9, <1>10

\* Nothing written is nothing reported.
LEMMA ReportNothing == ASSUME NEW agent, NEW phase PROVE Report(agent, phase, <<>>) = <<>>
<1> DEFINE empty == <<>>
<1>1. empty \in Seq({}) /\ Len(empty) = 0 OBVIOUS
<1>2. Makes(agent, phase, {}, {}) BY DEF Makes
<1> HIDE DEF empty
<1>3. PICK h : Reported(h, agent, phase, empty, {}) BY <1>1, <1>2, ReportChain
<1> QED BY <1>1, <1>3 DEF Reported, empty

\* The messages of a phase: what its agent's lines may be to the screen.
Outs(agent, phase) == {ParseLine(agent, e, phase, {}).out : e \in StreamLines[agent]}

\* What a line is does not hang on what was shown, but for a highlight, which
\* is announced unless it was.
LEMMA ParsedAlike ==
  ASSUME NEW agent, NEW e, NEW phase, NEW seen \in SUBSET Highlights(phase)
  PROVE  LET out == ParseLine(agent, e, phase, {}).out
             now == ParseLine(agent, e, phase, seen)
         IN \/ out.kind # "highlight" /\ now.out = out /\ now.shown = seen
            \/ \E l \in Highlights(phase) :
                 /\ out = Highlight(l)
                 /\ now = IF l \in seen THEN [shown |-> seen, out |-> Nothing]
                          ELSE [shown |-> seen \cup {l}, out |-> Highlight(l)]
<1> DEFINE Alike(plain, now) ==
             \/ plain.out.kind # "highlight" /\ now.out = plain.out /\ now.shown = seen
             \/ \E l \in Highlights(phase) :
                  /\ plain.out = Highlight(l)
                  /\ now = IF l \in seen THEN [shown |-> seen, out |-> Nothing]
                           ELSE [shown |-> seen \cup {l}, out |-> Highlight(l)]
<1>1. ASSUME NEW tool PROVE Alike(FormatToolCall(tool, phase, {}), FormatToolCall(tool, phase, seen))
  <2>1. CASE Writes(tool) /\ tool.file \in Highlights(phase)
    <3>1. FormatToolCall(tool, phase, {}).out = Highlight(tool.file) BY <2>1 DEF FormatToolCall
    <3>2. FormatToolCall(tool, phase, seen)
            = IF tool.file \in seen THEN [shown |-> seen, out |-> Nothing]
              ELSE [shown |-> seen \cup {tool.file}, out |-> Highlight(tool.file)]
      BY <2>1 DEF FormatToolCall
    <3> QED BY <2>1, <3>1, <3>2
  <2>2. CASE ~(Writes(tool) /\ tool.file \in Highlights(phase))
    BY <2>2 DEF FormatToolCall, Nothing, Progress
  <2> QED BY <2>1, <2>2
<1>2. \A lines : Alike(Said({}, lines), Said(seen, lines)) BY DEF Said, Text
<1>3. Alike(Malformed({}), Malformed(seen)) /\ Alike(Ignored({}), Ignored(seen))
  BY DEF Malformed, Ignored, Nothing, Warning
<1>4. Alike([shown |-> {}, out |-> Warning("tool error")], [shown |-> seen, out |-> Warning("tool error")])
  BY DEF Warning
<1> HIDE DEF Alike
<1>5. Alike(ParseStreamLine(e, phase, {}), ParseStreamLine(e, phase, seen))
  BY <1>1, <1>2, <1>3 DEF ParseStreamLine
<1>6. Alike(ParsePiStreamLine(e, phase, {}), ParsePiStreamLine(e, phase, seen))
  BY <1>1, <1>2, <1>3, <1>4 DEF ParsePiStreamLine
<1>7. Alike(ParseLine(agent, e, phase, {}), ParseLine(agent, e, phase, seen))
  BY <1>5, <1>6 DEF ParseLine
<1> QED BY <1>7 DEF Alike

\* No line of an agent becomes a message of the runner's own.
LEMMA OutsAreTold ==
  ASSUME NEW agent, NEW e, NEW phase
  PROVE  LET out == ParseLine(agent, e, phase, {}).out
         IN out \notin AsideMessages /\ out.kind # "agent-done"
<1> DEFINE Plain(p) == p.out \notin AsideMessages /\ p.out.kind # "agent-done"
<1>1. ASSUME NEW tool PROVE Plain(FormatToolCall(tool, phase, {}))
  <2>1. FormatToolCall(tool, phase, {}).out \in {Nothing, Highlight(tool.file), Progress(tool.name)}
    BY DEF FormatToolCall
  <2> QED BY <2>1 DEF Nothing, Highlight, Progress, AsideMessages, Warning
<1>2. \A lines : Plain(Said({}, lines)) BY DEF Said, Text, AsideMessages, Warning
<1>3. Plain(Malformed({})) /\ Plain(Ignored({})) /\ Plain([shown |-> {}, out |-> Warning("tool error")])
  BY DEF Malformed, Ignored, Nothing, Warning, AsideMessages
<1> HIDE DEF Plain
<1>4. Plain(ParseStreamLine(e, phase, {})) /\ Plain(ParsePiStreamLine(e, phase, {}))
  BY <1>1, <1>2, <1>3 DEF ParseStreamLine, ParsePiStreamLine
<1> QED BY <1>4 DEF ParseLine, Plain

\* What may be on the screen of a phase; what of it is not the runner's own;
\* and what of that has been announced.
Screen(agent, phase) == Outs(agent, phase) \cup AsideMessages
Heard(messages) == Without(messages, AsideMessages)
Announced(messages, phase) == {l \in Highlights(phase) : Contains(messages, Highlight(l))}

\* A message that is put behind the others.
LEMMA Behind ==
  ASSUME NEW D, NEW s \in Seq(D), NEW m \in D
  PROVE  /\ Append(s, m) \in Seq(D) /\ s \o <<m>> = Append(s, m) /\ s \o <<>> = s
         /\ Len(s) \in Nat /\ Len(Append(s, m)) = Len(s) + 1
         /\ Append(s, m)[Len(s) + 1] = m /\ \A i \in 1..Len(s) : Append(s, m)[i] = s[i]
         /\ \A x : Contains(Append(s, m), x) <=> Contains(s, x) \/ x = m
<1> DEFINE t == Append(s, m)
<1>1. /\ t \in Seq(D) /\ s \o <<m>> = t /\ s \o <<>> = s
      /\ Len(s) \in Nat /\ Len(t) = Len(s) + 1
      /\ t[Len(s) + 1] = m /\ \A i \in 1..Len(s) : t[i] = s[i]
  OBVIOUS
<1> HIDE DEF t
<1>2. ASSUME NEW x PROVE Contains(t, x) <=> Contains(s, x) \/ x = m
  <2>1. 1..Len(t) = 1..Len(s) \cup {Len(s) + 1} BY <1>1
  <2> QED BY <1>1, <2>1 DEF Contains
<1> QED BY <1>1, <1>2 DEF t

\* A line that is pumped is told: on the screen is what the report has.
LineIsTold(agent, phase, e, messages, seen) ==
  LET now == ParseLine(agent, e, phase, seen)
      new == messages \o Messages(now.out)
  IN /\ Heard(new) = Told(agent, phase, Heard(messages), e)
     /\ now.shown = Announced(Heard(new), phase)
     /\ new = messages \/ (new = Append(messages, now.out) /\ now.out.kind # "agent-done")
     /\ new \in Seq(Screen(agent, phase))

LEMMA LineTold ==
  ASSUME NEW agent, NEW phase, NEW e \in StreamLines[agent],
         NEW messages \in Seq(Screen(agent, phase)),
         NEW seen, seen = Announced(Heard(messages), phase)
  PROVE  LineIsTold(agent, phase, e, messages, seen)
<1> DEFINE D == Screen(agent, phase)
           out == ParseLine(agent, e, phase, {}).out
           now == ParseLine(agent, e, phase, seen)
           acc == Heard(messages)
<1>1. out \in D /\ out \notin AsideMessages /\ out.kind # "agent-done"
  BY OutsAreTold DEF Screen, Outs
<1>2. \/ out.kind # "highlight" /\ now.out = out /\ now.shown = seen
      \/ \E l \in Highlights(phase) :
           /\ out = Highlight(l)
           /\ now = IF l \in seen THEN [shown |-> seen, out |-> Nothing]
                    ELSE [shown |-> seen \cup {l}, out |-> Highlight(l)]
  <2>1. seen \in SUBSET Highlights(phase) BY DEF Announced
  <2> QED BY <2>1, ParsedAlike
<1>3. Told(agent, phase, acc, e) = IF out.kind = "highlight" /\ Contains(acc, out) THEN acc ELSE acc \o Messages(out)
  BY DEF Told
<1> HIDE DEF D, out, now
<1>4. messages \in Seq(D) BY DEF D
<1>5. acc \in Seq(D) /\ Heard(Append(messages, out)) = Append(acc, out)
  BY <1>1, <1>4, WithoutAppend DEF Heard
<1> HIDE DEF acc
<1>6. messages \o <<>> = messages /\ acc \o <<>> = acc BY <1>1, <1>4, <1>5, Behind
<1>7. /\ messages \o <<out>> = Append(messages, out) /\ Append(messages, out) \in Seq(D)
      /\ acc \o <<out>> = Append(acc, out)
      /\ \A x : Contains(Append(acc, out), x) <=> Contains(acc, x) \/ x = out
  BY <1>1, <1>4, <1>5, Behind
<1>8. \A l : Highlight(l).kind = "highlight" /\ Highlight(l).label = l BY DEF Highlight
<1>9. ASSUME out.kind # "highlight", now.out = out, now.shown = seen
      PROVE  /\ Heard(messages \o Messages(now.out)) = Told(agent, phase, acc, e)
             /\ now.shown = Announced(Heard(messages \o Messages(now.out)), phase)
             /\ \/ messages \o Messages(now.out) = messages
                \/ messages \o Messages(now.out) = Append(messages, out)
  <2>1. \A l : Highlight(l) # out BY <1>8, <1>9
  <2>2. CASE IsEmpty(out)
    <3>1. Messages(out) = <<>> BY <2>2 DEF Messages
    <3> QED BY <1>3, <1>4, <1>6, <1>9, <3>1 DEF acc, D, now
  <2>3. CASE ~IsEmpty(out)
    <3>1. Messages(out) = <<out>> BY <2>3 DEF Messages
    <3>2. messages \o Messages(now.out) = Append(messages, out) BY <1>7, <1>9, <3>1
    <3>3. Told(agent, phase, acc, e) = Append(acc, out) BY <1>3, <1>7, <1>9, <3>1
    <3>4. Announced(Append(acc, out), phase) = Announced(acc, phase)
      BY <1>7, <2>1 DEF Announced
    <3> QED BY <1>1, <1>5, <1>7, <1>9, <3>2, <3>3, <3>4 DEF acc, D, now
  <2> QED BY <2>2, <2>3
<1>10. ASSUME NEW l \in Highlights(phase), out = Highlight(l), l \in seen,
              now = [shown |-> seen, out |-> Nothing]
       PROVE  /\ Heard(messages \o Messages(now.out)) = Told(agent, phase, acc, e)
              /\ now.shown = Announced(Heard(messages \o Messages(now.out)), phase)
              /\ messages \o Messages(now.out) = messages
  <2>1. Contains(acc, out) BY <1>10 DEF Announced, acc
  <2>2. Told(agent, phase, acc, e) = acc BY <1>3, <1>8, <1>10, <2>1
  <2>3. Messages(now.out) = <<>> BY <1>10 DEF Messages, IsEmpty
  <2> QED BY <1>6, <1>10, <2>2, <2>3 DEF acc
<1>11. ASSUME NEW l \in Highlights(phase), out = Highlight(l), l \notin seen,
              now = [shown |-> seen \cup {l}, out |-> out]
       PROVE  /\ Heard(messages \o Messages(now.out)) = Told(agent, phase, acc, e)
              /\ now.shown = Announced(Heard(messages \o Messages(now.out)), phase)
              /\ messages \o Messages(now.out) = Append(messages, now.out)
  <2>1. ~Contains(acc, out) BY <1>11 DEF Announced, acc
  <2>2. ~IsEmpty(out) BY <1>8, <1>11 DEF IsEmpty, Nothing
  <2>3. Messages(out) = <<out>> BY <2>2 DEF Messages
  <2>4. Told(agent, phase, acc, e) = Append(acc, out) BY <1>3, <1>7, <2>1, <2>3
  <2>5. messages \o Messages(now.out) = Append(messages, out) BY <1>7, <1>11, <2>3
  <2>6. Announced(Append(acc, out), phase) = Announced(acc, phase) \cup {l}
    <3>1. \A k : Highlight(k) = out <=> k = l BY <1>8, <1>11
    <3> QED BY <1>7, <3>1 DEF Announced
  <2> QED BY <1>5, <1>11, <2>4, <2>5, <2>6 DEF acc
<1> DEFINE new == messages \o Messages(now.out)
           Goal == /\ Heard(new) = Told(agent, phase, acc, e)
                   /\ now.shown = Announced(Heard(new), phase)
                   /\ new = messages \/ (new = Append(messages, now.out) /\ now.out.kind # "agent-done")
                   /\ new \in Seq(D)
<1>12. ASSUME NEW l \in Highlights(phase), out = Highlight(l),
              now = IF l \in seen THEN [shown |-> seen, out |-> Nothing]
                    ELSE [shown |-> seen \cup {l}, out |-> Highlight(l)]
       PROVE  Goal
  <2>1. CASE l \in seen
    <3>1. now = [shown |-> seen, out |-> Nothing] BY <1>12, <2>1
    <3> QED BY <1>4, <1>10, <1>12, <2>1, <3>1
  <2>2. CASE l \notin seen
    <3>1. now = [shown |-> seen \cup {l}, out |-> out] BY <1>12, <2>2
    <3>2. now.out = out BY <3>1
    <3> QED BY <1>1, <1>7, <1>11, <1>12, <2>2, <3>1, <3>2
  <2> QED BY <2>1, <2>2
<1>13. ASSUME out.kind # "highlight", now.out = out, now.shown = seen PROVE Goal
  <2>1. /\ Heard(new) = Told(agent, phase, acc, e)
        /\ now.shown = Announced(Heard(new), phase)
        /\ new = messages \/ new = Append(messages, out)
    BY <1>9, <1>13
  <2> HIDE DEF new
  <2>2. new = messages \/ (new = Append(messages, now.out) /\ now.out.kind # "agent-done")
    BY <1>1, <1>13, <2>1
  <2>3. new \in Seq(D) BY <1>4, <1>7, <2>1
  <2> QED BY <2>1, <2>2, <2>3
<1>14. Goal
  <2>1. CASE out.kind # "highlight" /\ now.out = out /\ now.shown = seen
    <3> HIDE DEF Goal
    <3> QED BY <1>13, <2>1
  <2>2. CASE \E l \in Highlights(phase) :
               /\ out = Highlight(l)
               /\ now = IF l \in seen THEN [shown |-> seen, out |-> Nothing]
                        ELSE [shown |-> seen \cup {l}, out |-> Highlight(l)]
    <3>1. PICK l \in Highlights(phase) :
            /\ out = Highlight(l)
            /\ now = IF l \in seen THEN [shown |-> seen, out |-> Nothing]
                     ELSE [shown |-> seen \cup {l}, out |-> Highlight(l)]
      BY <2>2
    <3> HIDE DEF Goal
    <3> QED BY <1>12, <3>1
  <2> QED BY <1>2, <2>1, <2>2
<1> QED BY <1>14 DEF acc, D, now, LineIsTold

-----------------------------------------------------------------------------
(* One headless agent.                                                     *)

Lines == StreamLines[job.agent]

Results == {"none", "not started", "read error", "ok", "failed"}

AgentTypeOK ==
  /\ runner \in {"idle", "setup", "starting", "pumping", "waiting", "joining", "done"}
  /\ stdout \in [lines : Seq(Lines), open : BOOLEAN]
  /\ stderr \in [lines : Seq(Nat), open : BOOLEAN]
  /\ child \in [alive : BOOLEAN, code : {"none", "ok", "failed"}, helper : BOOLEAN]
  /\ tail \in [lines : Seq(Nat), draining : BOOLEAN, warned : BOOLEAN]
  /\ sent \in Seq(Screen(job.agent, job.phase))
  /\ wrote \in Seq(Lines) /\ complained \in Nat
  /\ result \in Results

\* What was read of stdout is on the screen, and nothing else of the agent's.
ScreenHasWhatWasRead ==
  /\ shown = Announced(Heard(sent), job.phase)
  /\ stdout.open =>
       \E read \in Seq(Lines) :
         wrote = read \o stdout.lines /\ Heard(sent) = Report(job.agent, job.phase, read)
  /\ ~stdout.open => result = "read error" \/ Heard(sent) = Report(job.agent, job.phase, wrote)
  /\ runner \in {"setup", "starting", "pumping"} => stdout.open
  /\ runner \in {"waiting", "joining"} => ~stdout.open
  /\ result \in {"ok", "failed"} => runner = "done" /\ ~stdout.open

\* The drain goes on until the child is gone and its pipe empty; the run is not
\* done before that, and nobody sends anything afterwards.
DoneIsLast ==
  /\ runner \in {"idle", "setup", "starting", "done"} => ~tail.draining
  /\ ~tail.draining => ~child.alive /\ stderr.lines = <<>>
  /\ \A i \in 1..Len(sent) : sent[i].kind = "agent-done" => runner = "done" /\ i = Len(sent)

\* The last that was said on stderr is the last in its pipe or, once that is
\* empty, in the buffer.
LastWordsKept ==
  /\ stderr.lines # <<>> => Last(stderr.lines) = complained
  /\ stderr.lines = <<>> /\ complained > 0 => tail.lines # <<>> /\ Last(tail.lines) = complained

AgentInv == AgentTypeOK /\ ScreenHasWhatWasRead /\ DoneIsLast /\ LastWordsKept

\* Nobody has said anything at the start, whichever agent it is.
LEMMA AgentInitInv == AgentInit \/ AgentIdle => AgentInv
<1> SUFFICES ASSUME AgentInit \/ AgentIdle PROVE AgentInv
    OBVIOUS
<1>1. /\ runner \in {"idle", "setup"}
      /\ stdout = Pipe /\ stderr = Pipe /\ child = [alive |-> FALSE, code |-> "none", helper |-> FALSE]
      /\ shown = {} /\ tail = [lines |-> <<>>, draining |-> FALSE, warned |-> FALSE]
      /\ sent = <<>> /\ result = "none" /\ wrote = <<>> /\ complained = 0
  BY DEF AgentInit, AgentIdle
<1>2. AgentTypeOK
  <2>1. result \in Results BY <1>1 DEF Results
  <2> QED BY <1>1, <2>1 DEF AgentTypeOK, Pipe
<1>3. Heard(<<>>) = <<>>
  <2>1. "x" \in {"x"} OBVIOUS
  <2>2. [kind |-> "agent-done"] \in AsideMessages BY DEF AsideMessages
  <2> QED BY <2>2, WithoutOne DEF Heard
<1>4. Announced(<<>>, job.phase) = {}
  <2>1. \A x : ~Contains(<<>>, x) BY DEF Contains
  <2> QED BY <2>1 DEF Announced
<1>5. <<>> \in Seq(Lines) /\ <<>> = <<>> \o <<>> OBVIOUS
<1>6. ScreenHasWhatWasRead
  <2>1. stdout.open /\ stdout.lines = <<>> BY <1>1 DEF Pipe
  <2>2. Heard(sent) = Report(job.agent, job.phase, <<>>) BY <1>1, <1>3, ReportNothing
  <2> QED BY <1>1, <1>3, <1>4, <1>5, <2>1, <2>2 DEF ScreenHasWhatWasRead
<1>7. DoneIsLast /\ LastWordsKept BY <1>1 DEF DoneIsLast, LastWordsKept, Pipe
<1> QED BY <1>2, <1>6, <1>7 DEF AgentInv

\* A message of the runner's own is not one of the agent's.
LEMMA AsideIsNotHeard ==
  ASSUME NEW agent, NEW phase, NEW messages \in Seq(Screen(agent, phase)), NEW m \in AsideMessages
  PROVE  /\ Heard(Append(messages, m)) = Heard(messages)
         /\ Append(messages, m) \in Seq(Screen(agent, phase))
<1>1. m \in Screen(agent, phase) BY DEF Screen
<1> QED BY <1>1, WithoutAppend, Behind DEF Heard

\* What is written to the end of a pipe is read from its front, in order.
InOrder(read, left, e) == Append(read \o left, e) = read \o Append(left, e)

LEMMA WrittenInOrder ==
  ASSUME NEW D, NEW read \in Seq(D), NEW left \in Seq(D), NEW e \in D
  PROVE  InOrder(read, left, e)
BY DEF InOrder

ReadOne(D, read, left) ==
  /\ Head(left) \in D /\ Tail(left) \in Seq(D)
  /\ Append(read, Head(left)) \o Tail(left) = read \o left
  /\ Tail(left) # <<>> => Last(Tail(left)) = Last(left)
  /\ Tail(left) = <<>> => Last(left) = Head(left)

LEMMA ReadInOrder ==
  ASSUME NEW D, NEW read \in Seq(D), NEW left \in Seq(D), left # <<>>
  PROVE  ReadOne(D, read, left)
<1>1. Head(left) \in D /\ Tail(left) \in Seq(D) OBVIOUS
<1>2. Append(read, Head(left)) \o Tail(left) = read \o left OBVIOUS
<1>3. Tail(left) # <<>> => Last(Tail(left)) = Last(left) BY DEF Last
<1>4. ASSUME Tail(left) = <<>> PROVE Last(left) = Head(left)
  <2>1. PICK n \in Nat : n = Len(left) OBVIOUS
  <2> DEFINE l == Len(Tail(left))
  <2>2. l = n - 1 BY <2>1, HeadTailProperties
  <2>3. l = 0 BY <1>1, <1>4, EmptySeq
  <2>4. n = 1
    <3> HIDE DEF l
    <3> QED BY <2>2, <2>3
  <2>5. Last(left) = left[n] BY <2>1 DEF Last
  <2> QED BY <2>4, <2>5
<1> QED BY <1>1, <1>2, <1>3, <1>4 DEF ReadOne

\* What is written last is last.
LEMMA NewLast ==
  ASSUME NEW D, NEW s \in Seq(D), NEW e \in D
  PROVE  Append(s, e) \in Seq(D) /\ Append(s, e) # <<>> /\ Last(Append(s, e)) = e
<1> DEFINE t == Append(s, e)
<1>1. t \in Seq(D) /\ Len(s) \in Nat /\ Len(t) = Len(s) + 1 /\ t[Len(s) + 1] = e OBVIOUS
<1> HIDE DEF t
<1>2. t # <<>> BY <1>1
<1>3. Last(t) = e BY <1>1 DEF Last
<1> QED BY <1>1, <1>2, <1>3 DEF t

\* What the child does.
LEMMA ChildKeeps == AgentInv /\ ChildNext => AgentInv'
<1> SUFFICES ASSUME AgentInv, ChildNext PROVE AgentInv'
    OBVIOUS
<1>1. CASE \E line \in StreamLines[job.agent] : WriteStdout(line)
  <2>1. PICK line \in Lines : WriteStdout(line) BY <1>1 DEF Lines
  <2>2. /\ stdout.open /\ stdout' = [stdout EXCEPT !.lines = Append(@, line)] /\ wrote' = Append(wrote, line)
        /\ UNCHANGED <<job, child, stderr, runner, shown, tail, sent, result, complained>>
    BY <2>1 DEF WriteStdout, CanWrite
  <2>3. stdout.lines \in Seq(Lines) /\ wrote \in Seq(Lines) BY DEF AgentInv, AgentTypeOK
  <2>4. stdout'.open = stdout.open /\ stdout'.lines = Append(stdout.lines, line) /\ Lines' = Lines
    BY <2>2 DEF AgentInv, AgentTypeOK, Lines
  <2>a. Append(stdout.lines, line) \in Seq(Lines) /\ Append(wrote, line) \in Seq(Lines) BY <2>3
  <2>5. AgentTypeOK'
    <3> HIDE DEF Lines
    <3>1. stdout' \in [lines : Seq(Lines'), open : BOOLEAN] /\ wrote' \in Seq(Lines')
      BY <2>2, <2>4, <2>a DEF AgentInv, AgentTypeOK
    <3> QED BY <2>2, <3>1 DEF AgentInv, AgentTypeOK
  <2>6. PICK read \in Seq(Lines) :
          wrote = read \o stdout.lines /\ Heard(sent) = Report(job.agent, job.phase, read)
    BY <2>2 DEF AgentInv, ScreenHasWhatWasRead
  <2>7. wrote' = read \o stdout'.lines
    <3> HIDE DEF Lines
    <3> DEFINE left == stdout.lines
    <3>0. left \in Seq(Lines) BY <2>3
    <3>2. read \in Seq(Lines) /\ line \in Lines BY <2>1, <2>6
    <3> HIDE DEF left
    <3>1. InOrder(read, left, line) BY <3>0, <3>2, WrittenInOrder
    <3> QED BY <2>2, <2>4, <2>6, <3>1 DEF left, InOrder
  <2>8. ScreenHasWhatWasRead'
    BY <2>2, <2>4, <2>6, <2>7 DEF AgentInv, ScreenHasWhatWasRead
  <2>9. DoneIsLast' /\ LastWordsKept' BY <2>2 DEF AgentInv, DoneIsLast, LastWordsKept
  <2> QED BY <2>5, <2>8, <2>9 DEF AgentInv
<1>2. CASE WriteStderr
  <2>1. /\ child.alive /\ stderr' = [stderr EXCEPT !.lines = Append(@, complained + 1)]
        /\ complained' = complained + 1
        /\ UNCHANGED <<job, child, stdout, runner, shown, tail, sent, result, wrote>>
    BY <1>2 DEF WriteStderr, CanWrite
  <2>a. stderr.lines \in Seq(Nat) /\ complained \in Nat BY DEF AgentInv, AgentTypeOK
  <2>2. stderr.lines \in Seq(Nat) /\ complained \in Nat /\ complained + 1 \in Nat BY <2>a
  <2>3. stderr'.lines = Append(stderr.lines, complained + 1) BY <2>1 DEF AgentInv, AgentTypeOK
  <2>4. /\ Append(stderr.lines, complained + 1) \in Seq(Nat)
        /\ Append(stderr.lines, complained + 1) # <<>>
        /\ Last(Append(stderr.lines, complained + 1)) = complained + 1
    BY <2>2, NewLast
  <2>5. Lines' = Lines BY <2>1 DEF Lines
  <2>6. AgentTypeOK' BY <2>1, <2>2, <2>4, <2>5 DEF AgentInv, AgentTypeOK
  <2>7. ScreenHasWhatWasRead' BY <2>1, <2>5 DEF AgentInv, ScreenHasWhatWasRead
  <2>8. DoneIsLast' BY <2>1 DEF AgentInv, DoneIsLast
  <2>9. LastWordsKept' BY <2>1, <2>3, <2>4 DEF LastWordsKept
  <2> QED BY <2>6, <2>7, <2>8, <2>9 DEF AgentInv
<1>3. CASE (\E code \in {"ok", "failed"} : Exit(code)) \/ LeaveHelper \/ HelperExits
  <2>1. /\ child' \in [alive : BOOLEAN, code : {"none", "ok", "failed"}, helper : BOOLEAN]
        /\ child'.alive => child.alive
        /\ UNCHANGED <<job, stdout, stderr, runner, shown, tail, sent, result, wrote, complained>>
    BY <1>3 DEF Exit, LeaveHelper, HelperExits, AgentInv, AgentTypeOK
  <2>2. Lines' = Lines BY <2>1 DEF Lines
  <2>3. AgentTypeOK' BY <2>1, <2>2 DEF AgentInv, AgentTypeOK
  <2>4. ScreenHasWhatWasRead' BY <2>1, <2>2 DEF AgentInv, ScreenHasWhatWasRead
  <2>5. DoneIsLast' /\ LastWordsKept' BY <2>1 DEF AgentInv, DoneIsLast, LastWordsKept
  <2> QED BY <2>3, <2>4, <2>5 DEF AgentInv
<1> QED BY <1>1, <1>2, <1>3 DEF ChildNext

\* A message behind the others is the last word only if it is AgentDone.
LEMMA LastWord ==
  ASSUME NEW D, NEW s \in Seq(D), NEW m \in D, \A i \in 1..Len(s) : s[i].kind # "agent-done"
  PROVE  \A i \in 1..Len(Append(s, m)) :
           Append(s, m)[i].kind = "agent-done" => m.kind = "agent-done" /\ i = Len(Append(s, m))
<1> DEFINE t == Append(s, m)
<1>1. /\ Len(s) \in Nat /\ Len(t) = Len(s) + 1 /\ t[Len(s) + 1] = m
      /\ \A i \in 1..Len(s) : t[i] = s[i]
  OBVIOUS
<1> HIDE DEF t
<1>2. 1..Len(t) = 1..Len(s) \cup {Len(s) + 1} BY <1>1
<1>3. \A i \in 1..Len(t) : t[i].kind = "agent-done" => m.kind = "agent-done" /\ i = Len(t)
  BY <1>1, <1>2
<1> QED BY <1>3 DEF t

\* What the pump does.
LEMMA PumpKeeps == AgentInv /\ PumpStdoutToUi => AgentInv'
<1> SUFFICES ASSUME AgentInv, PumpStdoutToUi PROVE AgentInv'
    OBVIOUS
<1>1. stdout.lines \in Seq(Lines) /\ wrote \in Seq(Lines) /\ sent \in Seq(Screen(job.agent, job.phase))
  BY DEF AgentInv, AgentTypeOK
<1>2. CASE PumpLine
  <2> DEFINE left == stdout.lines
             now == ParseLine(job.agent, Head(left), job.phase, shown)
             new == sent \o Messages(now.out)
  <2>1. /\ runner = "pumping" /\ left # <<>>
        /\ shown' = now.shown /\ sent' = new
        /\ stdout' = [stdout EXCEPT !.lines = Tail(@)]
        /\ UNCHANGED <<job, child, stderr, runner, tail, result, wrote, complained>>
    BY <1>2 DEF PumpLine
  <2>2. stdout.open /\ shown = Announced(Heard(sent), job.phase)
    BY <2>1 DEF AgentInv, ScreenHasWhatWasRead
  <2>3. PICK read \in Seq(Lines) : wrote = read \o left /\ Heard(sent) = Report(job.agent, job.phase, read)
    BY <2>2 DEF AgentInv, ScreenHasWhatWasRead
  <2>4. /\ stdout'.open = stdout.open /\ stdout'.lines = Tail(left) /\ Lines' = Lines
        /\ stdout' \in [lines : {Tail(left)}, open : BOOLEAN]
    BY <2>1 DEF AgentInv, AgentTypeOK, Lines
  <2>5. ReadOne(Lines, read, left)
    <3> HIDE DEF left, Lines
    <3> QED BY <1>1, <2>1, ReadInOrder DEF left
  <2>6. /\ Heard(new) = Told(job.agent, job.phase, Heard(sent), Head(left))
        /\ now.shown = Announced(Heard(new), job.phase)
        /\ new = sent \/ (new = Append(sent, now.out) /\ now.out.kind # "agent-done")
        /\ new \in Seq(Screen(job.agent, job.phase))
    <3>1. Head(left) \in StreamLines[job.agent] BY <2>5 DEF ReadOne, Lines
    <3>2. LineIsTold(job.agent, job.phase, Head(left), sent, shown)
      <4> HIDE DEF left
      <4> QED BY <1>1, <2>2, <3>1, LineTold
    <3> QED BY <3>2 DEF LineIsTold
  <2> HIDE DEF left, now, new
  <2>7. AgentTypeOK'
    <3>1. stdout' \in [lines : Seq(Lines'), open : BOOLEAN] BY <2>4, <2>5 DEF ReadOne
    <3>2. sent' \in Seq(Screen(job.agent, job.phase)) BY <2>1, <2>6
    <3> HIDE DEF Lines
    <3> QED BY <2>1, <2>4, <3>1, <3>2 DEF AgentInv, AgentTypeOK
  <2>8. /\ Append(read, Head(left)) \in Seq(Lines) /\ wrote = Append(read, Head(left)) \o Tail(left)
        /\ Heard(new) = Report(job.agent, job.phase, Append(read, Head(left)))
    <3>1. Head(left) \in Lines BY <2>5 DEF ReadOne
    <3>2. Makes(job.agent, job.phase, Lines, Screen(job.agent, job.phase))
      BY DEF Makes, Lines, Screen, Outs
    <3> HIDE DEF Lines
    <3>3. Append(read, Head(left)) \in Seq(Lines) BY <3>1
    <3>4. Report(job.agent, job.phase, Append(read, Head(left)))
            = Told(job.agent, job.phase, Report(job.agent, job.phase, read), Head(left))
      BY <3>1, <3>2, ReportAppend
    <3> QED BY <2>3, <2>5, <2>6, <3>3, <3>4 DEF ReadOne
  <2>9. ScreenHasWhatWasRead'
    <3> HIDE DEF Lines
    <3> QED BY <2>1, <2>2, <2>4, <2>6, <2>8 DEF AgentInv, ScreenHasWhatWasRead
  <2>10. DoneIsLast'
    <3>1. \A i \in 1..Len(sent) : sent[i].kind # "agent-done" BY <2>1 DEF AgentInv, DoneIsLast
    <3>2. \A i \in 1..Len(new) : new[i].kind # "agent-done"
      <4>1. CASE new = sent BY <3>1, <4>1
      <4>2. CASE new = Append(sent, now.out) /\ now.out.kind # "agent-done"
        <5>1. sent \in Seq(Screen(job.agent, job.phase) \cup {now.out}) BY <1>1
        <5> QED BY <3>1, <4>2, <5>1, LastWord
      <4> QED BY <2>6, <4>1, <4>2
    <3> QED BY <2>1, <3>2 DEF AgentInv, DoneIsLast
  <2>11. LastWordsKept' BY <2>1 DEF AgentInv, LastWordsKept
  <2> QED BY <2>7, <2>9, <2>10, <2>11 DEF AgentInv
<1>3. CASE PumpFails
  <2>1. /\ runner = "pumping" /\ runner' = "waiting" /\ result' = "read error"
        /\ stdout' = [lines |-> <<>>, open |-> FALSE]
        /\ UNCHANGED <<job, child, stderr, shown, tail, sent, wrote, complained>>
    BY <1>3 DEF PumpFails
  <2>2. Lines' = Lines /\ result' \in Results
    <3>1. "read error" \in Results BY Zenon DEF Results
    <3> QED BY <2>1, <3>1, Zenon DEF Lines
  <2>3. AgentTypeOK'
    <3>1. /\ runner' = "waiting" /\ stdout' = [lines |-> <<>>, open |-> FALSE]
          /\ UNCHANGED <<job, child, stderr, tail, sent, wrote, complained>>
      BY <2>1
    <3> QED BY <2>2, <3>1 DEF AgentInv, AgentTypeOK
  <2>4. ScreenHasWhatWasRead' BY <2>1, <2>2 DEF AgentInv, ScreenHasWhatWasRead
  <2>5. DoneIsLast' /\ LastWordsKept' BY <2>1 DEF AgentInv, DoneIsLast, LastWordsKept
  <2> QED BY <2>3, <2>4, <2>5 DEF AgentInv
<1>4. CASE PumpEnds
  <2>1. /\ runner = "pumping" /\ runner' = "waiting" /\ stdout.lines = <<>>
        /\ stdout' = [stdout EXCEPT !.open = FALSE]
        /\ UNCHANGED <<job, child, stderr, shown, tail, sent, result, wrote, complained>>
    BY <1>4 DEF PumpEnds, Eof
  <2>2. Lines' = Lines /\ stdout' \in [lines : {<<>>}, open : {FALSE}]
    BY <2>1 DEF Lines, AgentInv, AgentTypeOK
  <2>3. AgentTypeOK' BY <2>1, <2>2 DEF AgentInv, AgentTypeOK
  <2>4. stdout.open BY <2>1 DEF AgentInv, ScreenHasWhatWasRead
  <2>5. PICK read \in Seq(Lines) : wrote = read \o <<>> /\ Heard(sent) = Report(job.agent, job.phase, read)
    BY <2>1, <2>4 DEF AgentInv, ScreenHasWhatWasRead
  <2>6. read \o <<>> = read OBVIOUS
  <2>7. ScreenHasWhatWasRead' BY <2>1, <2>2, <2>5, <2>6 DEF AgentInv, ScreenHasWhatWasRead
  <2>8. DoneIsLast' /\ LastWordsKept' BY <2>1 DEF AgentInv, DoneIsLast, LastWordsKept
  <2> QED BY <2>3, <2>7, <2>8 DEF AgentInv
<1> QED BY <1>2, <1>3, <1>4 DEF PumpStdoutToUi

\* What the drain does.
LEMMA DrainKeeps == AgentInv /\ StderrDrain => AgentInv'
<1> SUFFICES ASSUME AgentInv, StderrDrain PROVE AgentInv'
    OBVIOUS
<1>1. CASE DrainLine
  <2> DEFINE left == stderr.lines
             all == Append(tail.lines, Head(left))
             over == Len(all) > StderrCap
  <2>1. /\ tail.draining /\ left # <<>>
        /\ stderr' = [stderr EXCEPT !.lines = Tail(@)]
        /\ tail' = [tail EXCEPT !.lines = IF over THEN Tail(all) ELSE all, !.warned = @ \/ over]
        /\ sent' = sent \/ sent' = Append(sent, Warning("overflow"))
        /\ UNCHANGED <<job, child, stdout, runner, shown, result, wrote, complained>>
    BY <1>1 DEF DrainLine
  <2>2. left \in Seq(Nat) /\ tail.lines \in Seq(Nat) /\ sent \in Seq(Screen(job.agent, job.phase))
    BY DEF AgentInv, AgentTypeOK
  <2>3. /\ Head(left) \in Nat /\ Tail(left) \in Seq(Nat)
        /\ Tail(left) # <<>> => Last(Tail(left)) = Last(left)
        /\ Tail(left) = <<>> => Last(left) = Head(left)
    <3>1. ReadOne(Nat, <<>>, left)
      <4>1. <<>> \in Seq(Nat) OBVIOUS
      <4> HIDE DEF left
      <4> QED BY <2>1, <2>2, <4>1, ReadInOrder DEF left
    <3> QED BY <3>1 DEF ReadOne
  <2>4. all \in Seq(Nat) /\ all # <<>> /\ Last(all) = Head(left)
    BY <2>2, <2>3, NewLast
  <2>5. over => Tail(all) \in Seq(Nat) /\ Tail(all) # <<>> /\ Last(Tail(all)) = Last(all)
    <3> HIDE DEF all
    <3> SUFFICES ASSUME over PROVE Tail(all) \in Seq(Nat) /\ Tail(all) # <<>> /\ Last(Tail(all)) = Last(all)
        OBVIOUS
    <3>1. Len(all) \in Nat /\ StderrCap \in Nat \ {0} BY <2>4, ProcessAssumption
    <3>2. Len(all) > 1 BY <3>1
    <3> DEFINE n == Len(all)
               rest == Tail(all)
               l == Len(rest)
    <3>3. l = n - 1 BY <2>4, HeadTailProperties
    <3>4. rest # <<>>
      <4>1. rest = <<>> => l = 0 BY EmptySeq
      <4> HIDE DEF l, n, rest
      <4>2. n \in Nat /\ n > 1 BY <3>1, <3>2 DEF n
      <4> QED BY <3>3, <4>1, <4>2
    <3>5. ReadOne(Nat, <<>>, all)
      <4>1. <<>> \in Seq(Nat) OBVIOUS
      <4> QED BY <2>4, <4>1, ReadInOrder
    <3> QED BY <3>4, <3>5 DEF ReadOne
  <2> HIDE DEF left, all, over
  <2>6. /\ tail'.lines \in Seq(Nat) /\ tail'.lines # <<>> /\ Last(tail'.lines) = Head(left)
        /\ tail'.draining /\ tail' \in [lines : {tail'.lines}, draining : BOOLEAN, warned : BOOLEAN]
    <3>1. over \in BOOLEAN BY DEF over
    <3>2. tail \in [lines : Seq(Nat), draining : BOOLEAN, warned : BOOLEAN] BY DEF AgentInv, AgentTypeOK
    <3>3. tail'.lines = IF over THEN Tail(all) ELSE all BY <2>1, <3>2
    <3>4. tail'.draining /\ tail' \in [lines : {tail'.lines}, draining : BOOLEAN, warned : BOOLEAN]
      BY <2>1, <3>1, <3>2
    <3> QED BY <2>4, <2>5, <3>3, <3>4
  <2>7. stderr'.lines = Tail(left) /\ stderr' \in [lines : {Tail(left)}, open : BOOLEAN]
    BY <2>1 DEF AgentInv, AgentTypeOK, left
  <2>8. /\ sent' \in Seq(Screen(job.agent, job.phase)) /\ Heard(sent') = Heard(sent)
    <3>1. Warning("overflow") \in AsideMessages BY DEF AsideMessages
    <3> QED BY <2>1, <2>2, <3>1, AsideIsNotHeard
  <2>9. Lines' = Lines BY <2>1 DEF Lines
  <2>10. AgentTypeOK'
    <3>1. /\ stderr' \in [lines : Seq(Nat), open : BOOLEAN]
          /\ tail' \in [lines : Seq(Nat), draining : BOOLEAN, warned : BOOLEAN]
      BY <2>3, <2>6, <2>7
    <3> HIDE DEF Lines
    <3> QED BY <2>1, <2>8, <2>9, <3>1 DEF AgentInv, AgentTypeOK
  <2>11. ScreenHasWhatWasRead'
    <3> HIDE DEF Lines
    <3> QED BY <2>1, <2>8, <2>9 DEF AgentInv, ScreenHasWhatWasRead
  <2>12. DoneIsLast'
    <3>0. runner \notin {"idle", "setup", "starting", "done"} BY <2>1 DEF AgentInv, DoneIsLast
    <3>1. \A i \in 1..Len(sent) : sent[i].kind # "agent-done" BY <3>0 DEF AgentInv, DoneIsLast
    <3>2. \A i \in 1..Len(sent') : sent'[i].kind # "agent-done"
      <4>1. CASE sent' = sent BY <3>1, <4>1
      <4>2. CASE sent' = Append(sent, Warning("overflow"))
        <5>1. Warning("overflow") \in Screen(job.agent, job.phase) BY DEF Screen, AsideMessages
        <5>2. Warning("overflow").kind # "agent-done" BY DEF Warning
        <5> QED BY <2>2, <3>1, <4>2, <5>1, <5>2, LastWord
      <4> QED BY <2>1, <4>1, <4>2
    <3> QED BY <2>1, <2>6, <3>0, <3>2 DEF DoneIsLast
  <2>13. LastWordsKept'
    <3>1. Last(left) = complained BY <2>1 DEF AgentInv, LastWordsKept, left
    <3> QED BY <2>1, <2>3, <2>6, <2>7, <3>1 DEF LastWordsKept
  <2> QED BY <2>10, <2>11, <2>12, <2>13 DEF AgentInv
<1>2. CASE DrainEnds
  <2>1. /\ tail.draining /\ stderr.lines = <<>> /\ ~child.alive
        /\ tail' = [tail EXCEPT !.draining = FALSE]
        /\ UNCHANGED <<job, child, stdout, stderr, runner, shown, sent, result, wrote, complained>>
    BY <1>2 DEF DrainEnds, Eof
  <2>2. /\ tail'.lines = tail.lines /\ ~tail'.draining /\ Lines' = Lines
        /\ tail' \in [lines : Seq(Nat), draining : BOOLEAN, warned : BOOLEAN]
    BY <2>1 DEF AgentInv, AgentTypeOK, Lines
  <2>3. AgentTypeOK' BY <2>1, <2>2 DEF AgentInv, AgentTypeOK
  <2>4. ScreenHasWhatWasRead' BY <2>1, <2>2 DEF AgentInv, ScreenHasWhatWasRead
  <2>5. DoneIsLast' /\ LastWordsKept' BY <2>1, <2>2 DEF AgentInv, DoneIsLast, LastWordsKept
  <2> QED BY <2>3, <2>4, <2>5 DEF AgentInv
<1> QED BY <1>1, <1>2 DEF StderrDrain

\* What the runner does: before the agent, and behind it.
LEMMA RunnerKeeps == AgentInv /\ (SetUp \/ InvokeClaude \/ InvokePi \/ RunStreamingChild) => AgentInv'
<1> SUFFICES ASSUME AgentInv, SetUp \/ InvokeClaude \/ InvokePi \/ RunStreamingChild PROVE AgentInv'
    OBVIOUS
<1>0. sent \in Seq(Screen(job.agent, job.phase)) BY DEF AgentInv, AgentTypeOK
<1>1. CASE SetUp
  <2>1. /\ runner = "setup" /\ runner' = "starting"
        /\ sent' = sent \/ sent' = Append(sent, Warning("setup"))
        /\ UNCHANGED <<job, child, stdout, stderr, shown, tail, result, wrote, complained>>
    BY <1>1 DEF SetUp
  <2>2. Warning("setup") \in AsideMessages /\ Warning("setup").kind # "agent-done"
    BY DEF AsideMessages, Warning
  <2>3. sent' \in Seq(Screen(job.agent, job.phase)) /\ Heard(sent') = Heard(sent)
    BY <1>0, <2>1, <2>2, AsideIsNotHeard
  <2>4. Lines' = Lines BY <2>1 DEF Lines
  <2>5. AgentTypeOK' BY <2>1, <2>3, <2>4 DEF AgentInv, AgentTypeOK
  <2>6. ScreenHasWhatWasRead' BY <2>1, <2>3, <2>4 DEF AgentInv, ScreenHasWhatWasRead
  <2>7. DoneIsLast'
    <3>1. \A i \in 1..Len(sent) : sent[i].kind # "agent-done" BY <2>1 DEF AgentInv, DoneIsLast
    <3>2. \A i \in 1..Len(sent') : sent'[i].kind # "agent-done"
      <4>1. CASE sent' = sent BY <3>1, <4>1
      <4>2. CASE sent' = Append(sent, Warning("setup"))
        <5>1. Warning("setup") \in Screen(job.agent, job.phase) BY <2>2 DEF Screen
        <5> QED BY <1>0, <2>2, <3>1, <4>2, <5>1, LastWord
      <4> QED BY <2>1, <4>1, <4>2
    <3> QED BY <2>1, <3>2 DEF AgentInv, DoneIsLast
  <2>8. LastWordsKept' BY <2>1 DEF AgentInv, LastWordsKept
  <2> QED BY <2>5, <2>6, <2>7, <2>8 DEF AgentInv
<1>2. CASE InvokeClaude \/ InvokePi
  <2>1. runner = "starting" /\ (Spawned \/ NotSpawned) BY <1>2 DEF InvokeClaude, InvokePi
  <2>2. CASE Spawned
    <3>1. /\ child' = [child EXCEPT !.alive = TRUE] /\ tail' = [tail EXCEPT !.draining = TRUE]
          /\ runner' = "pumping"
          /\ UNCHANGED <<job, stdout, stderr, shown, sent, result, wrote, complained>>
      BY <2>2 DEF Spawned
    <3>2. /\ tail'.lines = tail.lines /\ tail'.draining /\ Lines' = Lines
          /\ tail' \in [lines : Seq(Nat), draining : BOOLEAN, warned : BOOLEAN]
          /\ child' \in [alive : BOOLEAN, code : {"none", "ok", "failed"}, helper : BOOLEAN]
      BY <3>1 DEF AgentInv, AgentTypeOK, Lines
    <3>3. AgentTypeOK' BY <3>1, <3>2 DEF AgentInv, AgentTypeOK
    <3>4. ScreenHasWhatWasRead' BY <2>1, <3>1, <3>2 DEF AgentInv, ScreenHasWhatWasRead
    <3>5. DoneIsLast' /\ LastWordsKept' BY <2>1, <3>1, <3>2 DEF AgentInv, DoneIsLast, LastWordsKept
    <3> QED BY <3>3, <3>4, <3>5 DEF AgentInv
  <2>3. CASE NotSpawned
    <3>1. /\ runner' = "done" /\ result' = "not started"
          /\ UNCHANGED <<job, child, stdout, stderr, shown, tail, sent, wrote, complained>>
      BY <2>3 DEF NotSpawned
    <3>2. Lines' = Lines /\ result' \in Results
      <4>1. "not started" \in Results BY Zenon DEF Results
      <4> QED BY <3>1, <4>1, Zenon DEF Lines
    <3>3. /\ runner' = "done"
          /\ UNCHANGED <<job, child, stdout, stderr, shown, tail, sent, wrote, complained>>
      BY <3>1
    <3>4. AgentTypeOK' BY <3>2, <3>3 DEF AgentInv, AgentTypeOK
    <3>5. ScreenHasWhatWasRead'
      <4>1. stdout.open BY <2>1 DEF AgentInv, ScreenHasWhatWasRead
      <4> QED BY <2>1, <3>1, <3>2, <3>3, <4>1 DEF AgentInv, ScreenHasWhatWasRead
    <3>6. DoneIsLast' /\ LastWordsKept' BY <2>1, <3>3 DEF AgentInv, DoneIsLast, LastWordsKept
    <3> QED BY <3>4, <3>5, <3>6 DEF AgentInv
  <2> QED BY <2>1, <2>2, <2>3
<1>3. CASE WaitForChild
  <2>1. /\ runner = "waiting" /\ runner' = "joining"
        /\ UNCHANGED <<job, child, stdout, stderr, shown, tail, sent, result, wrote, complained>>
    BY <1>3 DEF WaitForChild
  <2>2. Lines' = Lines BY <2>1 DEF Lines
  <2>3. AgentTypeOK' BY <2>1, <2>2 DEF AgentInv, AgentTypeOK
  <2>4. ScreenHasWhatWasRead' BY <2>1, <2>2 DEF AgentInv, ScreenHasWhatWasRead
  <2>5. DoneIsLast' /\ LastWordsKept' BY <2>1 DEF AgentInv, DoneIsLast, LastWordsKept
  <2> QED BY <2>3, <2>4, <2>5 DEF AgentInv
<1>4. CASE Finish
  <2> DEFINE bye == [kind |-> "agent-done"]
  <2>1. /\ runner = "joining" /\ ~tail.draining /\ runner' = "done" /\ sent' = Append(sent, bye)
        /\ result' = IF result # "none" THEN result ELSE IF child.code = "ok" THEN "ok" ELSE "failed"
        /\ UNCHANGED <<job, child, stdout, stderr, shown, tail, wrote, complained>>
    BY <1>4 DEF Finish
  <2>2. bye \in AsideMessages /\ bye.kind = "agent-done" BY DEF AsideMessages
  <2> HIDE DEF bye
  <2>3. sent' \in Seq(Screen(job.agent, job.phase)) /\ Heard(sent') = Heard(sent)
    BY <1>0, <2>1, <2>2, AsideIsNotHeard
  <2>4. /\ Lines' = Lines /\ result' \in Results
        /\ result = "read error" => result' = "read error"
    <3>1. "ok" \in Results /\ "failed" \in Results /\ "read error" # "none" BY Zenon DEF Results
    <3>2. result \in Results BY DEF AgentInv, AgentTypeOK
    <3> QED BY <2>1, <3>1, <3>2, Zenon DEF Lines
  <2>5. AgentTypeOK'
    <3>1. /\ runner' = "done"
          /\ UNCHANGED <<job, child, stdout, stderr, shown, tail, wrote, complained>>
      BY <2>1
    <3> QED BY <2>3, <2>4, <3>1 DEF AgentInv, AgentTypeOK
  <2>6. ScreenHasWhatWasRead'
    <3>1. ~stdout.open BY <2>1 DEF AgentInv, ScreenHasWhatWasRead
    <3> QED BY <2>1, <2>3, <2>4, <3>1 DEF AgentInv, ScreenHasWhatWasRead
  <2>7. DoneIsLast'
    <3>1. \A i \in 1..Len(sent) : sent[i].kind # "agent-done" BY <2>1 DEF AgentInv, DoneIsLast
    <3>2. \A i \in 1..Len(sent') : sent'[i].kind = "agent-done" => i = Len(sent')
      <4>1. bye \in Screen(job.agent, job.phase) BY <2>2 DEF Screen
      <4> QED BY <1>0, <2>1, <3>1, <4>1, LastWord
    <3> QED BY <2>1, <3>2 DEF AgentInv, DoneIsLast
  <2>8. LastWordsKept' BY <2>1 DEF AgentInv, LastWordsKept
  <2> QED BY <2>5, <2>6, <2>7, <2>8 DEF AgentInv
<1> QED BY <1>1, <1>2, <1>3, <1>4 DEF RunStreamingChild

\* An agent that ended well is reported in full, and AgentDone is the last word.
LEMMA AgentInvReported == AgentInv => AgentReported
<1> SUFFICES ASSUME AgentInv PROVE AgentReported
    OBVIOUS
<1>1. ASSUME result = "ok" PROVE Without(sent, AsideMessages) = Report(job.agent, job.phase, wrote)
  <2>1. ~stdout.open BY <1>1 DEF AgentInv, ScreenHasWhatWasRead
  <2>2. result # "read error" BY <1>1, Zenon
  <2> QED BY <2>1, <2>2 DEF AgentInv, ScreenHasWhatWasRead, Heard
<1>2. ASSUME result = "failed", complained > 0 PROVE tail.lines # <<>> /\ Last(tail.lines) = complained
  <2>1. runner = "done" BY <1>2 DEF AgentInv, ScreenHasWhatWasRead
  <2>2. stderr.lines = <<>> BY <2>1 DEF AgentInv, DoneIsLast
  <2> QED BY <1>2, <2>2 DEF AgentInv, LastWordsKept
<1> QED BY <1>1, <1>2 DEF AgentReported, AgentInv, DoneIsLast

\* Of the calls, those of the agent's own keep what it has said.
CallInv == AgentInv /\ report \in Seq(LineKinds)

LEMMA CallInvKept == CallInv /\ [CallsNext]_call_vars => CallInv'
<1> SUFFICES ASSUME CallInv, [CallsNext]_call_vars PROVE CallInv'
    OBVIOUS
<1>1. CASE UNCHANGED agent_vars
  <2>1. UNCHANGED report
    <3> HIDE DEF agent_vars
    <3> QED BY DEF CallsNext, call_vars
  <2>2. UNCHANGED <<job, child, stdout, stderr, runner, shown, tail, sent, result, wrote, complained>>
    BY <1>1 DEF agent_vars
  <2>3. AgentTypeOK' BY <2>2 DEF CallInv, AgentInv, AgentTypeOK, Lines
  <2>4. ScreenHasWhatWasRead' BY <2>2 DEF CallInv, AgentInv, ScreenHasWhatWasRead, Lines
  <2>5. DoneIsLast' /\ LastWordsKept' BY <2>2 DEF CallInv, AgentInv, DoneIsLast, LastWordsKept
  <2> QED BY <2>1, <2>3, <2>4, <2>5 DEF CallInv, AgentInv
<1>2. CASE AgentNext /\ UNCHANGED report
  <2>1. AgentInv'
    BY <1>2, ChildKeeps, PumpKeeps, DrainKeeps, RunnerKeeps DEF CallInv, AgentNext
  <2> QED BY <1>2, <2>1 DEF CallInv
<1>3. UNCHANGED agent_vars \/ (AgentNext /\ UNCHANGED report)
  BY DEF CallsNext, call_vars
<1> QED BY <1>1, <1>2, <1>3

\* What an agent wrote reaches the user (src/agent/common.rs
\* run_streaming_child, src/format.rs format_result_text): an agent that ended
\* well is reported in full, in order and each highlight once; AgentDone is the
\* last word about any agent; the error of one that failed shows the last it
\* said on stderr; and of its report no line is lost.
THEOREM EveryAgentIsHeard == CallsSpec => []AgentsAreHeard
<1>1. CallsInit => CallInv
  <2> SUFFICES ASSUME CallsInit PROVE CallInv
      OBVIOUS
  <2>1. AgentInit \/ AgentIdle BY DEF CallsInit
  <2>2. report \in Seq(LineKinds)
    <3>1. <<>> \in Seq(LineKinds) OBVIOUS
    <3>2. ASSUME NEW r \in Reports PROVE r \in Seq(LineKinds)
      <4>1. PICK n \in 0..ReportLength : r \in [1..n -> LineKinds] BY <3>2 DEF Reports, LineKinds
      <4>2. n \in Nat BY <4>1
      <4> QED BY <4>1, <4>2
    <3> QED BY <3>1, <3>2 DEF CallsInit
  <2> QED BY <2>1, <2>2, AgentInitInv DEF CallInv
<1>2. CallInv /\ [CallsNext]_call_vars => CallInv' BY CallInvKept
<1>3. CallInv => AgentsAreHeard
  <2> SUFFICES ASSUME CallInv PROVE AgentsAreHeard
      OBVIOUS
  <2>1. AgentReported BY AgentInvReported DEF CallInv
  <2>2. ReportReads
    <3>1. report \in Seq(LineKinds) BY DEF CallInv
    <3>2. NothingLost(report, FormatResultText(report)) /\ WellSpaced(FormatResultText(report))
      BY <3>1, ReportsRead
    <3> QED BY <3>2 DEF ReportReads
  <2> QED BY <2>1, <2>2 DEF AgentsAreHeard
<1> QED BY <1>1, <1>2, <1>3, PTL DEF CallsSpec
=============================================================================
