---------------------------- MODULE Backlog_proofs ----------------------------
(***************************************************************************)
(* Proofs about Backlog for any slugs, intents and seed bodies: the        *)
(* dependency graph stays whole and acyclic, the cascade only ever defeats *)
(* what has lost all its intents, settled items stay settled, and the file *)
(* lists every item once.                                                  *)
(***************************************************************************)
EXTENDS Backlog, TLAPS, FiniteSetTheorems, SequenceTheorems

(* Reachability and acyclic graphs. *)

\* Taking dependencies away keeps a graph acyclic.
LEMMA FewerEdges ==
  ASSUME NEW G \in Graph, NEW H \in Graph,
         \A i \in Ids : H[i] \subseteq G[i], Acyclic(G)
  PROVE  Acyclic(H)
<1> SUFFICES ASSUME NEW i \in Ids, NEW d \in H[i] PROVE ~Reaches(H, d, i)
    BY DEF Acyclic
<1>1. ~Reaches(G, d, i) BY DEF Acyclic, Graph
<1>2. PICK S \in SUBSET Ids : d \in S /\ Closed(G, S) /\ i \notin S
      BY <1>1 DEF Reaches
<1>3. Closed(H, S) BY <1>2 DEF Closed
<1> QED BY <1>2, <1>3 DEF Reaches

\* What is reached from an item is closed, and holds the item.
LEMMA ReachedIsClosed ==
  ASSUME NEW G \in Graph, NEW e \in Ids, NEW j \in Ids, NEW k \in G[j],
         Reaches(G, e, j)
  PROVE  Reaches(G, e, k)
BY DEF Reaches, Closed

\* New dependencies, none of which reaches their item, keep a graph acyclic:
\* the reason set-dependencies checks the old graph only.
LEMMA CheckedEdges ==
  ASSUME NEW G \in Graph, NEW i \in Ids, NEW ds \in SUBSET Ids,
         Acyclic(G), \A e \in ds : ~Reaches(G, e, i)
  PROVE  Acyclic([G EXCEPT ![i] = ds])
<1> DEFINE H == [G EXCEPT ![i] = ds]
<1>0. /\ H[i] = ds
      /\ \A x \in Ids : x # i => H[x] = G[x]
      BY DEF Graph
<1> SUFFICES ASSUME NEW x \in Ids, NEW d \in H[x] PROVE ~Reaches(H, d, x)
    BY DEF Acyclic
<1> HIDE DEF H
<1>1. CASE x = i
  <2>1. d \in ds BY <1>0, <1>1
  <2>2. PICK S \in SUBSET Ids : d \in S /\ Closed(G, S) /\ i \notin S
        BY <2>1 DEF Reaches
  <2>3. Closed(H, S) BY <1>0, <2>2 DEF Closed
  <2> QED BY <1>1, <2>2, <2>3 DEF Reaches
<1>2. CASE x # i
  <2>1. d \in G[x] BY <1>0, <1>2
  <2>2. d \in Ids BY <2>1 DEF Graph
  <2>3. PICK S \in SUBSET Ids : d \in S /\ Closed(G, S) /\ x \notin S
        BY <2>1 DEF Acyclic, Reaches
  <2>4. CASE ~Reaches(G, d, i)
    <3>1. PICK T \in SUBSET Ids : d \in T /\ Closed(G, T) /\ i \notin T
          BY <2>4 DEF Reaches
    <3>2. Closed(H, S \cap T) BY <1>0, <2>3, <3>1 DEF Closed
    <3> QED BY <2>3, <3>1, <3>2 DEF Reaches
  <2>5. CASE Reaches(G, d, i)
    <3> DEFINE U == {b \in Ids : \E e \in ds : Reaches(G, e, b)}
    <3>1. ds \subseteq U BY DEF Reaches
    <3>2. \A j \in U : G[j] \subseteq U
          BY ReachedIsClosed DEF Graph
    <3>3. x \notin U
      <4> SUFFICES ASSUME NEW e \in ds, Reaches(G, e, x) PROVE FALSE
          OBVIOUS
      <4>1. Reaches(G, e, d) BY <2>1, ReachedIsClosed
      <4>2. Reaches(G, e, i) BY <4>1, <2>5 DEF Reaches
      <4> QED BY <4>2
    <3> HIDE DEF U
    <3>4. U \subseteq Ids BY DEF U
    <3>5. Closed(H, S \cup U)
      <4> SUFFICES ASSUME NEW j \in S \cup U PROVE H[j] \subseteq S \cup U
          BY DEF Closed
      <4>1. j \in Ids BY <3>4
      <4>2. CASE j = i BY <1>0, <4>2, <3>1
      <4>3. CASE j # i /\ j \in S BY <1>0, <4>1, <4>3, <2>3 DEF Closed
      <4>4. CASE j # i /\ j \in U BY <1>0, <4>1, <4>4, <3>2
      <4> QED BY <4>2, <4>3, <4>4
    <3> QED BY <2>3, <3>3, <3>4, <3>5 DEF Reaches
  <2> QED BY <2>4, <2>5
<1> QED BY <1>1, <1>2

\* An item nobody depends on is reached from nowhere else.
LEMMA NewIsUnreached ==
  ASSUME NEW G \in Graph, NEW i \in Ids, \A j \in Ids : i \notin G[j],
         NEW e \in Ids, e # i
  PROVE  ~Reaches(G, e, i)
<1>1. Closed(G, Ids \ {i}) BY DEF Closed, Graph
<1> QED BY <1>1 DEF Reaches


-----------------------------------------------------------------------------
(* The inductive invariant                                                 *)

\* The parts of both files the verbs decide on; the order is not one of them.
FilesTyped ==
  /\ item \in [Ids -> Entry]
  /\ intent \in [Intents -> IntentStatuses \cup {Absent}]

\* A deleted item leaves nothing behind.
GoneIsGone == \A i \in Ids : item[i].status = Absent => item[i] = NoEntry

IInv ==
  /\ FilesTyped
  /\ GoneIsGone
  /\ DepsExist
  /\ DepsAcyclic
  /\ CascadeJustified

\* The entry of an id without an item has the type of entries.
LEMMA NoEntryTyped == NoEntry \in Entry
BY DEF NoEntry, Entry, Absent

\* The graph of a typed backlog is one.
LEMMA DepsTyped == FilesTyped => Deps \in Graph
<1> SUFFICES ASSUME FilesTyped PROVE Deps \in Graph
    OBVIOUS
<1>1. \A i \in Ids : item[i].deps \in SUBSET Ids BY DEF FilesTyped, Entry
<1> QED BY <1>1 DEF Deps, Graph

\* An empty backlog is sound.
LEMMA InitIInv == Init => IInv
<1> SUFFICES ASSUME Init PROVE IInv
    OBVIOUS
<1>1. \A i \in Ids : item[i] = NoEntry BY DEF Init
<1>2. FilesTyped BY NoEntryTyped DEF Init, FilesTyped
<1>3. \A i \in Ids : item[i].deps = {} /\ ~item[i].cascaded
  <2>1. NoEntry.deps = {} BY DEF NoEntry
  <2>2. ~NoEntry.cascaded BY DEF NoEntry
  <2> QED BY <1>1, <2>1, <2>2
<1>4. GoneIsGone BY <1>1 DEF GoneIsGone
<1>5. DepsExist BY <1>3 DEF DepsExist, Present
<1>6. DepsAcyclic BY <1>3 DEF DepsAcyclic, Acyclic, Deps
<1>7. CascadeJustified BY <1>3 DEF CascadeJustified
<1> QED BY <1>2, <1>4, <1>5, <1>6, <1>7 DEF IInv
-----------------------------------------------------------------------------
(* The steps                                                               *)

\* A step that adds no edge and keeps the ends of those it leaves.
LEMMA NoNewEdges ==
  ASSUME FilesTyped, FilesTyped', DepsAcyclic,
         \A i \in Ids : item'[i].deps \subseteq item[i].deps,
         \A i \in Present' : item'[i].deps \subseteq Present'
  PROVE  DepsExist' /\ DepsAcyclic'
<1>1. Deps \in Graph BY DepsTyped
<1>2. Deps' \in Graph
  <2>1. \A i \in Ids : item'[i].deps \in SUBSET Ids BY DEF FilesTyped, Entry
  <2> QED BY <2>1 DEF Deps, Graph
<1>3. \A i \in Ids : Deps'[i] \subseteq Deps[i] BY DEF Deps
<1>4. Acyclic(Deps') BY <1>1, <1>2, <1>3, FewerEdges DEF DepsAcyclic
<1>5. DepsAcyclic' BY <1>4 DEF DepsAcyclic
<1> QED BY <1>5 DEF DepsExist

\* A step that gives one item new dependencies, none of which reaches it.
LEMMA CheckedStep ==
  ASSUME FilesTyped, DepsAcyclic, NEW i \in Ids, NEW ds \in SUBSET Ids,
         \A e \in ds : ~Reaches(Deps, e, i),
         Deps' = [Deps EXCEPT ![i] = ds]
  PROVE  DepsAcyclic'
<1>1. Deps \in Graph BY DepsTyped
<1>2. Acyclic([Deps EXCEPT ![i] = ds]) BY <1>1, CheckedEdges DEF DepsAcyclic
<1> QED BY <1>2 DEF DepsAcyclic

\* An item with an entry of its own.
LEMMA PresentIsTyped ==
  ASSUME FilesTyped, NEW i \in Present
  PROVE  i \in Ids /\ item[i] \in Entry /\ item[i].status \in Statuses
BY DEF FilesTyped, Present, Entry

\* run_add: no item names a slug that is free, so a new one closes no cycle.
LEMMA AddIInv ==
  ASSUME IInv, NEW i \in Ids, NEW deps \in SUBSET Ids, Add(i, deps)
  PROVE  IInv'
<1> DEFINE new == [NoEntry EXCEPT !.status = "active", !.deps = deps]
<1>1. /\ new \in Entry /\ new.status = "active" /\ new.deps = deps
      /\ ~new.cascaded
      BY DEF Entry, NoEntry, Statuses
<1>2. item' = [item EXCEPT ![i] = new] BY DEF Add
<1> HIDE DEF new
<1>3. FilesTyped' BY <1>1, <1>2 DEF Add, IInv, FilesTyped
<1>4. item'[i] = new /\ \A j \in Ids : j # i => item'[j] = item[j]
      BY <1>2 DEF IInv, FilesTyped
<1>5. Present' = Present \cup {i}
      BY <1>1, <1>4 DEF Present, Absent
<1>6. GoneIsGone' BY <1>1, <1>4 DEF GoneIsGone, IInv, Absent
<1>7. DepsExist'
  <2>1. deps \subseteq Present BY DEF Add
  <2> QED BY <1>1, <1>4, <1>5, <2>1 DEF DepsExist, IInv, Present
<1>8. DepsAcyclic'
  <2>1. \A j \in Ids : i \notin item[j].deps
    <3>1. i \notin Present BY DEF Add
    <3>2. \A j \in Ids \ Present : item[j].deps = {}
          BY DEF Present, IInv, GoneIsGone, NoEntry
    <3> QED BY <3>1, <3>2 DEF IInv, DepsExist
  <2>2. Deps \in Graph BY DepsTyped DEF IInv
  <2>3. \A j \in Ids : i \notin Deps[j] BY <2>1 DEF Deps
  <2>4. i \notin deps BY DEF Add
  <2>5. \A e \in deps : ~Reaches(Deps, e, i)
        BY <2>2, <2>3, <2>4, NewIsUnreached
  <2>6. Deps' = [Deps EXCEPT ![i] = deps]
        BY <1>1, <1>4 DEF Deps
  <2> QED BY <2>5, <2>6, CheckedStep DEF IInv
<1>9. CascadeJustified'
      BY <1>1, <1>4 DEF CascadeJustified, IInv, Add, Settled
<1> QED BY <1>3, <1>6, <1>7, <1>8, <1>9 DEF IInv

\* run_init: the body replaces an empty backlog, and is sound itself.
LEMMA InitBacklogIInv ==
  ASSUME IInv, NEW seed \in Seeds, InitBacklog(seed)
  PROVE  IInv'
<1>1. item' = seed /\ intent' = intent BY DEF InitBacklog
<1>2. /\ seed \in [Ids -> Entry]
      /\ \A i \in Ids : seed[i].deps \subseteq {j \in Ids : seed[j].status # Absent}
      /\ \A i \in Ids : seed[i].status = Absent => seed[i] = NoEntry
      /\ \A i \in Ids : ~seed[i].cascaded
      /\ Acyclic([i \in Ids |-> seed[i].deps])
      BY SeedAssumption
<1>3. FilesTyped' BY <1>1, <1>2 DEF IInv, FilesTyped
<1>4. GoneIsGone' BY <1>1, <1>2 DEF GoneIsGone
<1>5. DepsExist' BY <1>1, <1>2 DEF DepsExist, Present
<1>6. DepsAcyclic'
  <2>1. Deps' = [i \in Ids |-> seed[i].deps] BY <1>1 DEF Deps
  <2> QED BY <1>2, <2>1 DEF DepsAcyclic
<1>7. CascadeJustified' BY <1>1, <1>2 DEF CascadeJustified
<1> QED BY <1>3, <1>4, <1>5, <1>6, <1>7 DEF IInv

\* A step that changes the status, the reason or the cascade mark of items,
\* takes none of them away and leaves settled items and the intents alone.
LEMMA StatusStep ==
  ASSUME IInv, FilesTyped', intent' = intent,
         \A j \in Ids : /\ item'[j].deps = item[j].deps
                        /\ item'[j].serves = item[j].serves
                        /\ item'[j].status = Absent <=> item[j].status = Absent
                        /\ item[j].status = Absent => item'[j] = item[j]
                        /\ item[j].status = "defeated" => item'[j].status = "defeated"
                        /\ item'[j].cascaded => item[j].cascaded \/ CascadeDue(j)
                        /\ CascadeDue(j) /\ item'[j].cascaded => item'[j].status = "defeated"
  PROVE  IInv'
<1>1. Present' = Present BY DEF Present
<1>2. GoneIsGone' BY DEF GoneIsGone, IInv
<1>3. \A j \in Present' : item'[j].deps \subseteq Present'
      BY <1>1 DEF IInv, DepsExist, Present
<1>4. DepsExist' /\ DepsAcyclic' BY <1>3, NoNewEdges DEF IInv
<1>5. CascadeJustified'
  <2> SUFFICES ASSUME NEW j \in Ids, item'[j].cascaded
               PROVE  /\ item'[j].status = "defeated"
                      /\ item'[j].serves # {}
                      /\ \A n \in item'[j].serves : Settled(n)'
      BY DEF CascadeJustified
  <2>1. \A n \in item[j].serves : Settled(n)' <=> Settled(n) BY DEF Settled
  <2>2. CASE item[j].cascaded BY <2>1, <2>2 DEF IInv, CascadeJustified
  <2>3. CASE CascadeDue(j) BY <2>1, <2>3 DEF CascadeDue
  <2> QED BY <2>2, <2>3
<1> QED BY <1>2, <1>4, <1>5 DEF IInv

\* run_set_status.
LEMMA SetStatusIInv ==
  ASSUME IInv, NEW i \in Ids, NEW status \in Statuses, SetStatus(i, status)
  PROVE  IInv'
<1> DEFINE new == [item[i] EXCEPT !.status = status, !.reason = status = "blocked"]
<1>1. item[i] \in Entry BY DEF IInv, FilesTyped
<1>2. new \in Entry BY <1>1 DEF Entry
<1>3. /\ new.deps = item[i].deps /\ new.serves = item[i].serves
      /\ new.status = status /\ new.cascaded = item[i].cascaded
      BY <1>1 DEF Entry
<1>4. item' = [item EXCEPT ![i] = new] BY DEF SetStatus
<1> HIDE DEF new
<1>5. FilesTyped' BY <1>2, <1>4 DEF SetStatus, IInv, FilesTyped
<1>6. item'[i] = new /\ \A j \in Ids : j # i => item'[j] = item[j]
      BY <1>4 DEF IInv, FilesTyped
<1>7. item[i].status = "defeated" => status = "defeated"
      BY DEF SetStatus, Transitions
<1>8. item[i].status # Absent /\ status # Absent
      BY DEF SetStatus, Present, Statuses, Absent
<1>9. item[i].cascaded => item[i].status = "defeated"
      BY DEF IInv, CascadeJustified
<1>10. CascadeDue(i) => item[i].status # "defeated" BY DEF CascadeDue
<1>11. \A j \in Ids : CascadeDue(j) => ~item[j].cascaded
       BY DEF IInv, CascadeJustified, CascadeDue
<1>12. intent' = intent BY DEF SetStatus
<1> QED BY <1>3, <1>5, <1>6, <1>7, <1>8, <1>9, <1>10, <1>11, <1>12, StatusStep

\* run_repair_stale_statuses.
LEMMA RepairIInv == ASSUME IInv, Repair PROVE IInv'
<1>1. \A j \in Ids : item[j] \in Entry BY DEF IInv, FilesTyped
<1>2. \A j \in Ids :
        item'[j] = IF j \notin Unblocked THEN item[j]
                   ELSE [item[j] EXCEPT !.status = "active", !.reason = FALSE]
      BY DEF Repair
<1>3. \A j \in Unblocked :
        /\ item'[j] \in Entry
        /\ item'[j].deps = item[j].deps
        /\ item'[j].serves = item[j].serves
        /\ item'[j].status = "active"
        /\ item'[j].cascaded = item[j].cascaded
  <2> TAKE j \in Unblocked
  <2>1. j \in Ids /\ "active" \in Statuses BY DEF Unblocked, Statuses
  <2>2. item'[j] = [item[j] EXCEPT !.status = "active", !.reason = FALSE]
        BY <1>2, <2>1
  <2>3. item[j] \in Entry BY <1>1, <2>1
  <2> QED BY <2>1, <2>2, <2>3 DEF Entry
<1>4. \A j \in Unblocked : item[j].status = "blocked" BY DEF Unblocked
<1>5. \A j \in Ids : CascadeDue(j) => ~item[j].cascaded
      BY DEF IInv, CascadeJustified, CascadeDue
<1>6. \A j \in Ids : item'[j] \in Entry
  <2> SUFFICES ASSUME NEW j \in Ids PROVE item'[j] \in Entry
      OBVIOUS
  <2>1. CASE j \in Unblocked BY <2>1, <1>3
  <2>2. CASE j \notin Unblocked BY <2>2, <1>1, <1>2
  <2> QED BY <2>1, <2>2
<1>7. FilesTyped' BY <1>6 DEF Repair, IInv, FilesTyped
<1>8. intent' = intent BY DEF Repair
<1>9. \A j \in Ids : /\ item'[j].deps = item[j].deps
                     /\ item'[j].serves = item[j].serves
                     /\ item'[j].cascaded = item[j].cascaded
                     /\ \/ item'[j] = item[j]
                        \/ item[j].status = "blocked" /\ item'[j].status = "active"
  <2> TAKE j \in Ids
  <2>1. CASE j \in Unblocked BY <2>1, <1>3, <1>4
  <2>2. CASE j \notin Unblocked BY <2>2, <1>2
  <2> QED BY <2>1, <2>2
<1> QED BY <1>5, <1>7, <1>8, <1>9, StatusStep DEF Absent

\* run_defeat_cascade: what it defeats is justified on the spot.
LEMMA CascadeIInv == ASSUME IInv, Cascade PROVE IInv'
<1>1. \A j \in Ids : item[j] \in Entry BY DEF IInv, FilesTyped
<1>2. \A j \in Ids :
        item'[j] = IF ~CascadeDue(j) THEN item[j]
                   ELSE [item[j] EXCEPT !.status = "defeated", !.cascaded = TRUE]
      BY DEF Cascade
<1>3. \A j \in Ids : CascadeDue(j) =>
        /\ item'[j] \in Entry
        /\ item'[j].deps = item[j].deps
        /\ item'[j].serves = item[j].serves
        /\ item'[j].status = "defeated"
  <2> SUFFICES ASSUME NEW j \in Ids, CascadeDue(j)
               PROVE  /\ item'[j] \in Entry
                      /\ item'[j].deps = item[j].deps
                      /\ item'[j].serves = item[j].serves
                      /\ item'[j].status = "defeated"
      OBVIOUS
  <2>1. "defeated" \in Statuses BY DEF Statuses
  <2>2. item'[j] = [item[j] EXCEPT !.status = "defeated", !.cascaded = TRUE]
        BY <1>2
  <2>3. item[j] \in Entry BY <1>1
  <2> QED BY <2>1, <2>2, <2>3 DEF Entry
<1>4. \A j \in Ids : CascadeDue(j) => item[j].status \in {"active", "blocked"}
      BY DEF CascadeDue
<1>5. \A j \in Ids : item'[j] \in Entry BY <1>1, <1>2, <1>3
<1>6. FilesTyped' BY <1>5 DEF Cascade, IInv, FilesTyped
<1>7. intent' = intent BY DEF Cascade
<1>8. \A j \in Ids : /\ item'[j].deps = item[j].deps
                     /\ item'[j].serves = item[j].serves
                     /\ \/ item'[j] = item[j] /\ ~CascadeDue(j)
                        \/ CascadeDue(j) /\ item'[j].status = "defeated"
  <2> TAKE j \in Ids
  <2>1. CASE CascadeDue(j) BY <2>1, <1>3
  <2>2. CASE ~CascadeDue(j) BY <2>2, <1>2
  <2> QED BY <2>1, <2>2
<1> QED BY <1>4, <1>6, <1>7, <1>8, StatusStep DEF Absent

\* run_set_dependencies: the check for a cycle is what keeps the graph acyclic.
LEMMA SetDependenciesIInv ==
  ASSUME IInv, NEW i \in Ids, NEW deps \in SUBSET Ids, SetDependencies(i, deps)
  PROVE  IInv'
<1> DEFINE new == [item[i] EXCEPT !.deps = deps]
<1>1. /\ new \in Entry /\ new.deps = deps /\ new.status = item[i].status
      /\ new.serves = item[i].serves /\ new.cascaded = item[i].cascaded
      BY DEF IInv, FilesTyped, Entry
<1>2. item' = [item EXCEPT ![i] = new] /\ intent' = intent BY DEF SetDependencies
<1> HIDE DEF new
<1>3. FilesTyped' BY <1>1, <1>2 DEF IInv, FilesTyped
<1>4. item'[i] = new /\ \A j \in Ids : j # i => item'[j] = item[j]
      BY <1>2 DEF IInv, FilesTyped
<1>5. Present' = Present BY <1>1, <1>4 DEF Present
<1>6. i \in Present /\ deps \subseteq Present BY DEF SetDependencies
<1>7. GoneIsGone' BY <1>1, <1>4, <1>6 DEF GoneIsGone, IInv, Present
<1>8. DepsExist' BY <1>1, <1>4, <1>5, <1>6 DEF DepsExist, IInv, Present
<1>9. DepsAcyclic'
  <2>1. Deps' = [Deps EXCEPT ![i] = deps] BY <1>1, <1>4 DEF Deps
  <2>2. \A e \in deps : ~Reaches(Deps, e, i) BY DEF SetDependencies
  <2> QED BY <2>1, <2>2, CheckedStep DEF IInv
<1>10. CascadeJustified'
       BY <1>1, <1>2, <1>4 DEF CascadeJustified, IInv, Settled
<1> QED BY <1>3, <1>7, <1>8, <1>9, <1>10 DEF IInv

\* run_delete: whoever depended on the item does no longer.
LEMMA DeleteIInv ==
  ASSUME IInv, NEW i \in Ids, NEW force \in BOOLEAN, Delete(i, force)
  PROVE  IInv'
<1>1. \A j \in Ids : item[j] \in Entry BY DEF IInv, FilesTyped
<1>2. /\ item' = [j \in Ids |-> IF j = i THEN NoEntry
                                ELSE [item[j] EXCEPT !.deps = @ \ {i}]]
      /\ intent' = intent
      BY DEF Delete, Deleted
<1>3. item'[i] = NoEntry BY <1>2
<1>4. \A j \in Ids \ {i} :
        /\ item'[j] \in Entry
        /\ item'[j].deps = item[j].deps \ {i}
        /\ item'[j].serves = item[j].serves
        /\ item'[j].status = item[j].status
        /\ item'[j].cascaded = item[j].cascaded
        /\ item'[j].deps = item[j].deps => item'[j] = item[j]
      BY <1>1, <1>2 DEF Entry
<1>5. FilesTyped'
  <2>1. \A j \in Ids : item'[j] \in Entry BY <1>3, <1>4, NoEntryTyped
  <2> QED BY <1>2, <2>1 DEF IInv, FilesTyped
<1>6. NoEntry.deps = {} /\ NoEntry.status = Absent /\ ~NoEntry.cascaded
      BY DEF NoEntry
<1>7. Present' = Present \ {i} BY <1>3, <1>4, <1>6 DEF Present
<1>8. GoneIsGone'
  <2> SUFFICES ASSUME NEW j \in Ids \ {i}, item'[j].status = Absent
               PROVE  item'[j] = NoEntry
      BY <1>3 DEF GoneIsGone
  <2>1. item[j] = NoEntry BY <1>4 DEF IInv, GoneIsGone
  <2> QED BY <1>4, <1>6, <2>1
<1>9. \A j \in Present' : item'[j].deps \subseteq Present'
      BY <1>4, <1>7 DEF IInv, DepsExist, Present
<1>10. \A j \in Ids : item'[j].deps \subseteq item[j].deps
       BY <1>3, <1>4, <1>6
<1>11. DepsExist' /\ DepsAcyclic' BY <1>5, <1>9, <1>10, NoNewEdges DEF IInv
<1>12. CascadeJustified'
       BY <1>2, <1>3, <1>4, <1>6 DEF CascadeJustified, IInv, Settled
<1> QED BY <1>5, <1>8, <1>11, <1>12 DEF IInv

\* Intents are settled for good, so what the cascade did stays justified.
LEMMA IntentIInv ==
  ASSUME IInv, item' = item, FilesTyped', \A n \in Intents : Settled(n) => Settled(n)'
  PROVE  IInv'
<1>1. GoneIsGone' BY DEF IInv, GoneIsGone
<1>2. DepsExist' BY DEF IInv, DepsExist, Present
<1>3. DepsAcyclic' BY DEF IInv, DepsAcyclic, Deps
<1>4. \A i \in Ids : item[i].serves \subseteq Intents BY DEF IInv, FilesTyped, Entry
<1>5. CascadeJustified' BY <1>4 DEF IInv, CascadeJustified
<1> QED BY <1>1, <1>2, <1>3, <1>5 DEF IInv

\* Every verb, and the cascade, keeps the invariant.
LEMMA NextIInv == IInv /\ [Next]_vars => IInv'
<1> SUFFICES ASSUME IInv, [Next]_vars PROVE IInv'
    OBVIOUS
<1>1. ASSUME NEW i \in Ids, NEW deps \in SUBSET Ids, Add(i, deps) PROVE IInv'
      BY <1>1, AddIInv
<1>2. ASSUME NEW seed \in Seeds, InitBacklog(seed) PROVE IInv'
      BY <1>2, InitBacklogIInv
<1>3. ASSUME NEW i \in Ids, NEW status \in Statuses, SetStatus(i, status) PROVE IInv'
      BY <1>3, SetStatusIInv
<1>4. ASSUME NEW i \in Ids, NEW deps \in SUBSET Ids, SetDependencies(i, deps)
      PROVE  IInv'
      BY <1>4, SetDependenciesIInv
<1>5. ASSUME NEW i \in Ids, NEW j \in Ids, NEW after \in BOOLEAN, Reorder(i, j, after)
      PROVE  IInv'
      BY <1>5, IntentIInv DEF Reorder, IInv, FilesTyped, Settled
<1>6. ASSUME NEW i \in Ids, NEW force \in BOOLEAN, Delete(i, force) PROVE IInv'
      BY <1>6, DeleteIInv
<1>7. CASE Repair BY <1>7, RepairIInv
<1>8. ASSUME NEW n \in Intents, AddIntent(n) PROVE IInv'
  <2>1. FilesTyped' BY <1>8 DEF AddIntent, IInv, FilesTyped, IntentStatuses
  <2>2. \A m \in Intents : Settled(m) => Settled(m)'
        BY <1>8 DEF AddIntent, IInv, FilesTyped, Settled
  <2>3. item' = item BY <1>8 DEF AddIntent
  <2> QED BY <2>1, <2>2, <2>3, IntentIInv
<1>9. ASSUME NEW n \in Intents, NEW status \in IntentStatuses, SetIntentStatus(n, status)
      PROVE  IInv'
  <2>1. FilesTyped' BY <1>9 DEF SetIntentStatus, IInv, FilesTyped
  <2>2. \A m \in Intents : Settled(m) => Settled(m)'
        BY <1>9 DEF SetIntentStatus, IInv, FilesTyped, Settled
  <2>3. item' = item BY <1>9 DEF SetIntentStatus
  <2> QED BY <2>1, <2>2, <2>3, IntentIInv
<1>10. CASE Cascade BY <1>10, CascadeIInv
<1>11. CASE UNCHANGED vars
       BY <1>11, IntentIInv DEF vars, IInv, FilesTyped, Settled
<1> QED BY <1>1, <1>2, <1>3, <1>4, <1>5, <1>6, <1>7, <1>8, <1>9, <1>10, <1>11 DEF Next

\* The inductive invariant: typed files, nothing left of what was deleted, a
\* whole and acyclic graph, and a justified cascade.
THEOREM IInvHolds == Spec => []IInv
<1>1. Init => IInv BY InitIInv
<1>2. IInv /\ [Next]_vars => IInv' BY NextIInv
<1> QED BY <1>1, <1>2, PTL DEF Spec

-----------------------------------------------------------------------------
(* The theorems                                                            *)

\* No dependency ever dangles: the verbs check, forced deletes clean up.
THEOREM DependenciesExist == Spec => []DepsExist
<1>1. IInv => DepsExist BY DEF IInv
<1> QED BY <1>1, IInvHolds, PTL

\* No sequence of verbs makes an item depend on itself.
THEOREM DependenciesAcyclic == Spec => []DepsAcyclic
<1>1. IInv => DepsAcyclic BY DEF IInv
<1> QED BY <1>1, IInvHolds, PTL

\* Both: items wait for items that are there, and none for itself.
THEOREM DependenciesAreSound == Spec => []DependenciesSound
<1>1. DepsExist /\ DepsAcyclic => DependenciesSound BY DEF DependenciesSound
<1> QED BY <1>1, DependenciesExist, DependenciesAcyclic, PTL

\* What the cascade defeated has lost all the intents it served, for good.
THEOREM CascadeIsJustified == Spec => []CascadeJustified
<1>1. IInv => CascadeJustified BY DEF IInv
<1> QED BY <1>1, IInvHolds, PTL

\* A settled item stays as it is settled until it is deleted.
THEOREM SettledItemsStay == Spec => TerminalIsFinal
<1> DEFINE Stays == \A i \in Ids : item[i].status \in Terminal
                      => item'[i].status \in {item[i].status, Absent}
<1>1. IInv /\ [Next]_vars => [Stays]_vars
  <2> SUFFICES ASSUME IInv, Next PROVE Stays
      OBVIOUS
  <2> USE DEF IInv, FilesTyped
  <2>1. ASSUME NEW i \in Ids, NEW deps \in SUBSET Ids, Add(i, deps) PROVE Stays
        BY <2>1 DEF Add, Present, Terminal, Statuses, Absent
  <2>2. ASSUME NEW seed \in Seeds, InitBacklog(seed) PROVE Stays
        BY <2>2 DEF InitBacklog, Present, Terminal, Statuses, Absent
  <2>3. ASSUME NEW i \in Ids, NEW status \in Statuses, SetStatus(i, status) PROVE Stays
        BY <2>3 DEF SetStatus, Transitions, Terminal, Entry
  <2>4. ASSUME NEW i \in Ids, NEW deps \in SUBSET Ids, SetDependencies(i, deps)
        PROVE  Stays
        BY <2>4 DEF SetDependencies, Entry
  <2>5. ASSUME NEW i \in Ids, NEW j \in Ids, NEW after \in BOOLEAN, Reorder(i, j, after)
        PROVE  Stays
        BY <2>5 DEF Reorder
  <2>6. ASSUME NEW i \in Ids, NEW force \in BOOLEAN, Delete(i, force) PROVE Stays
        BY <2>6 DEF Delete, Deleted, NoEntry, Entry
  <2>7. CASE Repair BY <2>7 DEF Repair, Unblocked, Terminal
  <2>8. ASSUME NEW n \in Intents, AddIntent(n) PROVE Stays BY <2>8 DEF AddIntent
  <2>9. ASSUME NEW n \in Intents, NEW status \in IntentStatuses, SetIntentStatus(n, status)
        PROVE  Stays
        BY <2>9 DEF SetIntentStatus
  <2>10. CASE Cascade BY <2>10 DEF Cascade, CascadeDue, Terminal
  <2> QED BY <2>1, <2>2, <2>3, <2>4, <2>5, <2>6, <2>7, <2>8, <2>9, <2>10 DEF Next
<1> QED BY <1>1, IInvHolds, PTL DEF Spec, TerminalIsFinal
-----------------------------------------------------------------------------
(* The order of the file                                                   *)

Distinct(q) == \A k, l \in DOMAIN q : q[k] = q[l] => k = l
Among(q, x) == \E k \in DOMAIN q : q[k] = x

\* Whatever is listed has a first place.
LEMMA PositionIsAPlace ==
  ASSUME NEW q \in Seq(Ids), Distinct(q), NEW x, Among(q, x)
  PROVE  Position(q, x) \in 1..Len(q) /\ q[Position(q, x)] = x
<1>1. PICK k \in DOMAIN q : q[k] = x BY DEF Among
<1>2. DOMAIN q = 1..Len(q) /\ Len(q) \in Nat OBVIOUS
<1>3. \A l \in 1..k - 1 : q[l] # x
  <2> SUFFICES ASSUME NEW l \in 1..k - 1, q[l] = x PROVE FALSE
      OBVIOUS
  <2>1. l \in DOMAIN q /\ l # k BY <1>2
  <2> QED BY <1>1, <2>1 DEF Distinct
<1>4. \E m \in DOMAIN q : q[m] = x /\ \A l \in 1..m - 1 : q[l] # x BY <1>1, <1>3
<1> QED BY <1>2, <1>4 DEF Position

\* A part of a list.
Part(q, a, b) == SubSeq(q, a, b)

\* What a part of a list is.
LEMMA Slice ==
  ASSUME NEW q \in Seq(Ids), NEW a \in 1..Len(q) + 1, NEW b \in a - 1..Len(q)
  PROVE  /\ Part(q, a, b) \in Seq(Ids) /\ Len(Part(q, a, b)) = b - a + 1
         /\ \A k \in 1..b - a + 1 : Part(q, a, b)[k] = q[a + k - 1]
<1>1. a \in Int /\ b \in Int /\ Len(q) \in Nat OBVIOUS
<1>2. \A k \in a..b : q[k] \in Ids
  <2>1. \A k \in a..b : k \in 1..Len(q) BY <1>1
  <2> QED BY <2>1
<1>3. /\ Part(q, a, b) \in Seq(Ids)
      /\ Len(Part(q, a, b)) = IF a <= b THEN b - a + 1 ELSE 0
      /\ \A k \in 1..b - a + 1 : Part(q, a, b)[k] = q[a + k - 1]
  BY <1>1, <1>2, SubSeqProperties DEF Part
<1>4. a > b => b - a + 1 = 0 BY <1>1
<1> QED BY <1>3, <1>4

\* Two lists, one behind the other.
LEMMA Joined ==
  ASSUME NEW s \in Seq(Ids), NEW t \in Seq(Ids)
  PROVE  /\ s \o t \in Seq(Ids) /\ Len(s \o t) = Len(s) + Len(t)
         /\ DOMAIN (s \o t) = 1..Len(s) + Len(t) /\ Len(s) \in Nat /\ Len(t) \in Nat
         /\ \A k \in 1..Len(s) : (s \o t)[k] = s[k]
         /\ \A k \in 1..Len(t) : (s \o t)[Len(s) + k] = t[k]
OBVIOUS

\* Vec::remove.
LEMMA RemoveAtFacts ==
  ASSUME NEW q \in Seq(Ids), Distinct(q), NEW i \in 1..Len(q)
  PROVE  /\ RemoveAt(q, i) \in Seq(Ids) /\ Distinct(RemoveAt(q, i))
         /\ \A x : Among(RemoveAt(q, i), x) <=> Among(q, x) /\ x # q[i]
<1> DEFINE r == RemoveAt(q, i)
           From(k) == IF k < i THEN k ELSE k + 1
<1>1. r = Part(q, 1, i - 1) \o Part(q, i + 1, Len(q)) BY DEF RemoveAt, Part
<1>2. DOMAIN q = 1..Len(q) /\ Len(q) \in Nat /\ i \in Nat OBVIOUS
<1>3. /\ Part(q, 1, i - 1) \in Seq(Ids) /\ Len(Part(q, 1, i - 1)) = i - 1
      /\ \A k \in 1..i - 1 : Part(q, 1, i - 1)[k] = q[k]
  <2>1. 1 \in 1..Len(q) + 1 /\ i - 1 \in 1 - 1..Len(q) /\ i - 1 - 1 + 1 = i - 1
    BY <1>2
  <2> HIDE DEF r
  <2>2. /\ Part(q, 1, i - 1) \in Seq(Ids) /\ Len(Part(q, 1, i - 1)) = i - 1 - 1 + 1
        /\ \A k \in 1..i - 1 - 1 + 1 : Part(q, 1, i - 1)[k] = q[1 + k - 1]
    BY <2>1, Slice
  <2>3. \A k \in 1..i - 1 : 1 + k - 1 = k BY <1>2
  <2> QED BY <2>1, <2>2, <2>3
<1>4. /\ Part(q, i + 1, Len(q)) \in Seq(Ids) /\ Len(Part(q, i + 1, Len(q))) = Len(q) - i
      /\ \A k \in 1..Len(q) - i : Part(q, i + 1, Len(q))[k] = q[k + i]
  <2>1. i + 1 \in 1..Len(q) + 1 /\ Len(q) \in (i + 1) - 1..Len(q) /\ Len(q) - (i + 1) + 1 = Len(q) - i
        /\ \A k \in 1..Len(q) - i : i + 1 + k - 1 = k + i
    BY <1>2
  <2> DEFINE a == i + 1
             b == Len(q)
  <2>2. a \in 1..Len(q) + 1 /\ b \in a - 1..Len(q) BY <2>1
  <2> HIDE DEF r, a, b
  <2>3. /\ Part(q, a, b) \in Seq(Ids) /\ Len(Part(q, a, b)) = b - a + 1
        /\ \A k \in 1..b - a + 1 : Part(q, a, b)[k] = q[a + k - 1]
    BY <2>2, Slice
  <2>4. b - a + 1 = Len(q) - i /\ \A k \in 1..Len(q) - i : a + k - 1 = k + i BY <2>1 DEF a, b
  <2>5. /\ Part(q, a, b) \in Seq(Ids) /\ Len(Part(q, a, b)) = Len(q) - i
        /\ \A k \in 1..Len(q) - i : Part(q, a, b)[k] = q[k + i]
    BY <2>3, <2>4
  <2> QED BY <2>5 DEF a, b
<1>5. r \in Seq(Ids) /\ Len(r) = Len(q) - 1 /\ DOMAIN r = 1..Len(q) - 1
  <2> HIDE DEF r
  <2> DEFINE s == Part(q, 1, i - 1)
             t == Part(q, i + 1, Len(q))
  <2>1. r = s \o t BY <1>1
  <2>2. s \in Seq(Ids) /\ Len(s) = i - 1 /\ t \in Seq(Ids) /\ Len(t) = Len(q) - i BY <1>3, <1>4
  <2> HIDE DEF s, t
  <2>3. r \in Seq(Ids) /\ Len(r) = Len(s) + Len(t) /\ DOMAIN r = 1..Len(s) + Len(t)
    BY <2>1, <2>2, Joined
  <2>4. Len(s) + Len(t) = Len(q) - 1 BY <1>2, <2>2
  <2> QED BY <2>3, <2>4
<1>6. \A k \in 1..Len(q) - 1 : r[k] = q[From(k)] /\ From(k) \in 1..Len(q) /\ From(k) # i
  <2> SUFFICES ASSUME NEW k \in 1..Len(q) - 1
               PROVE  r[k] = q[From(k)] /\ From(k) \in 1..Len(q) /\ From(k) # i
      OBVIOUS
  <2>1. CASE k < i BY <1>1, <1>2, <1>3, <1>4, <2>1
  <2>2. CASE k >= i
    <3>1. k - (i - 1) \in 1..Len(q) - i BY <1>2, <2>2
    <3>2. r[k] = Part(q, i + 1, Len(q))[k - (i - 1)] BY <1>1, <1>2, <1>3, <1>4, <2>2
    <3>3. r[k] = q[k - (i - 1) + i] BY <1>4, <3>1, <3>2
    <3>4. k - (i - 1) + i = k + 1 BY <1>2
    <3> QED BY <1>2, <2>2, <3>3, <3>4
  <2> QED BY <1>2, <2>1, <2>2
<1>7. \A k, l \in 1..Len(q) - 1 : From(k) = From(l) => k = l BY <1>2
<1>8. \A m \in 1..Len(q) : m # i => \E k \in 1..Len(q) - 1 : From(k) = m
  <2> SUFFICES ASSUME NEW m \in 1..Len(q), m # i PROVE \E k \in 1..Len(q) - 1 : From(k) = m
      OBVIOUS
  <2>1. CASE m < i
    <3>1. m \in 1..Len(q) - 1 /\ From(m) = m BY <1>2, <2>1
    <3> QED BY <3>1
  <2>2. CASE m > i
    <3>1. m - 1 \in 1..Len(q) - 1 /\ From(m - 1) = m BY <1>2, <2>2
    <3> QED BY <3>1
  <2> QED BY <1>2, <2>1, <2>2
<1> HIDE DEF r, From
<1>9. Distinct(r) BY <1>2, <1>5, <1>6, <1>7 DEF Distinct
<1>10. \A x : Among(r, x) <=> Among(q, x) /\ x # q[i]
  <2>1. ASSUME NEW x, Among(r, x) PROVE Among(q, x) /\ x # q[i]
    <3>1. PICK k \in 1..Len(q) - 1 : r[k] = x BY <1>5, <2>1 DEF Among
    <3>2. q[From(k)] = x /\ From(k) \in DOMAIN q /\ From(k) # i BY <1>2, <1>6, <3>1
    <3> QED BY <1>2, <3>2 DEF Among, Distinct
  <2>2. ASSUME NEW x, Among(q, x), x # q[i] PROVE Among(r, x)
    <3>1. PICK m \in 1..Len(q) : q[m] = x BY <1>2, <2>2 DEF Among
    <3>2. PICK k \in 1..Len(q) - 1 : From(k) = m BY <1>8, <2>2, <3>1
    <3> QED BY <1>5, <1>6, <3>1, <3>2 DEF Among
  <2> QED BY <2>1, <2>2
<1> QED BY <1>5, <1>9, <1>10 DEF r

\* Vec::insert.
LEMMA InsertAtFacts ==
  ASSUME NEW q \in Seq(Ids), Distinct(q), NEW i \in 1..Len(q) + 1, NEW e \in Ids, ~Among(q, e)
  PROVE  /\ InsertAt(q, i, e) \in Seq(Ids) /\ Distinct(InsertAt(q, i, e))
         /\ \A x : Among(InsertAt(q, i, e), x) <=> Among(q, x) \/ x = e
<1> DEFINE r == InsertAt(q, i, e)
           To(k) == IF k < i THEN k ELSE k + 1
<1>1. r = Part(q, 1, i - 1) \o <<e>> \o Part(q, i, Len(q)) BY DEF InsertAt, Part
<1>2. DOMAIN q = 1..Len(q) /\ Len(q) \in Nat /\ i \in Nat OBVIOUS
<1>3. /\ Part(q, 1, i - 1) \in Seq(Ids) /\ Len(Part(q, 1, i - 1)) = i - 1
      /\ \A k \in 1..i - 1 : Part(q, 1, i - 1)[k] = q[k]
  <2>1. 1 \in 1..Len(q) + 1 /\ i - 1 \in 1 - 1..Len(q) /\ i - 1 - 1 + 1 = i - 1
    BY <1>2
  <2> HIDE DEF r
  <2>2. /\ Part(q, 1, i - 1) \in Seq(Ids) /\ Len(Part(q, 1, i - 1)) = i - 1 - 1 + 1
        /\ \A k \in 1..i - 1 - 1 + 1 : Part(q, 1, i - 1)[k] = q[1 + k - 1]
    BY <2>1, Slice
  <2>3. \A k \in 1..i - 1 : 1 + k - 1 = k BY <1>2
  <2> QED BY <2>1, <2>2, <2>3
<1>4. /\ Part(q, i, Len(q)) \in Seq(Ids) /\ Len(Part(q, i, Len(q))) = Len(q) - i + 1
      /\ \A k \in 1..Len(q) - i + 1 : Part(q, i, Len(q))[k] = q[k + i - 1]
  <2>1. i \in 1..Len(q) + 1 /\ Len(q) \in i - 1..Len(q)
        /\ \A k \in 1..Len(q) - i + 1 : i + k - 1 = k + i - 1
    BY <1>2
  <2> HIDE DEF r
  <2> QED BY <2>1, Slice
<1> DEFINE h == Part(q, 1, i - 1) \o <<e>>
<1>5. h \in Seq(Ids) /\ Len(h) = i /\ h[i] = e /\ \A k \in 1..i - 1 : h[k] = q[k]
  BY <1>2, <1>3
<1>6. r \in Seq(Ids) /\ Len(r) = Len(q) + 1 /\ DOMAIN r = 1..Len(q) + 1
  <2> HIDE DEF h
  <2> DEFINE t == Part(q, i, Len(q))
  <2>1. r = h \o t BY <1>1 DEF h
  <2>2. t \in Seq(Ids) /\ Len(t) = Len(q) - i + 1 BY <1>4
  <2> HIDE DEF t, r
  <2>3. r \in Seq(Ids) /\ Len(r) = Len(h) + Len(t) /\ DOMAIN r = 1..Len(h) + Len(t)
    BY <1>5, <2>1, <2>2, Joined
  <2>4. Len(h) + Len(t) = Len(q) + 1 BY <1>2, <1>5, <2>2
  <2> QED BY <2>3, <2>4
<1>7. r[i] = e /\ \A k \in 1..Len(q) : r[To(k)] = q[k] /\ To(k) \in 1..Len(q) + 1 /\ To(k) # i
  <2> HIDE DEF h
  <2>1. r = h \o Part(q, i, Len(q)) BY <1>1 DEF h
  <2>2. r[i] = e BY <1>2, <1>4, <1>5, <2>1
  <2>3. ASSUME NEW k \in 1..Len(q) PROVE r[To(k)] = q[k] /\ To(k) \in 1..Len(q) + 1 /\ To(k) # i
    <3>1. CASE k < i BY <1>2, <1>4, <1>5, <2>1, <3>1
    <3>2. CASE k >= i
      <4>1. k + 1 - i \in 1..Len(q) - i + 1 BY <1>2, <3>2
      <4>2. r[k + 1] = Part(q, i, Len(q))[k + 1 - i] BY <1>2, <1>4, <1>5, <2>1, <3>2
      <4>3. Part(q, i, Len(q))[k + 1 - i] = q[k + 1 - i + i - 1] BY <1>4, <4>1
      <4>4. k + 1 - i + i - 1 = k BY <1>2
      <4> QED BY <1>2, <3>2, <4>2, <4>3, <4>4
    <3> QED BY <1>2, <3>1, <3>2
  <2> QED BY <2>2, <2>3
<1>8. \A k, l \in 1..Len(q) : To(k) = To(l) => k = l BY <1>2
<1>9. \A m \in 1..Len(q) + 1 : m # i => \E k \in 1..Len(q) : To(k) = m
  <2> SUFFICES ASSUME NEW m \in 1..Len(q) + 1, m # i PROVE \E k \in 1..Len(q) : To(k) = m
      OBVIOUS
  <2>1. CASE m < i
    <3>1. m \in 1..Len(q) /\ To(m) = m BY <1>2, <2>1
    <3> QED BY <3>1
  <2>2. CASE m > i
    <3>1. m - 1 \in 1..Len(q) /\ To(m - 1) = m BY <1>2, <2>2
    <3> QED BY <3>1
  <2> QED BY <1>2, <2>1, <2>2
<1>10. i \in 1..Len(q) + 1 OBVIOUS
<1> HIDE DEF r, To, h
<1>11. Distinct(r)
  <2> SUFFICES ASSUME NEW m \in 1..Len(q) + 1, NEW n \in 1..Len(q) + 1, r[m] = r[n] PROVE m = n
      BY <1>6 DEF Distinct
  <2>1. \A m1 \in 1..Len(q) + 1 : m1 # i => r[m1] # e
    <3> SUFFICES ASSUME NEW m1 \in 1..Len(q) + 1, m1 # i PROVE r[m1] # e
        OBVIOUS
    <3>1. PICK k \in 1..Len(q) : To(k) = m1 BY <1>9
    <3>2. r[m1] = q[k] BY <1>7, <3>1
    <3> QED BY <1>2, <3>2 DEF Among
  <2>2. CASE m = i \/ n = i BY <1>7, <2>1, <2>2
  <2>3. CASE m # i /\ n # i
    <3>1. PICK k \in 1..Len(q) : To(k) = m BY <1>9, <2>3
    <3>2. PICK l \in 1..Len(q) : To(l) = n BY <1>9, <2>3
    <3>3. q[k] = q[l] BY <1>7, <3>1, <3>2
    <3>4. k = l BY <1>2, <3>3 DEF Distinct
    <3> QED BY <3>1, <3>2, <3>4
  <2> QED BY <2>2, <2>3
<1>12. \A x : Among(r, x) <=> Among(q, x) \/ x = e
  <2>1. ASSUME NEW x, Among(r, x) PROVE Among(q, x) \/ x = e
    <3>1. PICK m \in 1..Len(q) + 1 : r[m] = x BY <1>6, <2>1 DEF Among
    <3>2. CASE m = i BY <1>7, <3>1, <3>2
    <3>3. CASE m # i
      <4>1. PICK k \in 1..Len(q) : To(k) = m BY <1>9, <3>3
      <4> QED BY <1>2, <1>7, <3>1, <4>1 DEF Among
    <3> QED BY <3>2, <3>3
  <2>2. ASSUME NEW x, Among(q, x) PROVE Among(r, x)
    <3>1. PICK k \in 1..Len(q) : q[k] = x BY <1>2, <2>2 DEF Among
    <3> QED BY <1>6, <1>7, <3>1 DEF Among
  <2>3. Among(r, e) BY <1>6, <1>7, <1>10 DEF Among
  <2> QED BY <2>1, <2>2, <2>3
<1> QED BY <1>6, <1>11, <1>12 DEF r

\* Vec::retain leaves what is not the id, each in its turn: the rank of a kept
\* place among the kept is its place in the result.
LEMMA RetainedFacts ==
  ASSUME NEW q \in Seq(Ids), Distinct(q), NEW id
  PROVE  /\ Retained(q, id) \in Seq(Ids) /\ Distinct(Retained(q, id))
         /\ \A x : Among(Retained(q, id), x) <=> Among(q, x) /\ x # id
<1> DEFINE kept == {k \in DOMAIN q : q[k] # id}
           n == Cardinality(kept)
           upTo(k) == {l \in kept : l <= k}
           rank == [k \in kept |-> Cardinality(upTo(k))]
           Nth(m) == CHOOSE k \in kept : rank[k] = m
           r == [m \in 1..n |-> q[Nth(m)]]
<1>1. DOMAIN q = 1..Len(q) /\ Len(q) \in Nat /\ \A k \in DOMAIN q : k \in Nat /\ q[k] \in Ids OBVIOUS
<1>2. IsFiniteSet(kept) /\ n \in Nat /\ (\A k \in kept : k \in Nat)
  <2>1. IsFiniteSet(1..Len(q)) BY <1>1, FS_Interval
  <2>2. kept \in SUBSET (1..Len(q)) BY <1>1
  <2>3. IsFiniteSet(kept) BY <2>1, <2>2, FS_Subset
  <2>4. n \in Nat BY <2>3, FS_CardinalityType
  <2> QED BY <1>1, <2>3, <2>4
<1>4. \A k \in kept : upTo(k) \in SUBSET kept /\ k \in upTo(k) BY <1>2
<1> HIDE DEF kept, n
<1>5. \A k \in kept : IsFiniteSet(upTo(k)) /\ Cardinality(upTo(k)) \in 1..n
  <2> SUFFICES ASSUME NEW k \in kept PROVE IsFiniteSet(upTo(k)) /\ Cardinality(upTo(k)) \in 1..n
      OBVIOUS
  <2>1. upTo(k) \in SUBSET kept /\ k \in upTo(k) BY <1>4
  <2> HIDE DEF upTo
  <2>2. IsFiniteSet(upTo(k)) /\ Cardinality(upTo(k)) <= n BY <1>2, <2>1, FS_Subset DEF n
  <2>3. Cardinality(upTo(k)) \in Nat /\ Cardinality(upTo(k)) # 0
    BY <2>1, <2>2, FS_CardinalityType, FS_EmptySet
  <2> QED BY <1>2, <2>2, <2>3
<1>6. \A a, b \in kept : a < b => Cardinality(upTo(a)) # Cardinality(upTo(b))
  <2> SUFFICES ASSUME NEW a \in kept, NEW b \in kept, a < b,
                      Cardinality(upTo(a)) = Cardinality(upTo(b))
               PROVE  FALSE
      OBVIOUS
  <2>1. a \in Nat /\ b \in Nat BY <1>2
  <2>2. upTo(a) \in SUBSET upTo(b) /\ b \in upTo(b) /\ b \notin upTo(a)
    <3>1. \A l \in kept : l <= a => l <= b BY <1>2, <2>1
    <3>2. b <= b /\ ~(b <= a) BY <2>1
    <3> QED BY <3>1, <3>2
  <2>3. IsFiniteSet(upTo(b)) BY <1>5
  <2> HIDE DEF upTo
  <2>4. upTo(a) = upTo(b) BY <2>2, <2>3, FS_Subset
  <2> QED BY <2>2, <2>4
<1>7. rank \in Bijection(kept, 1..n)
  <2>1. rank \in [kept -> 1..n] BY <1>5
  <2>2. \A a, b \in kept : rank[a] = rank[b] => a = b
    <3> SUFFICES ASSUME NEW a \in kept, NEW b \in kept, a # b PROVE rank[a] # rank[b]
        OBVIOUS
    <3>1. a < b \/ b < a BY <1>2
    <3> QED BY <1>6, <3>1
  <2> HIDE DEF rank, upTo
  <2>3. rank \in Injection(kept, 1..n) BY <2>1, <2>2 DEF Injection, IsInjective
  <2>4. IsFiniteSet(1..n) /\ Cardinality(1..n) = n
    <3>1. IsFiniteSet(1..n) /\ Cardinality(1..n) = IF 1 > n THEN 0 ELSE n - 1 + 1 BY <1>2, FS_Interval
    <3>2. (IF 1 > n THEN 0 ELSE n - 1 + 1) = n BY <1>2
    <3> QED BY <3>1, <3>2
  <2>5. rank \in Surjection(kept, 1..n) BY <2>3, <2>4, FS_Injection DEF n
  <2> QED BY <2>3, <2>5 DEF Bijection
<1>8. /\ \A k \in kept : rank[k] \in 1..n
      /\ \A a, b \in kept : rank[a] = rank[b] => a = b
      /\ \A m \in 1..n : \E k \in kept : rank[k] = m
  <2> HIDE DEF rank
  <2> QED BY <1>7 DEF Bijection, Injection, Surjection, IsInjective
<1>9. \A m \in 1..n : Nth(m) \in kept /\ rank[Nth(m)] = m
  <2> SUFFICES ASSUME NEW m \in 1..n PROVE Nth(m) \in kept /\ rank[Nth(m)] = m
      OBVIOUS
  <2>1. \E k \in kept : rank[k] = m BY <1>8
  <2> HIDE DEF rank
  <2> QED BY <2>1
<1>10. Retained(q, id) = r BY DEF Retained, kept, n
<1> HIDE DEF rank, Nth, upTo
<1>11. r \in Seq(Ids) /\ DOMAIN r = 1..n
  <2>1. \A m \in 1..n : q[Nth(m)] \in Ids BY <1>1, <1>9 DEF kept
  <2>2. r \in [1..n -> Ids] BY <2>1
  <2> QED BY <1>2, <2>2
<1>12. Distinct(r)
  <2> SUFFICES ASSUME NEW a \in 1..n, NEW b \in 1..n, r[a] = r[b] PROVE a = b
      BY <1>11 DEF Distinct
  <2>1. q[Nth(a)] = q[Nth(b)] /\ Nth(a) \in DOMAIN q /\ Nth(b) \in DOMAIN q BY <1>9 DEF kept
  <2>2. Nth(a) = Nth(b) BY <2>1 DEF Distinct
  <2> QED BY <1>9, <2>2
<1>13. \A x : Among(r, x) <=> Among(q, x) /\ x # id
  <2>1. ASSUME NEW x, Among(r, x) PROVE Among(q, x) /\ x # id
    <3>1. PICK m \in 1..n : r[m] = x BY <1>11, <2>1 DEF Among
    <3>2. Nth(m) \in DOMAIN q /\ q[Nth(m)] # id /\ r[m] = q[Nth(m)] BY <1>9 DEF kept
    <3> QED BY <3>1, <3>2 DEF Among
  <2>2. ASSUME NEW x, Among(q, x), x # id PROVE Among(r, x)
    <3>1. PICK k \in DOMAIN q : q[k] = x BY <2>2 DEF Among
    <3>2. k \in kept BY <2>2, <3>1 DEF kept
    <3>3. rank[k] \in 1..n BY <1>8, <3>2
    <3>4. Nth(rank[k]) \in kept /\ rank[Nth(rank[k])] = rank[k] BY <1>9, <3>3
    <3>5. Nth(rank[k]) = k BY <1>8, <3>2, <3>4
    <3>6. r[rank[k]] = x BY <3>1, <3>3, <3>5
    <3> QED BY <1>11, <3>3, <3>6 DEF Among
  <2> QED BY <2>1, <2>2
<1> HIDE DEF r
<1> QED BY <1>10, <1>11, <1>12, <1>13

-----------------------------------------------------------------------------
\* The file lists what there is, each item in one place.
Listing ==
  /\ order \in Seq(Ids)
  /\ Distinct(order)
  /\ \A x : Among(order, x) <=> x \in Present

\* Distinct places that name what is there are as many as there is.
LEMMA ListingSuffices == ASSUME Listing PROVE ListedOnce
<1>1. order \in Seq(Ids) /\ DOMAIN order = 1..Len(order) /\ Len(order) \in Nat BY DEF Listing
<1>2. ToSet(order) = Present
  <2>1. \A x : x \in ToSet(order) <=> Among(order, x) BY DEF ToSet, Among
  <2> QED BY <2>1 DEF Listing
<1>3. order \in Bijection(1..Len(order), Present)
  <2>1. order \in [1..Len(order) -> Present]
    <3>1. \A k \in 1..Len(order) : order[k] \in Present BY <1>1 DEF Listing, Among
    <3>2. order \in [1..Len(order) -> Ids] BY <1>1
    <3> QED BY <3>1, <3>2
  <2>2. \A k, l \in 1..Len(order) : order[k] = order[l] => k = l BY <1>1 DEF Listing, Distinct
  <2>3. \A x \in Present : \E k \in 1..Len(order) : order[k] = x BY <1>1 DEF Listing, Among
  <2> QED BY <2>1, <2>2, <2>3 DEF Bijection, Injection, Surjection, IsInjective
<1>4. Cardinality(Present) = Len(order)
  <2>1. ExistsBijection(1..Len(order), Present) BY <1>3 DEF ExistsBijection
  <2> QED BY <1>1, <2>1, FS_CountingElements
<1> QED BY <1>2, <1>4 DEF ListedOnce

\* A step that adds, takes out and moves nothing.
LEMMA SameListing ==
  ASSUME Listing, order' = order, Present' = Present
  PROVE  Listing'
BY DEF Listing, Distinct, Among

\* run_add: the new item comes last, under a slug that was not listed.
LEMMA AddListing ==
  ASSUME IInv, Listing, NEW i \in Ids, NEW deps \in SUBSET Ids, Add(i, deps)
  PROVE  Listing'
<1>1. i \notin Present /\ order' = Append(order, i) BY DEF Add
<1>2. order \in Seq(Ids) /\ Distinct(order) /\ \A x : Among(order, x) <=> x \in Present BY DEF Listing
<1>3. /\ order' \in Seq(Ids) /\ DOMAIN order' = 1..Len(order) + 1 /\ order'[Len(order) + 1] = i
      /\ DOMAIN order = 1..Len(order) /\ Len(order) \in Nat
      /\ \A k \in 1..Len(order) : order'[k] = order[k]
  BY <1>1, <1>2
<1>4. \A k \in 1..Len(order) : order[k] # i BY <1>1, <1>2, <1>3 DEF Among
<1>5. Distinct(order')
  <2> SUFFICES ASSUME NEW k \in 1..Len(order) + 1, NEW l \in 1..Len(order) + 1, order'[k] = order'[l]
               PROVE  k = l
      BY <1>3 DEF Distinct
  <2>1. CASE k \in 1..Len(order) /\ l \in 1..Len(order) BY <1>2, <1>3, <2>1 DEF Distinct
  <2>2. CASE k = Len(order) + 1 BY <1>3, <1>4, <2>2
  <2>3. CASE l = Len(order) + 1 BY <1>3, <1>4, <2>3
  <2> QED BY <1>3, <2>1, <2>2, <2>3
<1>6. \A x : Among(order', x) <=> Among(order, x) \/ x = i
  <2>1. ASSUME NEW x, Among(order', x) PROVE Among(order, x) \/ x = i
    <3>1. PICK k \in 1..Len(order) + 1 : order'[k] = x BY <1>3, <2>1 DEF Among
    <3>2. CASE k = Len(order) + 1 BY <1>3, <3>1, <3>2
    <3>3. CASE k \in 1..Len(order) BY <1>3, <3>1, <3>3 DEF Among
    <3> QED BY <1>3, <3>2, <3>3
  <2>2. ASSUME NEW x, Among(order, x) PROVE Among(order', x)
    <3>1. PICK k \in 1..Len(order) : order[k] = x BY <1>3, <2>2 DEF Among
    <3>2. k \in DOMAIN order' BY <1>3
    <3> QED BY <1>3, <3>1, <3>2 DEF Among
  <2>3. Among(order', i)
    <3>1. Len(order) + 1 \in DOMAIN order' BY <1>3
    <3> QED BY <1>3, <3>1 DEF Among
  <2> QED BY <2>1, <2>2, <2>3
<1>7. Present' = Present \cup {i}
  <2> DEFINE new == [NoEntry EXCEPT !.status = "active", !.deps = deps]
  <2>1. new.status = "active" BY DEF NoEntry
  <2>2. item' = [item EXCEPT ![i] = new] BY DEF Add
  <2> HIDE DEF new
  <2>3. item'[i] = new /\ \A j \in Ids : j # i => item'[j] = item[j] BY <2>2 DEF IInv, FilesTyped
  <2> QED BY <2>1, <2>3 DEF Present, Absent
<1>8. \A x : Among(order', x) <=> x \in Present' BY <1>2, <1>6, <1>7
<1>9. Distinct(order)' /\ \A x : Among(order, x)' <=> Among(order', x) BY <1>5 DEF Distinct, Among
<1> QED BY <1>3, <1>8, <1>9 DEF Listing

\* The lists of the new state, and the set the file then holds.
LEMMA ListingAfter ==
  ASSUME order' \in Seq(Ids), Distinct(order'), \A x : Among(order', x) <=> x \in Present'
  PROVE  Listing'
BY DEF Listing, Distinct, Among

\* "backlog init" writes every item of its body once.
LEMMA InitBacklogListing ==
  ASSUME NEW seed \in Seeds, InitBacklog(seed)
  PROVE  Listing'
<1> DEFINE S == {i \in Ids : seed[i].status # Absent}
           q == SetToSeq(S)
           n == Cardinality(S)
<1>1. IsFiniteSet(S) BY SeedAssumption
<1>2. n \in Nat /\ ExistsBijection(1..n, S) BY <1>1, FS_CardinalityType
<1>3. order' = q BY DEF InitBacklog
<1>4. Present' = S BY DEF InitBacklog, Present
<1>5. \A x \in S : x \in Ids OBVIOUS
<1> HIDE DEF S
<1>6. q \in [1..n -> S] /\ IsInjective(q)
  <2>1. PICK f \in Bijection(1..n, S) : TRUE BY <1>2 DEF ExistsBijection
  <2>2. f \in [1..n -> S] /\ IsInjective(f) BY <2>1 DEF Bijection, Injection
  <2>3. \E g \in [1..n -> S] : IsInjective(g) BY <2>2
  <2> QED BY <2>3 DEF SetToSeq
<1> HIDE DEF q
<1>7. q \in Surjection(1..n, S)
  <2>1. q \in Injection(1..n, S) BY <1>6 DEF Injection
  <2>2. IsFiniteSet(1..n) /\ Cardinality(1..n) = n
    <3>1. IsFiniteSet(1..n) /\ Cardinality(1..n) = IF 1 > n THEN 0 ELSE n - 1 + 1
      BY <1>2, FS_Interval
    <3>2. (IF 1 > n THEN 0 ELSE n - 1 + 1) = n BY <1>2
    <3> QED BY <3>1, <3>2
  <2>3. Cardinality(S) = n OBVIOUS
  <2> HIDE DEF n
  <2>4. q \in Surjection(1..n, S) <=> Cardinality(1..n) = Cardinality(S)
    BY <1>1, <2>1, <2>2, FS_Injection
  <2> QED BY <2>2, <2>3, <2>4
<1> HIDE DEF n
<1>8. q \in Seq(Ids) /\ DOMAIN q = 1..n BY <1>2, <1>5, <1>6
<1>9. Distinct(q) BY <1>6 DEF Distinct, IsInjective
<1>10. \A x : Among(q, x) <=> x \in S BY <1>6, <1>7, <1>8 DEF Among, Surjection
<1> QED BY <1>3, <1>4, <1>8, <1>9, <1>10, ListingAfter

\* The target is still listed once the item is out, so there is a place for it.
LEMMA ReorderListing ==
  ASSUME Listing, NEW id \in Ids, NEW target \in Ids, NEW after \in BOOLEAN,
         Reorder(id, target, after)
  PROVE  Listing'
<1> DEFINE rest == RemoveAt(order, Position(order, id))
           at == Position(rest, target)
           place == IF after THEN at + 1 ELSE at
<1>1. id # target /\ id \in Present /\ target \in Present /\ Present' = Present
  BY DEF Reorder, Present
<1>2. order' = InsertAt(rest, place, id) BY DEF Reorder, Reordered
<1>3. order \in Seq(Ids) /\ Distinct(order) /\ \A x : Among(order, x) <=> x \in Present
  BY DEF Listing
<1>4. Position(order, id) \in 1..Len(order) /\ order[Position(order, id)] = id
  BY <1>1, <1>3, PositionIsAPlace
<1>5. rest \in Seq(Ids) /\ Distinct(rest) /\ \A x : Among(rest, x) <=> Among(order, x) /\ x # id
  BY <1>3, <1>4, RemoveAtFacts
<1> HIDE DEF rest
<1>6. at \in 1..Len(rest) BY <1>1, <1>3, <1>5, PositionIsAPlace
<1>7. Len(rest) \in Nat BY <1>5
<1> HIDE DEF at
<1>8. place \in 1..Len(rest) + 1 BY <1>6, <1>7
<1>9. ~Among(rest, id) BY <1>5
<1> HIDE DEF place
<1>10. /\ InsertAt(rest, place, id) \in Seq(Ids) /\ Distinct(InsertAt(rest, place, id))
       /\ \A x : Among(InsertAt(rest, place, id), x) <=> Among(rest, x) \/ x = id
  BY <1>5, <1>8, <1>9, InsertAtFacts
<1>11. \A x : Among(order', x) <=> x \in Present' BY <1>1, <1>2, <1>3, <1>5, <1>10
<1> QED BY <1>2, <1>10, <1>11, ListingAfter

\* run_delete.
LEMMA DeleteListing ==
  ASSUME IInv, Listing, NEW i \in Ids, NEW force \in BOOLEAN, Delete(i, force)
  PROVE  Listing'
<1>1. order' = Retained(order, i) BY DEF Delete
<1>2. order \in Seq(Ids) /\ Distinct(order) /\ \A x : Among(order, x) <=> x \in Present
  BY DEF Listing
<1>3. /\ Retained(order, i) \in Seq(Ids) /\ Distinct(Retained(order, i))
      /\ \A x : Among(Retained(order, i), x) <=> Among(order, x) /\ x # i
  BY <1>2, RetainedFacts
<1>4. Present' = Present \ {i}
  <2>1. \A j \in Ids : item'[j] = IF j = i THEN NoEntry ELSE [item[j] EXCEPT !.deps = @ \ {i}]
    BY DEF Delete, Deleted
  <2>2. NoEntry.status = Absent BY DEF NoEntry
  <2>3. \A j \in Ids : item[j] \in Entry BY DEF IInv, FilesTyped
  <2>4. \A j \in Ids \ {i} : item'[j].status = item[j].status BY <2>1, <2>3 DEF Entry
  <2>5. item'[i] = NoEntry BY <2>1
  <2> QED BY <2>2, <2>4, <2>5 DEF Present
<1>5. \A x : Among(order', x) <=> x \in Present' BY <1>1, <1>2, <1>3, <1>4
<1> QED BY <1>1, <1>3, <1>5, ListingAfter

\* An empty file lists nothing.
LEMMA InitListing == Init => Listing
<1> SUFFICES ASSUME Init PROVE Listing
    OBVIOUS
<1>1. order = << >> /\ Present = {} BY DEF Init, Present, NoEntry
<1> QED BY <1>1 DEF Listing, Distinct, Among

\* The verbs that move nothing change no entry's presence.
LEMMA NextListing == IInv /\ Listing /\ [Next]_vars => Listing'
<1> SUFFICES ASSUME IInv, Listing, [Next]_vars PROVE Listing'
    OBVIOUS
<1>1. \A j \in Ids : item[j] \in Entry BY DEF IInv, FilesTyped
<1>2. ASSUME \A j \in Ids : item'[j].status = Absent <=> item[j].status = Absent, order' = order
      PROVE  Listing'
  <2>1. Present' = Present BY <1>2 DEF Present
  <2> QED BY <1>2, <2>1, SameListing
<1>3. ASSUME NEW i \in Ids, NEW status \in Statuses, SetStatus(i, status) PROVE Listing'
  <2> DEFINE new == [item[i] EXCEPT !.status = status, !.reason = status = "blocked"]
  <2>1. item' = [item EXCEPT ![i] = new] /\ order' = order BY <1>3 DEF SetStatus
  <2>2. new.status = status BY <1>1 DEF Entry
  <2> HIDE DEF new
  <2>3. item'[i] = new /\ \A j \in Ids : j # i => item'[j] = item[j]
    BY <2>1 DEF IInv, FilesTyped
  <2>4. status # Absent /\ item[i].status # Absent
    BY <1>3 DEF SetStatus, Present, Statuses, Absent
  <2> QED BY <1>2, <2>1, <2>2, <2>3, <2>4
<1>4. ASSUME NEW i \in Ids, NEW deps \in SUBSET Ids, SetDependencies(i, deps) PROVE Listing'
  <2> DEFINE new == [item[i] EXCEPT !.deps = deps]
  <2>1. item' = [item EXCEPT ![i] = new] /\ order' = order BY <1>4 DEF SetDependencies
  <2>2. new.status = item[i].status BY <1>1 DEF Entry
  <2> HIDE DEF new
  <2>3. item'[i] = new /\ \A j \in Ids : j # i => item'[j] = item[j]
    BY <2>1 DEF IInv, FilesTyped
  <2> QED BY <1>2, <2>1, <2>2, <2>3
<1>5. CASE Repair
  <2>1. \A j \in Ids : /\ j \notin Unblocked => item'[j] = item[j]
                       /\ j \in Unblocked => item'[j] = [item[j] EXCEPT !.status = "active", !.reason = FALSE]
    BY <1>5 DEF Repair
  <2>2. \A j \in Unblocked : item[j].status # Absent BY DEF Unblocked, Absent
  <2>3. \A j \in Ids : j \in Unblocked => item'[j].status # Absent
    BY <1>1, <2>1 DEF Entry, Absent
  <2>4. order' = order BY <1>5 DEF Repair
  <2> QED BY <1>2, <2>1, <2>2, <2>3, <2>4
<1>6. CASE Cascade
  <2>1. \A j \in Ids : /\ ~CascadeDue(j) => item'[j] = item[j]
                       /\ CascadeDue(j) => item'[j] = [item[j] EXCEPT !.status = "defeated", !.cascaded = TRUE]
    BY <1>6 DEF Cascade
  <2>2. \A j \in Ids : CascadeDue(j) => item[j].status # Absent BY DEF CascadeDue, Absent
  <2>3. \A j \in Ids : CascadeDue(j) => item'[j].status # Absent
    BY <1>1, <2>1 DEF Entry, Absent
  <2>4. order' = order BY <1>6 DEF Cascade
  <2> QED BY <1>2, <2>1, <2>2, <2>3, <2>4
<1>7. ASSUME item' = item, order' = order PROVE Listing' BY <1>2, <1>7
<1>8. ASSUME NEW n \in Intents, AddIntent(n) PROVE Listing' BY <1>7, <1>8 DEF AddIntent
<1>9. ASSUME NEW n \in Intents, NEW status \in IntentStatuses, SetIntentStatus(n, status)
      PROVE  Listing'
  BY <1>7, <1>9 DEF SetIntentStatus
<1>10. CASE UNCHANGED vars BY <1>7, <1>10 DEF vars
<1> QED BY <1>3, <1>4, <1>5, <1>6, <1>8, <1>9, <1>10, AddListing, InitBacklogListing,
           ReorderListing, DeleteListing DEF Next

\* backlog.yaml lists every item there is, each once and nothing else: adding,
\* seeding, reordering (the item leaves its old place before the new one is
\* looked up) and deleting lose and repeat none, whatever their order.
THEOREM ItemsAreListedOnce == Spec => []ListedOnce
<1>1. IInv /\ Listing /\ [Next]_vars => Listing' BY NextListing
<1>2. Init => Listing BY InitListing
<1>3. Listing => ListedOnce BY ListingSuffices
<1> QED BY <1>1, <1>2, <1>3, IInvHolds, PTL DEF Spec
=============================================================================
