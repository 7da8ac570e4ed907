------------------------------- MODULE Records -------------------------------
(***************************************************************************)
(* What the "state" verbs do to the texts, ids and statuses of a plan's    *)
(* records: memory.yaml, intents.yaml, findings.yaml, the texts of         *)
(* backlog.yaml, the session log, the focus of a cycle and the objections  *)
(* to it.  A behaviour is the history of one of these files; a step is one *)
(* whole verb.  A verb that bails, or finds nothing to change, is no step. *)
(* Dependencies and the cascade are in Backlog.                            *)
(***************************************************************************)
EXTENDS PlanKinds, Naturals, Sequences, SequencesExt

CONSTANTS
  Unset,       \* a model value: nothing is there
  Titles,      \* what --title may say, as its slug: its words, a number for each
  Texts,       \* of each kind of file, what a text may be: "text" or "blank"
  AnchorFlags, \* values of --code-anchor: sequences of <<key, value>>
  Seeds,       \* bodies of "memory init": sequences of records
  MaxRecords   \* bound: of each kind of file, how many entries it gets

VARIABLES
  kind,        \* the file of this behaviour
  records,     \* its items
  sessions,    \* session-log.yaml
  latest,      \* latest-session.yaml, or Unset
  focus,       \* this-cycle-focus.yaml, or Unset
  objections   \* focus-objections.yaml

record_vars == <<kind, records, sessions, latest, focus, objections>>
files == <<sessions, latest, focus, objections>>

\* A suffixed id is the title with a number behind it.
ASSUME TitleAssumption == Titles \subseteq Seq(Nat)

-----------------------------------------------------------------------------
(* Ids and justifications                                                  *)

\* What is left of a list, in its order, when only these places are kept.
Picked(s, kept) ==
  LET rank == [k \in kept |-> Cardinality({l \in kept : l <= k})]
  IN [n \in 1..Cardinality(kept) |-> s[CHOOSE k \in kept : rank[k] = n]]

\* Mutant: the suffix is the number of records with that title.
AllocateIdByCount(title, entries) ==
  LET same == {i \in DOMAIN entries : entries[i].claim = title}
  IN IF title \notin {entries[i].id : i \in DOMAIN entries} THEN title
     ELSE Append(title, Cardinality(same) + 1)

\* allocate_id: the slug, or the slug and the first number from 2 that is free.
AllocateId(title, entries) ==
  LET ids == {entries[i].id : i \in DOMAIN entries}
      free == {n \in 2..(Len(entries) + 2) : Append(title, n) \notin ids}
  IN IF title \notin ids THEN title
     ELSE Append(title, CHOOSE n \in free : \A m \in free : n <= m)

Rationale(text) == <<"rationale", text>>
Anchor(flag) == <<"anchor", flag>>

\* assign_anchor_field: no empty value, no key twice.
AnchorFields(flag) ==
  /\ \A i \in DOMAIN flag : flag[i][2] # ""
  /\ \A i, j \in DOMAIN flag : flag[i][1] = flag[j][1] => i = j

\* parse_code_anchor: known keys, and component, path and sha among them.
ParseCodeAnchor(flag) ==
  LET keys == {flag[i][1] : i \in DOMAIN flag}
  IN /\ keys \subseteq {"component", "path", "lines", "sha"}
     /\ AnchorFields(flag)
     /\ {"component", "path", "sha"} \subseteq keys

\* Mutant: the new text replaces all that justifies the record.
WithRationaleOnly(why, text) == <<Rationale(text)>>

\* The first rationale is replaced; a record without one gets it in front.
WithRationale(why, text) ==
  LET at == SelectInSeq(why, LAMBDA j : j[1] = "rationale")
  IN IF at = 0 THEN <<Rationale(text)>> \o why ELSE [why EXCEPT ![at] = Rationale(text)]

\* A fresh item: active, or new for a finding.
Fresh(claim, why) ==
  [id |-> AllocateId(claim, records), claim |-> claim, why |-> why,
   status |-> IF kind = "finding" THEN "new" ELSE "active", results |-> Unset, handoff |-> Unset]

-----------------------------------------------------------------------------
(* What every file's verbs are made of                                     *)

Find(id) == SelectInSeq(records, LAMBDA r : r.id = id)

Add(r) ==
  /\ Len(records) < MaxRecords[kind]
  /\ records' = Append(records, r)
  /\ UNCHANGED <<kind, files>>

Change(id, Edited(_)) ==
  /\ Find(id) # 0
  /\ records' = [records EXCEPT ![Find(id)] = Edited(@)]
  /\ UNCHANGED <<kind, files>>

SetStatus(id, status) ==
  /\ status \in Vocabulary(kind)
  /\ Find(id) # 0
  /\ MaySetStatus(kind, records[Find(id)].status, status)
  /\ Change(id, LAMBDA r : [r EXCEPT !.status = status])

SetRationale(id, text) == Change(id, LAMBDA r : [r EXCEPT !.why = WithRationale(@, text)])

Ids == {records[i].id : i \in DOMAIN records}

-----------------------------------------------------------------------------
(* state memory                                                            *)

AddMemory(claim, text, flags) ==
  /\ \A i \in DOMAIN flags : ParseCodeAnchor(flags[i])
  /\ Add(Fresh(claim, <<Rationale(text)>> \o [i \in DOMAIN flags |-> Anchor(flags[i])]))

\* run_init: refused when the memory has an entry; the body is stored as it is.
InitMemory(seed) == records = <<>> /\ records' = seed /\ UNCHANGED <<kind, files>>

SetMemoryBody(id, text) == SetRationale(id, text)
SetMemoryTitle(id, title) == Change(id, LAMBDA r : [r EXCEPT !.claim = title])
SetMemoryStatus(id, status) == SetStatus(id, status)

DeleteMemory(id) ==
  /\ Find(id) # 0
  /\ records' = Picked(records, {n \in DOMAIN records : records[n].id # id})
  /\ UNCHANGED <<kind, files>>

MemoryNext ==
  \/ \E t \in Titles, x \in Texts[kind], f \in {<<>>} \cup {<<a>> : a \in AnchorFlags} : AddMemory(t, x, f)
  \/ \E s \in Seeds : InitMemory(s)
  \/ \E i \in Ids, x \in Texts[kind] : SetMemoryBody(i, x)
  \/ \E i \in Ids, t \in Titles : SetMemoryTitle(i, t)
  \/ \E i \in Ids, s \in MemoryStatus : SetMemoryStatus(i, s)
  \/ \E i \in Ids : DeleteMemory(i)

(* state intents                                                           *)

AddIntent(claim, text) == Add(Fresh(claim, <<Rationale(text)>>))
SetIntentStatus(id, status) == SetStatus(id, status)
IntentsNext ==
  \/ \E t \in Titles, x \in Texts[kind] : AddIntent(t, x)
  \/ \E i \in Ids, s \in IntentStatus : SetIntentStatus(i, s)

(* findings                                                                *)

AddFinding(claim, text) == Add(Fresh(claim, <<Rationale(text)>>))
SetFindingStatus(id, status) == SetStatus(id, status)
FindingsNext ==
  \/ \E t \in Titles, x \in Texts[kind] : AddFinding(t, x)
  \/ \E i \in Ids, s \in FindingStatus : SetFindingStatus(i, s)

(* state backlog: the texts                                                *)

AddItem(claim, text) == Add(Fresh(claim, <<Rationale(text)>>))
SetItemResults(id, text) == Change(id, LAMBDA r : [r EXCEPT !.results = text])
SetItemDescription(id, text) == text # "blank" /\ SetRationale(id, text)
SetItemHandoff(id, text) == Change(id, LAMBDA r : [r EXCEPT !.handoff = text])
ClearItemHandoff(id) == Change(id, LAMBDA r : [r EXCEPT !.handoff = Unset])
SetItemTitle(id, title) == Change(id, LAMBDA r : [r EXCEPT !.claim = title])
SetItemStatus(id, status) == SetStatus(id, status)
ItemsNext ==
  \/ \E t \in Titles, x \in Texts[kind] : AddItem(t, x)
  \/ \E i \in Ids, x \in Texts[kind] : SetItemResults(i, x) \/ SetItemDescription(i, x) \/ SetItemHandoff(i, x)
  \/ \E i \in Ids : ClearItemHandoff(i)
  \/ \E i \in Ids, t \in Titles : SetItemTitle(i, t)
  \/ \E i \in Ids, s \in BacklogStatus : SetItemStatus(i, s)

-----------------------------------------------------------------------------
(* state session-log                                                       *)

Session(id, text) == [id |-> id, body |-> text]

\* Mutant: the last session alone is looked at.
AppendRecordLast(r) ==
  /\ Len(sessions) < MaxRecords[kind]
  /\ sessions = <<>> \/ Last(sessions).id # r.id
  /\ sessions' = Append(sessions, r)

\* append_record: an id that is there is not appended again.
AppendRecord(r) ==
  /\ Len(sessions) < MaxRecords[kind]
  /\ \A i \in DOMAIN sessions : sessions[i].id # r.id
  /\ sessions' = Append(sessions, r)

AppendSession(r) == AppendRecord(r) /\ UNCHANGED <<kind, records, latest, focus, objections>>
SetLatest(r) == latest' = r /\ UNCHANGED <<kind, records, sessions, focus, objections>>
AppendLatestToLog == latest # Unset /\ AppendSession(latest)

SessionsNext ==
  \/ \E i \in 1..2, x \in Texts[kind] : AppendSession(Session(i, x)) \/ SetLatest(Session(i, x))
  \/ AppendLatestToLog

(* state this-cycle-focus, state focus-objections                          *)

\* run_set: the whole document; the items need not be in the backlog.
SetFocus(items) ==
  /\ "" \notin items
  /\ focus' = items
  /\ UNCHANGED <<kind, records, sessions, latest, objections>>
ClearFocus == focus # Unset /\ focus' = Unset /\ UNCHANGED <<kind, records, sessions, latest, objections>>

Object(o) ==
  /\ Len(objections) < MaxRecords[kind]
  /\ objections' = Append(objections, o)
  /\ UNCHANGED <<kind, records, sessions, latest, focus>>
AddWrongTarget(reasoning) == reasoning # "" /\ Object(<<"wrong-target", reasoning>>)
AddSkipItem(item, reasoning) == item # "" /\ reasoning # "" /\ Object(<<"skip-item", item>>)
AddPremature(reasoning) == reasoning # "" /\ Object(<<"premature", reasoning>>)
ClearObjections ==
  /\ objections # <<>>
  /\ objections' = <<>>
  /\ UNCHANGED <<kind, records, sessions, latest, focus>>

FocusNext ==
  \/ \E items \in SUBSET {"a", "b", ""} : SetFocus(items)
  \/ ClearFocus
ObjectionsNext ==
  \/ \E r \in Texts[kind] \cup {""} : AddWrongTarget(r) \/ AddPremature(r)
  \/ \E i \in {"a", ""}, r \in Texts[kind] \cup {""} : AddSkipItem(i, r)
  \/ ClearObjections

-----------------------------------------------------------------------------
NothingRecorded == records = <<>> /\ sessions = <<>> /\ latest = Unset /\ focus = Unset /\ objections = <<>>
RecordsIdle == kind = Unset /\ NothingRecorded
RecordsInit == kind \in DOMAIN MaxRecords /\ NothingRecorded

RecordsNext ==
  \/ kind = "memory-entry" /\ MemoryNext
  \/ kind = "intent" /\ IntentsNext
  \/ kind = "finding" /\ FindingsNext
  \/ kind = "backlog-item" /\ ItemsNext
  \/ kind = "session" /\ SessionsNext
  \/ kind = "focus" /\ FocusNext
  \/ kind = "objection" /\ ObjectionsNext

-----------------------------------------------------------------------------
Unique(entries) == \A i, j \in DOMAIN entries : entries[i].id = entries[j].id => i = j
OtherReasons(r) == Picked(r.why, {n \in DOMAIN r.why : r.why[n][1] # "rationale"})
AnchorsWhole(r) == \A n \in DOMAIN r.why : r.why[n][1] = "anchor" => ParseCodeAnchor(r.why[n][2])

\* A body for "memory init" has each id once and whole anchors: run_init
\* stores what it is given.
Fields == {"id", "claim", "why", "status", "results", "handoff"}
ASSUME SeedAssumption ==
  \A s \in Seeds :
    /\ s \in Seq({s[i] : i \in DOMAIN s})
    /\ Unique(s)
    /\ \A i \in DOMAIN s :
         /\ s[i] = [f \in Fields |-> s[i][f]]
         /\ s[i].why \in Seq({s[i].why[n] : n \in DOMAIN s[i].why})
         /\ AnchorsWhole(s[i])

\* It is the same record, as r before a verb and as t after it.
SameRecord(r, t) ==
  /\ MaySetStatus(kind, r.status, t.status)
  /\ IsTerminal(kind, r.status) => t.status = r.status
  /\ OtherReasons(r) = OtherReasons(t)
RecordStep ==
  /\ Unique(records')
  /\ \A i \in DOMAIN records, j \in DOMAIN records' :
       records[i].id = records'[j].id => SameRecord(records[i], records'[j])
  /\ \A j \in DOMAIN records' : AnchorsWhole(records'[j])
  /\ Cardinality({i \in DOMAIN records : \A j \in DOMAIN records' : records'[j] # records[i]}) <= 1
LogStep ==
  /\ Unique(sessions')
  /\ IsPrefix(sessions, sessions')
  /\ objections' = <<>> \/ IsPrefix(objections, objections')

\* A record is the same one for as long as its id is there: whatever the verbs
\* do, its status goes by its kind's table and never leaves a settled one, its
\* anchors stay and stay whole; no id is ever given to two, and one verb touches
\* one record.  A session is logged once and for good, and objections are only
\* dropped together.
RecordHistory == [][RecordStep /\ LogStep]_record_vars
=============================================================================
