---------------------------- MODULE KnowledgeStore ----------------------------
(***************************************************************************)
(* The justification store of crates/knowledge-graph: Store<K> with insert,*)
(* set_status, defeat with its cascade, supersede, and the file form.  The *)
(* kind is the intent's, with the backlog's word for a defeated item.      *)
(***************************************************************************)
EXTENDS PlanKinds, Naturals, FiniteSetsExt

CONSTANTS
  NoItem,   \* a model value
  ItemIds,  \* "cascade" is none of them
  Serves,   \* of each id the sets of ids it may serve when it is inserted
  MaxCalls  \* bound: calls on a store

\* defeated_by is a plain string in the file: an item named as the cascade's
\* mark could not be told from it.
ASSUME CascadeAssumption == "cascade" \notin ItemIds
ASSUME ItemIdsAssumption == IsFiniteSet(ItemIds)

Nobody == {}
ByCascade == {<<"cascade">>}
ByItem(i) == {<<"item", i>>}

VARIABLES
  store,   \* of each id its item, or NoItem
  calls    \* how many calls have changed it

store_vars == <<store, calls>>

Items == {i \in ItemIds : store[i] # NoItem}

StoreItem ==
  [status : IntentStatus, serves : UNION {Serves[i] : i \in ItemIds},
   supersedes : SUBSET ItemIds, superseded_by : SUBSET ItemIds,
   defeated_by : {Nobody, ByCascade} \cup {ByItem(i) : i \in ItemIds}]
ASSUME NoItemAssumption == NoItem \notin StoreItem

Item(serves) ==
  [status |-> "active", serves |-> serves, supersedes |-> {}, superseded_by |-> {},
   defeated_by |-> Nobody]

\* insert: an id that is there is refused.
Insert(i, serves) ==
  /\ i \notin Items
  /\ store' = [store EXCEPT ![i] = Item(serves)]

StoreSetStatus(i, status) ==
  /\ i \in Items
  /\ MaySetStatus("intent", store[i].status, status)
  /\ store' = [store EXCEPT ![i].status = status]

\* Mutant: one defeated intent is enough.
FallsWithAny(defeated) ==
  defeated \cup {i \in Items : store[i].serves \cap defeated # {}}

\* One pass of the cascade: an item falls when it serves something and all it
\* serves has fallen in this call.
FallsWith(defeated) ==
  defeated \cup {i \in Items : store[i].serves # {} /\ store[i].serves \subseteq defeated}

\* The passes of defeat, until one changes nothing.
Cascaded(root) ==
  FoldSet(LAMBDA i, defeated : FallsWith(defeated), {root}, ItemIds) \ {root}

\* defeat: whatever the status was.
Defeat(root) ==
  /\ root \in Items
  /\ store' = [i \in ItemIds |->
       IF i = root THEN [store[i] EXCEPT !.status = "defeated", !.defeated_by = ByItem(root)]
       ELSE IF i \in Cascaded(root)
              THEN [store[i] EXCEPT !.status = "defeated", !.defeated_by = ByCascade]
            ELSE store[i]]

\* Mutant: the link back is set on an item that has none.
SupersedeOnce(old, new) ==
  /\ {old, new} \subseteq Items
  /\ store' = [[store EXCEPT ![old].status = "superseded", ![old].superseded_by = {new}]
               EXCEPT ![new].supersedes = IF @ = {} THEN {old} ELSE @]

\* supersede: both ends of the link; nothing of the status is checked.
Supersede(old, new) ==
  /\ {old, new} \subseteq Items
  /\ store' = [[store EXCEPT ![old].status = "superseded", ![old].superseded_by = {new}]
               EXCEPT ![new].supersedes = @ \cup {old}]

StoreCall ==
  \/ \E i \in ItemIds : \E s \in Serves[i] : Insert(i, s)
  \/ \E i \in ItemIds, s \in IntentStatus : StoreSetStatus(i, s)
  \/ \E i \in ItemIds : Defeat(i)
  \/ \E i, j \in ItemIds : Supersede(i, j)

StoreInit == store = [i \in ItemIds |-> NoItem] /\ calls = 0
StoreNext == calls < MaxCalls /\ calls' = calls + 1 /\ StoreCall

StoreSpec == StoreInit /\ [][StoreNext]_store_vars

-----------------------------------------------------------------------------
(* The file                                                                *)

\* The wire form of defeated_by is one string, left out when there is none.
WireDefeatedBy(by) == {IF d = <<"cascade">> THEN "cascade" ELSE d[2] : d \in by}
ReadDefeatedBy(wire) == {IF w = "cascade" THEN <<"cascade">> ELSE <<"item", w>> : w \in wire}

ToYaml(version, word) ==
  [schema_version |-> version, kind |-> word,
   items |-> [i \in Items |-> [store[i] EXCEPT !.defeated_by = WireDefeatedBy(@)]]]

\* from_yaml: refused unless the version is this one and the kind this store's.
FromYaml(file) ==
  IF file.schema_version # 1 \/ file.kind # "intent" THEN {}
  ELSE {[i \in ItemIds |-> IF i \notin DOMAIN file.items THEN NoItem
                           ELSE [file.items[i] EXCEPT !.defeated_by = ReadDefeatedBy(@)]]}

-----------------------------------------------------------------------------
\* What the links of a store say of each other: an item names its successor and
\* the successor names it; an item is down with the cascade only if it serves
\* something and all of that is settled.  The file gives back the same store,
\* who defeated what included, and a file of another kind is refused.
StoreSound ==
  /\ \A i \in Items : \A n \in store[i].superseded_by : n \in Items /\ i \in store[n].supersedes
  /\ \A i \in Items : store[i].defeated_by = ByCascade =>
       store[i].serves # {} /\ \A p \in store[i].serves : p \in Items /\ IsTerminal("intent", store[p].status)
  /\ FromYaml(ToYaml(1, "intent")) = {store} /\ FromYaml(ToYaml(1, "finding")) = {}
=============================================================================
