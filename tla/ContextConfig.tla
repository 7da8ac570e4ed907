---------------------------- MODULE ContextConfig ----------------------------
(***************************************************************************)
(* A context directory and its configuration: "init" makes the layout step *)
(* by step (init.rs), every other command first migrates a directory of    *)
(* version 1 (migrate_v1_to_v2.rs) and then resolves the configuration     *)
(* from the embedded defaults and config.lua (config_lua.rs); "repo" keeps *)
(* the registry (repos.rs).  A command may be killed between two steps;    *)
(* the next one starts from what is on the disk.                           *)
(***************************************************************************)
EXTENDS Naturals, Sequences, SequencesExt

CONSTANTS
  Missing,       \* a model value: the file is not there
  Embedded,      \* the settings that ship with the program: a function on keys
  LegacyDirs,    \* what a directory may hold: functions from file to settings
  Slugs,         \* names of repositories
  InitOnLegacy,  \* "init" is also run on a directory of version 1
  MaxKills       \* bound: commands killed

\* The files in the order collect_legacy_files lists them; the overlays last.
LegacyFiles == <<"config.yaml", "agent.yaml", "work.md", "config.local.yaml", "agent.local.yaml">>
Overlay == [b \in {"config.yaml", "agent.yaml"} |-> IF b = "config.yaml" THEN "config.local.yaml"
                                                     ELSE "agent.local.yaml"]
\* Keys the translation knows; all others are dropped.
Translated == {"agent", "headroom", "model", "provider", "token"}

ASSUME EmbeddedAssumption == DOMAIN Embedded = Translated
ASSUME InitOnLegacyAssumption == InitOnLegacy \in BOOLEAN

VARIABLES
  began,     \* what the directory held at first
  legacy,    \* the files of version 1 still there: a function to their settings
  lua,       \* config.lua: Missing, or [set, stamped]
  layout,    \* what init has made: the seeds and the repository of the context
  registry,  \* repos.yaml
  cmd,       \* the command under way and its next step
  kills      \* commands killed

context_vars == <<began, legacy, lua, layout, registry, cmd, kills>>

Idle == [at |-> "idle", todo |-> <<>>, result |-> Missing]
NextStep(at) == cmd' = [cmd EXCEPT !.at = at]

-----------------------------------------------------------------------------
(* Settings                                                                *)

\* The entries of over come first (deep_merge_yaml, HashMap::insert).
Over(over, base) ==
  [k \in DOMAIN over \cup DOMAIN base |-> IF k \in DOMAIN over THEN over[k] ELSE base[k]]

ReadFile(dir, f) == IF f \in DOMAIN dir THEN dir[f] ELSE <<>>

\* Mutant: the overlay is only read when its base is there.
ReadMergedYamlBase(dir, base) ==
  IF base \in DOMAIN dir THEN Over(ReadFile(dir, Overlay[base]), dir[base]) ELSE <<>>

\* read_merged_yaml: the base with its overlay, or either alone.
ReadMergedYaml(dir, base) == Over(ReadFile(dir, Overlay[base]), ReadFile(dir, base))

\* generate_lua_from_legacy, run by config_lua: one call for each known key.
GenerateLua(dir) ==
  LET all == Over(ReadMergedYaml(dir, "config.yaml"), ReadMergedYaml(dir, "agent.yaml"))
  IN [k \in DOMAIN all \cap Translated |-> all[k]]

\* What config.lua may be: a translation, or the starter of init.
LuaFiles == [set : {GenerateLua(dir) : dir \in LegacyDirs} \cup {<<>>}, stamped : BOOLEAN]
ASSUME MissingAssumption == Missing \notin LuaFiles

\* resolve: the embedded seed, then config.lua over it.
Resolved == IF lua = Missing THEN Embedded ELSE Over(lua.set, Embedded)

-----------------------------------------------------------------------------
(* Migration of a directory of version 1                                   *)

CollectLegacyFiles == SelectSeq(LegacyFiles, LAMBDA f : f \in DOMAIN legacy)

NoLegacyFiles == \A i \in DOMAIN LegacyFiles : LegacyFiles[i] \notin DOMAIN legacy

\* plan_migration: legacy files alone say that there is work to do.
PlanMigration ==
  /\ cmd.at = "idle"
  /\ cmd' = [at |-> IF NoLegacyFiles THEN "resolve"
                    ELSE IF lua = Missing THEN "translate"
                    ELSE IF lua.stamped THEN "delete" ELSE "stamp",
             todo |-> CollectLegacyFiles, result |-> Missing]
  /\ UNCHANGED <<began, legacy, lua, layout, registry, kills>>

\* The settings are read and config.lua is renamed into place.
Translate ==
  /\ cmd.at = "translate"
  /\ lua' = [set |-> GenerateLua(legacy), stamped |-> TRUE]
  /\ NextStep("delete")
  /\ UNCHANGED <<began, legacy, layout, registry, kills>>

\* append_marker_to_existing_lua: nothing is translated.
Stamp ==
  /\ cmd.at = "stamp"
  /\ lua' = [lua EXCEPT !.stamped = TRUE]
  /\ NextStep("delete")
  /\ UNCHANGED <<began, legacy, layout, registry, kills>>

\* Mutant: the files go before config.lua is written.
DeleteLegacyEarly ==
  /\ cmd.at \in {"delete", "translate"}
  /\ cmd.todo # <<>>
  /\ legacy' = [f \in DOMAIN legacy \ {Head(cmd.todo)} |-> legacy[f]]
  /\ cmd' = [cmd EXCEPT !.todo = Tail(@)]
  /\ UNCHANGED <<began, lua, layout, registry, kills>>

\* delete_legacy_files: one after the other; a file that has gone is no error.
DeleteLegacy ==
  /\ cmd.at = "delete"
  /\ cmd.todo # <<>>
  /\ legacy' = [f \in DOMAIN legacy \ {Head(cmd.todo)} |-> legacy[f]]
  /\ cmd' = [cmd EXCEPT !.todo = Tail(@)]
  /\ UNCHANGED <<began, lua, layout, registry, kills>>

\* prune_legacy_dirs takes only what is empty.
Prune ==
  /\ cmd.at = "delete"
  /\ cmd.todo = <<>>
  /\ NextStep("resolve")
  /\ UNCHANGED <<began, legacy, lua, layout, registry, kills>>

Resolve ==
  /\ cmd.at = "resolve"
  /\ cmd' = [Idle EXCEPT !.result = Resolved]
  /\ UNCHANGED <<began, legacy, lua, layout, registry, kills>>

-----------------------------------------------------------------------------
(* init                                                                    *)

\* The starter config.lua sets nothing.
Stub == [set |-> <<>>, stamped |-> FALSE]
FindingsSeed == {"findings"}              \* the fields of the seeded findings.yaml
RegistrySeed == [schema_version |-> 1, repos |-> {}]

InitStub ==
  /\ cmd.at = "idle"
  /\ InitOnLegacy \/ DOMAIN legacy = {}
  /\ lua' = IF lua = Missing THEN Stub ELSE lua
  /\ NextStep("seed-registry")
  /\ UNCHANGED <<began, legacy, layout, registry, kills>>

\* Mutant: a registry is seeded again by every init.
SeedRegistryAgain ==
  /\ cmd.at = "seed-registry"
  /\ registry' = RegistrySeed
  /\ NextStep("seed-findings")
  /\ UNCHANGED <<began, legacy, lua, layout, kills>>

SeedRegistry ==
  /\ cmd.at = "seed-registry"
  /\ registry' = IF registry = Missing THEN RegistrySeed ELSE registry
  /\ NextStep("seed-findings")
  /\ UNCHANGED <<began, legacy, lua, layout, kills>>

SeedFindings ==
  /\ cmd.at = "seed-findings"
  /\ layout' = [layout EXCEPT !.findings = IF @ = {} THEN FindingsSeed ELSE @]
  /\ NextStep("git-init")
  /\ UNCHANGED <<began, legacy, lua, registry, kills>>

\* ensure_git_repository: nothing is done where a .git is.
EnsureGitRepository ==
  /\ cmd.at = "git-init"
  /\ IF layout.git = "none"
       THEN layout' = [layout EXCEPT !.git = "made"] /\ NextStep("git-commit")
       ELSE cmd' = Idle /\ UNCHANGED layout
  /\ UNCHANGED <<began, legacy, lua, registry, kills>>

CommitInitial ==
  /\ cmd.at = "git-commit"
  /\ layout' = [layout EXCEPT !.git = "committed"]
  /\ cmd' = Idle
  /\ UNCHANGED <<began, legacy, lua, registry, kills>>

InitSteps == InitStub \/ SeedRegistry \/ SeedFindings \/ EnsureGitRepository \/ CommitInitial

-----------------------------------------------------------------------------
(* repo                                                                    *)

LoadOrEmpty == IF registry = Missing THEN RegistrySeed ELSE registry

\* try_add, save_atomic: a name that is there is refused.
RepoAdd(slug) ==
  /\ cmd.at = "idle"
  /\ slug \notin LoadOrEmpty.repos
  /\ registry' = [LoadOrEmpty EXCEPT !.repos = @ \cup {slug}]
  /\ UNCHANGED <<began, legacy, lua, layout, cmd, kills>>

RepoRemove(slug) ==
  /\ cmd.at = "idle"
  /\ slug \in LoadOrEmpty.repos
  /\ registry' = [LoadOrEmpty EXCEPT !.repos = @ \ {slug}]
  /\ UNCHANGED <<began, legacy, lua, layout, cmd, kills>>

-----------------------------------------------------------------------------
Killed ==
  /\ cmd.at # "idle"
  /\ kills < MaxKills
  /\ kills' = kills + 1
  /\ cmd' = Idle
  /\ UNCHANGED <<began, legacy, lua, layout, registry>>

ContextStart(dir) ==
  /\ began = dir /\ legacy = dir /\ lua = Missing
  /\ layout = [findings |-> {}, git |-> "none"]
  /\ registry = Missing /\ cmd = Idle /\ kills = 0
ContextInit == \E dir \in LegacyDirs : ContextStart(dir)
ContextIdle == ContextStart(<<>>)

MigrateIfNeeded == PlanMigration \/ Translate \/ Stamp \/ DeleteLegacy \/ Prune

ContextNext ==
  \/ MigrateIfNeeded
  \/ Resolve
  \/ InitSteps
  \/ \E s \in Slugs : RepoAdd(s) \/ RepoRemove(s)
  \/ Killed

ContextSpec == ContextInit /\ [][ContextNext]_context_vars

-----------------------------------------------------------------------------
\* What the user of a directory has set: by an overlay, or by its base alone.
SetByUser(dir, k) ==
  {ReadFile(dir, Overlay[b])[k] : b \in {c \in DOMAIN Overlay : k \in DOMAIN ReadFile(dir, Overlay[c])}}
  \cup {ReadFile(dir, b)[k] : b \in {c \in DOMAIN Overlay :
          k \in DOMAIN ReadFile(dir, c) /\ k \notin DOMAIN ReadFile(dir, Overlay[c])}}

\* What the user set in the files of version 1 is what the program goes by, from
\* the first command on, wherever commands were killed: in config.lua, or else
\* still in all of those files.  A command that resolves gets it over the defaults.
ConfigurationKept ==
  /\ lua = Missing => legacy = began
  /\ \A k \in Translated :
       LET wanted == SetByUser(began, k)
       IN /\ lua # Missing /\ wanted # {} => k \in DOMAIN lua.set /\ lua.set[k] \in wanted
          /\ cmd.result # Missing =>
               cmd.result[k] \in IF wanted = {} THEN {Embedded[k]} ELSE wanted

\* Customisation is not destroyed, "init" included: each setting the user had is
\* in config.lua, or still in the files it was in.
CustomisationSurvives ==
  \A k \in Translated : SetByUser(began, k) # {} =>
    \/ lua # Missing /\ k \in DOMAIN lua.set /\ lua.set[k] \in SetByUser(began, k)
    \/ SetByUser(legacy, k) \cap SetByUser(began, k) # {}

\* Init fills in what is missing and nothing else: what was registered stays,
\* and a repository once made is kept.
InitKeepsWhatIsThere ==
  [][InitSteps => (registry # Missing => registry' = registry)
               /\ (lua # Missing => lua' = lua)
               /\ (layout.git = "committed" => layout'.git = "committed")]_context_vars

\* read_findings: the file must say its schema_version.
ReadFindings == layout.findings = {} \/ "schema_version" \in layout.findings
\* An initialised context has files its own verbs can read.
SeedsAreReadable == cmd.at = "idle" => ReadFindings
=============================================================================
