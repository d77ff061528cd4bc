------------------------------ MODULE Artifacts ------------------------------
(***************************************************************************)
(* The files that distribute the contracts, and what keeps them in step.   *)
(* Schemas are edited by hand.  The index is generated from them, the      *)
(* offline bundle from the index, and the coverage table from classes and  *)
(* tests.  Nothing regenerates them but the contributor; the workflows on  *)
(* main check them, and two of the three run only for some paths, so that  *)
(* a green result may be that of an earlier commit.                        *)
(*                                                                         *)
(* A tree is a record of what the checks read.  Contents are compared and  *)
(* nothing else: the hash of a schema is the schema.                       *)
(***************************************************************************)
EXTENDS Compatibility, FiniteSets

CONSTANTS
  Files,        \* places for a schema: records of a tier and a stem
  Contents,     \* what a schema file may hold: records of id, complete, body
  NoId,         \* no $id, or an empty one
  ExtendedIds,  \* the $ids with "extended/" in them
  NoFile,       \* nothing there
  Drafts,       \* Drafts[f]: what somebody may write to, or NoFile
  Versions,     \* values of the constants of version.py
  SOURCES,      \* files that state the version and are written by hand
  HandIndexes, HandBundles,   \* what somebody may make of a generated file
  Manifests, Pyprojects,      \* compatibility.yaml, weaver-stack's pyproject.toml
  Initial,      \* the tree at first
  MaxEdits      \* bound on edits by hand

VARIABLES
  main,    \* the tree on main
  work,    \* a contributor's tree
  latest,  \* the last run of each workflow on main: its tree and its result
  edits    \* edits so far

vars == <<main, work, latest, edits>>

Workflows == {"ci", "schema-bundle", "cross-language"}

-----------------------------------------------------------------------------
(* The generators.                                                         *)

Present(t) == {f \in Files : t.schemas[f] # NoFile}

\* generate_contracts_index.py.  It fails on a schema without $id.
schema_entry(t, f) ==
  [tier |-> f.tier, name |-> f.stem, path |-> f,
   id |-> t.schemas[f].id, sha256 |-> t.schemas[f]]
IndexBuilds(t) == \A f \in Present(t) : t.schemas[f].id # NoId
build_index(t) == [version |-> t.version, rows |-> {schema_entry(t, f) : f \in Present(t)}]

\* generate_schema_bundle.py.  It trusts the index for versions and names, and
\* verifies each schema against it; it fails on the first that does not match.
_load_verified_schema(t, row) ==
  /\ row.path \in Present(t)
  /\ row.sha256 = t.schemas[row.path]
  /\ row.id # NoId /\ t.schemas[row.path].id = row.id
BundleBuilds(t) ==
  /\ t.index # NoFile
  /\ \A row \in t.index.rows : _load_verified_schema(t, row)
  /\ \A r, s \in t.index.rows : r.tier = s.tier /\ r.name = s.name => r = s
build_bundle(t) ==
  [version |-> t.index.version,
   defs |-> {[tier |-> row.tier, name |-> row.name, schema |-> t.schemas[row.path]] :
             row \in t.index.rows}]

\* generate_coverage_table.py: one row for each dataclass.  A payload's name
\* does not tell the tier.
row_for(t, c) ==
  [type |-> c, schema |-> c \in Present(t), payload |-> c.stem \in t.payloads,
   roundtrip |-> c \in t.roundtrip, schema_test |-> c \in t.schema_test]
build_table(t) == {row_for(t, c) : c \in t.classes}

-----------------------------------------------------------------------------
(* The checks.                                                             *)

\* check_schema_fields.py; tests/test_extended_schema_alignment.py wants
\* extended $ids in their namespace.
SchemaFields(t) ==
  \A f \in Present(t) :
    /\ t.schemas[f].complete
    /\ f.tier = "extended" => t.schemas[f].id \in ExtendedIds

\* check_version_consistency.py.  The manifest may list further versions.
VersionsAgree(t) ==
  /\ \A x \in SOURCES : t.version \in t.stated[x]
  /\ t.index # NoFile /\ t.index.version = t.version
  /\ t.bundle # NoFile /\ t.bundle.version = t.version
  /\ t.version \in t.manifest.contract_versions

\* The three --check modes.
IndexFresh(t) == IndexBuilds(t) /\ t.index = build_index(t)
BundleFresh(t) == BundleBuilds(t) /\ t.bundle = build_bundle(t)
CoverageFresh(t) == t.coverage = build_table(t)

\* _schemas_by_name in tests/test_schema_bundle.py drops the tier.
\* (KeysDistinct keeps it.)
KeysDistinct(t) == \A d, e \in t.bundle.defs : d.tier = e.tier /\ d.name = e.name => d = e
StemsDistinct(t) == \A d, e \in t.bundle.defs : d.name = e.name => d = e

\* run.mjs gives every schema to ajv.addSchema, which wants new $ids.
IdsDistinct(t) ==
  \A f, g \in Present(t) : f # g => t.schemas[f].id # t.schemas[g].id \/ t.schemas[f].id = NoId

\* The corpus itself passes.
Passes(w, t) ==
  CASE w = "ci" ->
         /\ SchemaFields(t) /\ IndexFresh(t) /\ VersionsAgree(t) /\ CoverageFresh(t)
         /\ ValidManifest(t.manifest) /\ ValidPins(t.manifest, t.pyproject)
    [] w = "schema-bundle" -> IndexFresh(t) /\ BundleFresh(t) /\ StemsDistinct(t)
    [] OTHER -> IdsDistinct(t)

\* What a workflow watches.  (WatchesSources forgets the bundle's directory.)
WatchesSources(w, t) ==
  CASE w = "ci" -> <<t>>
    [] w = "schema-bundle" -> <<t.schemas, t.index>>
    [] OTHER -> <<t.schemas>>
Watched(w, t) ==
  CASE w = "ci" -> <<t>>
    [] w = "schema-bundle" -> <<t.schemas, t.bundle, t.index>>
    [] OTHER -> <<t.schemas>>

-----------------------------------------------------------------------------
(* Contributors, pushes and runs.                                          *)

Rows == [tier : {"core", "extended"}, name : {f.stem : f \in Files}, path : Files,
         id : {c.id : c \in Contents}, sha256 : Contents]
Indexes == {NoFile} \cup [version : Versions, rows : SUBSET Rows]
Definitions == [tier : {"core", "extended"}, name : {f.stem : f \in Files}, schema : Contents]
Bundles == {NoFile} \cup [version : Versions, defs : SUBSET Definitions]
Tables ==
  {NoFile} \cup SUBSET [type : Files, schema : BOOLEAN, payload : BOOLEAN,
                        roundtrip : BOOLEAN, schema_test : BOOLEAN]
Trees ==
  [schemas : [Files -> Contents \cup {NoFile}], version : Versions,
   stated : [SOURCES -> SUBSET Versions], index : Indexes, bundle : Bundles,
   classes : SUBSET Files, payloads : SUBSET {f.stem : f \in Files},
   roundtrip : SUBSET Files, schema_test : SUBSET Files, coverage : Tables,
   manifest : Manifests, pyproject : Pyprojects]

ASSUME FilesOK == /\ \A f, g \in Files : f.tier = g.tier /\ f.stem = g.stem => f = g
                  /\ \A f \in Files : f.tier \in {"core", "extended"}
                  /\ NoFile \notin Contents
ASSUME HandOK == /\ Drafts \in [Files -> SUBSET (Contents \cup {NoFile})]
                 /\ HandIndexes \subseteq Indexes
                 /\ HandBundles \subseteq Bundles
ASSUME InitialOK == Initial \in Trees /\ \A w \in Workflows : Passes(w, Initial)
ASSUME EditsOK == MaxEdits \in Nat

Init ==
  /\ main = Initial
  /\ work = Initial
  /\ latest = [w \in Workflows |-> [tree |-> Initial, result |-> "green"]]
  /\ edits = 0

\* The trees that are one edit away.  Whoever edits the pins also edits the
\* test that says that there are none today.
OneEdit(t) ==
  (UNION {{[t EXCEPT !.schemas[f] = s] : s \in Drafts[f]} : f \in Files})
    \cup {[t EXCEPT !.version = v] : v \in Versions}
    \cup {[t EXCEPT !.stated[x] = {v}] : x \in SOURCES, v \in Versions}
    \cup {[t EXCEPT !.index = i] : i \in HandIndexes}
    \cup {[t EXCEPT !.bundle = b] : b \in HandBundles}
    \cup {[t EXCEPT !.classes = @ \cup {f}] : f \in Files}
    \cup {[t EXCEPT !.manifest = m] : m \in Manifests}
    \cup {[t EXCEPT !.pyproject = p] : p \in Pyprojects}

Edit ==
  /\ edits < MaxEdits
  /\ work' \in OneEdit(work) \ {work}
  /\ edits' = edits + 1
  /\ UNCHANGED <<main, latest>>

\* Each generator writes its file, or fails and leaves it.  (GenerateRows
\* forgets to take over the version.)
GenerateRows ==
  /\ IndexBuilds(work) /\ work.index # NoFile
  /\ work' = [work EXCEPT !.index.rows = build_index(work).rows]
  /\ UNCHANGED <<main, latest, edits>>
GenerateIndex ==
  /\ IndexBuilds(work)
  /\ work' = [work EXCEPT !.index = build_index(work)]
  /\ UNCHANGED <<main, latest, edits>>

GenerateBundle ==
  /\ BundleBuilds(work)
  /\ work' = [work EXCEPT !.bundle = build_bundle(work)]
  /\ UNCHANGED <<main, latest, edits>>

GenerateCoverage ==
  /\ work' = [work EXCEPT !.coverage = build_table(work)]
  /\ UNCHANGED <<main, latest, edits>>

\* main takes whatever is pushed or merged; the workflows that watch what has
\* changed begin a run on it.  (Queue names a state that no run has.)
Queue(w, before, after) ==
  IF Watched(w, before) = Watched(w, after) THEN latest[w]
  ELSE [tree |-> after, result |-> "queued"]
Trigger(w, before, after) ==
  IF Watched(w, before) = Watched(w, after) THEN latest[w]
  ELSE [tree |-> after, result |-> "running"]
Push ==
  /\ main # work
  /\ main' = work
  /\ latest' = [w \in Workflows |-> Trigger(w, main, work)]
  /\ UNCHANGED <<work, edits>>

\* Two of the workflows can be started by hand.
Dispatch(w) ==
  /\ w # "ci" /\ latest[w].result # "running"
  /\ latest' = [latest EXCEPT ![w] = [tree |-> main, result |-> "running"]]
  /\ UNCHANGED <<main, work, edits>>

\* A run ends: its verdict is on the tree it was started for.  (FinishOnMain
\* looks at what main has become.)
FinishOnMain(w) ==
  /\ latest[w].result = "running"
  /\ latest' = [latest EXCEPT ![w].result = IF Passes(w, main) THEN "green" ELSE "red"]
  /\ UNCHANGED <<main, work, edits>>
Finish(w) ==
  /\ latest[w].result = "running"
  /\ latest' = [latest EXCEPT ![w].result =
                  IF Passes(w, latest[w].tree) THEN "green" ELSE "red"]
  /\ UNCHANGED <<main, work, edits>>

Next ==
  \/ Edit
  \/ GenerateIndex \/ GenerateBundle \/ GenerateCoverage
  \/ Push
  \/ \E w \in Workflows : Dispatch(w) \/ Finish(w)

Spec == Init /\ [][Next]_vars

\* The checks tell the contributor what to run; runs end.
FairSpec ==
  /\ Spec
  /\ WF_vars(GenerateIndex) /\ WF_vars(GenerateBundle) /\ WF_vars(GenerateCoverage)
  /\ WF_vars(Push)
  /\ \A w \in Workflows : WF_vars(Finish(w))

-----------------------------------------------------------------------------
(* Properties.                                                             *)

\* Every variable keeps its type.
TypeOK ==
  /\ main \in Trees /\ work \in Trees
  /\ latest \in [Workflows -> [tree : Trees, result : {"running", "green", "red"}]]
  /\ edits \in 0 .. MaxEdits

AllGreen == \A w \in Workflows : latest[w].result = "green"

\* Whoever resolves contracts offline, from the bundle, gets what those get who
\* resolve them online: the same schemas under the same names and the version of
\* the package, whenever the last run of each workflow on main was green, even
\* if the bundle was last looked at some commits ago.
Online(t) ==
  [version |-> t.version,
   defs |-> {[tier |-> f.tier, name |-> f.stem, schema |-> t.schemas[f]] : f \in Present(t)}]
OfflineIsOnline == AllGreen => main.bundle = Online(main)

\* Under the same condition a name or an $id finds one schema, whatever its
\* tier: load_schemas maps stems, the registry and the validator cache of
\* run.py map $ids, and none of them would notice a second one.
IdentifiersResolve ==
  AllGreen =>
    \A f, g \in Present(main) :
      f # g => f.stem # g.stem /\ main.schemas[f].id # main.schemas[g].id

\* Under the same condition an installer of weaver-stack[runtime] gets no
\* sibling, as the validator spells it, that is not vouched for in the manifest.
PinsAreBacked ==
  AllGreen =>
    \A r \in main.pyproject.runtime :
      r.name \in known_siblings(main.manifest) => Vouched(main.manifest, r)

\* Whoever runs the generators the checks ask for, and pushes, brings main to a
\* tree that passes in the end, if what is written by hand is sound in the end:
\* the order in which the generators feed each other leaves no stale file.
Sound(t) ==
  /\ SchemaFields(t) /\ IndexBuilds(t) /\ IdsDistinct(t)
  /\ \A f, g \in Present(t) : f.stem = g.stem => f = g
  /\ t.version \in t.manifest.contract_versions
  /\ \A x \in SOURCES : t.version \in t.stated[x]
  /\ ValidManifest(t.manifest) /\ ValidPins(t.manifest, t.pyproject)
Converged == main = work /\ \A w \in Workflows : Passes(w, main)
RegenerationConverges == <>[]Sound(work) => <>[]Converged

\* The inductive invariant: what a workflow watches is on main what it was in
\* the tree of its last run, and a green run is one whose tree passes.
LastRunIsCurrent ==
  \A w \in Workflows :
    /\ Watched(w, latest[w].tree) = Watched(w, main)
    /\ latest[w].result = "green" => Passes(w, latest[w].tree)
ArtifactsInv == TypeOK /\ LastRunIsCurrent
=============================================================================
