--------------------------- MODULE ArtifactsProofs ---------------------------
(***************************************************************************)
(* Proofs about Artifacts, for any places, contents, versions, manifests   *)
(* and pins, and any number of edits.  A green result says something of    *)
(* the tree it was given for; ArtifactsInv carries it over to what main    *)
(* has become since, as far as the workflow watches.                       *)
(***************************************************************************)
EXTENDS Artifacts, TLAPS

-----------------------------------------------------------------------------
(* The generators.                                                         *)

LEMMA IndexType ==
  ASSUME NEW t \in Trees
  PROVE  build_index(t) \in Indexes
<1> DEFINE rows == {schema_entry(t, f) : f \in Present(t)}
<1>1. ASSUME NEW f \in Present(t)
      PROVE  schema_entry(t, f) \in Rows
  <2>1. f \in Files /\ t.schemas[f] \in Contents
    BY <1>1 DEF Present, Trees
  <2>2. t.schemas[f].id \in {c.id : c \in Contents} /\ f.stem \in {g.stem : g \in Files}
    BY <2>1
  <2>3. f.tier \in {"core", "extended"}
    BY <2>1, FilesOK
  <2> QED
    BY <2>1, <2>2, <2>3 DEF schema_entry, Rows
<1>2. rows \subseteq Rows
  BY <1>1
<1>3. t.version \in Versions
  BY DEF Trees
<1> QED
  BY <1>2, <1>3 DEF build_index, Indexes

LEMMA BundleType ==
  ASSUME NEW t \in Trees, BundleBuilds(t)
  PROVE  build_bundle(t) \in Bundles
<1>1. t.index.version \in Versions /\ t.index.rows \subseteq Rows
  BY DEF BundleBuilds, Trees, Indexes
<1>2. ASSUME NEW row \in t.index.rows
      PROVE  [tier |-> row.tier, name |-> row.name, schema |-> t.schemas[row.path]] \in Definitions
  <2>1. row \in Rows /\ row.path \in Present(t)
    BY <1>1, <1>2 DEF BundleBuilds, _load_verified_schema
  <2>2. t.schemas[row.path] \in Contents
    BY <2>1 DEF Present, Trees
  <2> QED
    BY <2>1, <2>2 DEF Rows, Definitions
<1>3. {[tier |-> row.tier, name |-> row.name, schema |-> t.schemas[row.path]] :
         row \in t.index.rows} \subseteq Definitions
  BY <1>2
<1> QED
  BY <1>1, <1>3 DEF build_bundle, Bundles

LEMMA TableType ==
  ASSUME NEW t \in Trees
  PROVE  build_table(t) \in Tables
<1>1. t.classes \subseteq Files
  BY DEF Trees
<1>2. \A c \in Files : row_for(t, c) \in [type : Files, schema : BOOLEAN, payload : BOOLEAN,
                                          roundtrip : BOOLEAN, schema_test : BOOLEAN]
  BY DEF row_for
<1> QED
  BY <1>1, <1>2 DEF build_table, Tables

\* The bundle that is built from a fresh index is what is online.
LEMMA BuiltIsOnline ==
  ASSUME NEW t, IndexFresh(t), BundleFresh(t)
  PROVE  t.bundle = Online(t)
<1> DEFINE definition(row) ==
             [tier |-> row.tier, name |-> row.name, schema |-> t.schemas[row.path]]
<1>1. t.index = [version |-> t.version, rows |-> {schema_entry(t, f) : f \in Present(t)}]
  BY DEF IndexFresh, build_index
<1>2. t.bundle = [version |-> t.index.version, defs |-> {definition(row) : row \in t.index.rows}]
  BY DEF BundleFresh, build_bundle
<1>3. \A f : definition(schema_entry(t, f)) =
               [tier |-> f.tier, name |-> f.stem, schema |-> t.schemas[f]]
  BY DEF schema_entry
<1>4. {definition(row) : row \in t.index.rows} =
        {[tier |-> f.tier, name |-> f.stem, schema |-> t.schemas[f]] : f \in Present(t)}
  <2>1. t.index.rows = {schema_entry(t, f) : f \in Present(t)}
    BY <1>1
  <2> HIDE DEF definition
  <2>2. {definition(row) : row \in t.index.rows} = {definition(schema_entry(t, f)) : f \in Present(t)}
    BY <2>1
  <2> QED
    BY <1>3, <2>2
<1>5. t.index.version = t.version
  BY <1>1
<1> QED
  BY <1>2, <1>4, <1>5 DEF Online

-----------------------------------------------------------------------------
(* Types.                                                                  *)

LEMMA EditType ==
  ASSUME NEW t \in Trees, NEW u \in OneEdit(t)
  PROVE  u \in Trees
<1>1. ASSUME NEW f \in Files, NEW s \in Drafts[f], u = [t EXCEPT !.schemas[f] = s]
      PROVE  u \in Trees
  <2>1. s \in Contents \cup {NoFile}
    BY <1>1, HandOK
  <2>2. [t.schemas EXCEPT ![f] = s] \in [Files -> Contents \cup {NoFile}]
    BY <2>1 DEF Trees
  <2> QED
    BY <1>1, <2>2 DEF Trees
<1>2. ASSUME NEW x \in SOURCES, NEW v \in Versions, u = [t EXCEPT !.stated[x] = {v}]
      PROVE  u \in Trees
  <2>1. [t.stated EXCEPT ![x] = {v}] \in [SOURCES -> SUBSET Versions]
    BY DEF Trees
  <2> QED
    BY <1>2, <2>1 DEF Trees
<1>3. ASSUME NEW v \in Versions, u = [t EXCEPT !.version = v]
      PROVE  u \in Trees
  BY <1>3 DEF Trees
<1>4. ASSUME NEW i \in HandIndexes, u = [t EXCEPT !.index = i]
      PROVE  u \in Trees
  <2>1. i \in Indexes
    BY HandOK
  <2> QED
    BY <1>4, <2>1 DEF Trees
<1>5. ASSUME NEW b \in HandBundles, u = [t EXCEPT !.bundle = b]
      PROVE  u \in Trees
  <2>1. b \in Bundles
    BY HandOK
  <2> QED
    BY <1>5, <2>1 DEF Trees
<1>6. ASSUME NEW f \in Files, u = [t EXCEPT !.classes = @ \cup {f}]
      PROVE  u \in Trees
  <2>1. t.classes \cup {f} \in SUBSET Files
    BY DEF Trees
  <2> QED
    BY <1>6, <2>1 DEF Trees
<1>7. ASSUME NEW m \in Manifests, u = [t EXCEPT !.manifest = m]
      PROVE  u \in Trees
  BY <1>7 DEF Trees
<1>8. ASSUME NEW p \in Pyprojects, u = [t EXCEPT !.pyproject = p]
      PROVE  u \in Trees
  BY <1>8 DEF Trees
<1> QED
  BY <1>1, <1>2, <1>3, <1>4, <1>5, <1>6, <1>7, <1>8 DEF OneEdit

\* What a run may be, in a function of runs.
Runs == [tree : Trees, result : {"running", "green", "red"}]

LEMMA TypeInductive ==
  ASSUME TypeOK, [Next]_vars
  PROVE  TypeOK'
<1> USE DEF TypeOK
<1>1. CASE Edit
  BY <1>1, EditType, EditsOK DEF Edit
<1>2. CASE GenerateIndex
  <2>1. build_index(work) \in Indexes
    BY IndexType
  <2>2. work' \in Trees
    BY <1>2, <2>1 DEF GenerateIndex, Trees
  <2> QED
    BY <1>2, <2>2 DEF GenerateIndex
<1>3. CASE GenerateBundle
  <2>1. build_bundle(work) \in Bundles
    BY <1>3, BundleType DEF GenerateBundle
  <2>2. work' \in Trees
    BY <1>3, <2>1 DEF GenerateBundle, Trees
  <2> QED
    BY <1>3, <2>2 DEF GenerateBundle
<1>4. CASE GenerateCoverage
  <2>1. build_table(work) \in Tables
    BY TableType
  <2>2. work' \in Trees
    BY <1>4, <2>1 DEF GenerateCoverage, Trees
  <2> QED
    BY <1>4, <2>2 DEF GenerateCoverage
<1>5. CASE Push
  <2>1. \A w \in Workflows : Trigger(w, main, work) \in Runs
    BY DEF Trigger, Runs
  <2> QED
    BY <1>5, <2>1 DEF Push, Runs
<1>6. ASSUME NEW w \in Workflows, Dispatch(w)
      PROVE  TypeOK'
  <2>1. [tree |-> main, result |-> "running"] \in Runs
    BY DEF Runs
  <2> QED
    BY <1>6, <2>1 DEF Dispatch, Runs
<1>7. ASSUME NEW w \in Workflows, Finish(w)
      PROVE  TypeOK'
  BY <1>7 DEF Finish
<1>8. CASE UNCHANGED vars
  BY <1>8 DEF vars
<1> QED
  BY <1>1, <1>2, <1>3, <1>4, <1>5, <1>6, <1>7, <1>8 DEF Next

-----------------------------------------------------------------------------
(* The inductive invariant.                                                *)

LEMMA InitInv == Init => ArtifactsInv
<1> SUFFICES ASSUME Init PROVE ArtifactsInv
  OBVIOUS
<1>1. TypeOK
  BY InitialOK, EditsOK DEF Init, TypeOK
<1>2. LastRunIsCurrent
  BY InitialOK DEF Init, LastRunIsCurrent
<1> QED
  BY <1>1, <1>2 DEF ArtifactsInv

LEMMA StepInv ==
  ASSUME ArtifactsInv, [Next]_vars
  PROVE  ArtifactsInv'
<1>1. TypeOK /\ LastRunIsCurrent
  BY DEF ArtifactsInv
<1>2. TypeOK'
  BY <1>1, TypeInductive
<1>3. LastRunIsCurrent'
  <2>1. CASE UNCHANGED <<main, latest>>
    BY <1>1, <2>1 DEF LastRunIsCurrent
  <2>2. CASE Push
    <3>1. main' = work /\ latest' = [w \in Workflows |-> Trigger(w, main, work)]
      BY <2>2 DEF Push
    <3> SUFFICES ASSUME NEW w \in Workflows
                 PROVE  /\ Watched(w, latest'[w].tree) = Watched(w, main')
                        /\ latest'[w].result = "green" => Passes(w, latest'[w].tree)
      BY DEF LastRunIsCurrent
    <3>2. latest'[w] = Trigger(w, main, work)
      BY <3>1
    <3>3. CASE Watched(w, main) = Watched(w, work)
      BY <1>1, <3>1, <3>2, <3>3 DEF Trigger, LastRunIsCurrent
    <3>4. CASE Watched(w, main) # Watched(w, work)
      BY <3>1, <3>2, <3>4 DEF Trigger
    <3> QED
      BY <3>3, <3>4
  <2>3. ASSUME NEW w \in Workflows, Dispatch(w)
        PROVE  LastRunIsCurrent'
    <3>1. main' = main /\ latest' = [latest EXCEPT ![w] = [tree |-> main, result |-> "running"]]
      BY <2>3 DEF Dispatch
    <3> SUFFICES ASSUME NEW x \in Workflows
                 PROVE  /\ Watched(x, latest'[x].tree) = Watched(x, main')
                        /\ latest'[x].result = "green" => Passes(x, latest'[x].tree)
      BY DEF LastRunIsCurrent
    <3>2. CASE x = w
      BY <1>1, <3>1, <3>2 DEF TypeOK
    <3>3. CASE x # w
      BY <1>1, <3>1, <3>3 DEF TypeOK, LastRunIsCurrent
    <3> QED
      BY <3>2, <3>3
  <2>4. ASSUME NEW w \in Workflows, Finish(w)
        PROVE  LastRunIsCurrent'
    <3>1. /\ main' = main
          /\ latest' = [latest EXCEPT ![w].result =
                          IF Passes(w, latest[w].tree) THEN "green" ELSE "red"]
      BY <2>4 DEF Finish
    <3> SUFFICES ASSUME NEW x \in Workflows
                 PROVE  /\ Watched(x, latest'[x].tree) = Watched(x, main')
                        /\ latest'[x].result = "green" => Passes(x, latest'[x].tree)
      BY DEF LastRunIsCurrent
    <3>2. latest'[x].tree = latest[x].tree
      BY <1>1, <3>1 DEF TypeOK
    <3>3. latest'[x].result = "green" => latest[x].result = "green" \/ Passes(x, latest[x].tree)
      BY <1>1, <3>1 DEF TypeOK
    <3> QED
      BY <1>1, <3>1, <3>2, <3>3 DEF LastRunIsCurrent
  <2> QED
    BY <2>1, <2>2, <2>3, <2>4
    DEF Next, vars, Edit, GenerateIndex, GenerateBundle, GenerateCoverage
<1> QED
  BY <1>2, <1>3 DEF ArtifactsInv

\* ArtifactsInv is inductive: however pushes, runs and dispatches interleave, a
\* green result is about what main still is, where the workflow looks.
THEOREM Invariance == Spec => []ArtifactsInv
<1>1. Init => ArtifactsInv
  BY InitInv
<1>2. ArtifactsInv /\ [Next]_vars => ArtifactsInv'
  BY StepInv
<1> QED
  BY <1>1, <1>2, PTL DEF Spec

\* Every variable keeps its type.
THEOREM TypeCorrect == Spec => []TypeOK
<1>1. ArtifactsInv => TypeOK
  BY DEF ArtifactsInv
<1> QED
  BY <1>1, Invariance, PTL

-----------------------------------------------------------------------------
(* What green results mean for main.                                       *)

LEMMA GreenPasses ==
  ASSUME ArtifactsInv, AllGreen
  PROVE  /\ Passes("ci", main)
         /\ IndexFresh(main) /\ BundleFresh(main) /\ StemsDistinct(main)
         /\ IdsDistinct(main)
<1>1. \A w \in Workflows : Passes(w, latest[w].tree) /\ Watched(w, latest[w].tree) = Watched(w, main)
  BY DEF ArtifactsInv, LastRunIsCurrent, AllGreen
<1>2. Passes("ci", main)
  <2>1. <<latest["ci"].tree>> = <<main>>
    BY <1>1 DEF Watched, Workflows
  <2>2. latest["ci"].tree = main
    BY <2>1
  <2> QED
    BY <1>1, <2>2 DEF Workflows
<1>3. IndexFresh(main)
  BY <1>2 DEF Passes
<1>4. BundleFresh(main) /\ StemsDistinct(main)
  <2> DEFINE u == latest["schema-bundle"].tree
  <2>1. BundleFresh(u) /\ StemsDistinct(u)
    BY <1>1 DEF Passes, Workflows
  <2>2. <<u.schemas, u.bundle, u.index>> = <<main.schemas, main.bundle, main.index>>
    BY <1>1 DEF Watched, Workflows
  <2>3. u.schemas = main.schemas /\ u.bundle = main.bundle /\ u.index = main.index
    BY <2>2
  <2> HIDE DEF u
  <2>4. build_bundle(u) = build_bundle(main)
    BY <2>3 DEF build_bundle
  <2>5. BundleBuilds(u) => BundleBuilds(main)
    BY <2>3 DEF BundleBuilds, _load_verified_schema, Present
  <2> QED
    BY <2>1, <2>3, <2>4, <2>5 DEF BundleFresh, StemsDistinct
<1>5. IdsDistinct(main)
  <2> DEFINE u == latest["cross-language"].tree
  <2>1. IdsDistinct(u)
    BY <1>1 DEF Passes, Workflows
  <2>2. <<u.schemas>> = <<main.schemas>>
    BY <1>1 DEF Watched, Workflows
  <2>3. u.schemas = main.schemas
    BY <2>2
  <2> HIDE DEF u
  <2> QED
    BY <2>1, <2>3 DEF IdsDistinct, Present
<1> QED
  BY <1>2, <1>3, <1>4, <1>5

\* The bundle on a green main is the schemas on main, and its version theirs.
THEOREM BundleIsSchemas == Spec => []OfflineIsOnline
<1>1. ArtifactsInv => OfflineIsOnline
  BY GreenPasses, BuiltIsOnline DEF OfflineIsOnline
<1> QED
  BY <1>1, Invariance, PTL

\* On a green main no two schemas share a stem or an $id, in whatever tiers.
THEOREM IdentifiersUnique == Spec => []IdentifiersResolve
<1>1. ASSUME ArtifactsInv, AllGreen, NEW f \in Present(main), NEW g \in Present(main), f # g
      PROVE  f.stem # g.stem /\ main.schemas[f].id # main.schemas[g].id
  <2> DEFINE definition(x) == [tier |-> x.tier, name |-> x.stem, schema |-> main.schemas[x]]
  <2>1. IndexFresh(main) /\ BundleFresh(main) /\ StemsDistinct(main) /\ IdsDistinct(main)
    BY <1>1, GreenPasses
  <2>2. main.bundle.defs = {definition(x) : x \in Present(main)}
    <3>1. main.bundle = Online(main)
      BY <2>1, BuiltIsOnline
    <3> QED
      BY <3>1 DEF Online
  <2>3. f.stem # g.stem
    <3>1. SUFFICES ASSUME f.stem = g.stem PROVE FALSE
      OBVIOUS
    <3>2. definition(f) \in main.bundle.defs /\ definition(g) \in main.bundle.defs
      BY <2>2
    <3>3. definition(f).name = definition(g).name
      BY <3>1
    <3>4. definition(f) = definition(g)
      BY <2>1, <3>2, <3>3 DEF StemsDistinct
    <3>5. f.tier = g.tier
      BY <3>4
    <3> QED
      BY <1>1, <3>1, <3>5, FilesOK DEF Present
  <2>4. main.schemas[f].id # NoId
    BY <2>1 DEF IndexFresh, IndexBuilds
  <2>5. main.schemas[f].id # main.schemas[g].id
    BY <1>1, <2>1, <2>4 DEF IdsDistinct
  <2> QED
    BY <2>3, <2>5
<1>2. ArtifactsInv => IdentifiersResolve
  BY <1>1 DEF IdentifiersResolve
<1> QED
  BY <1>2, Invariance, PTL

\* The two validators of compatibility.yaml and of the pins, together: each
\* pinned sibling rests on a declared, tested entry of the manifest.
LEMMA ValidatorsVouch ==
  ASSUME NEW m, NEW p, ValidManifest(m), ValidPins(m, p),
         NEW r \in p.runtime, r.name \in known_siblings(m)
  PROVE  Vouched(m, r)
<1>1. PICK e \in expected_runtime_pins(m) : DIST_NAME[e.name] = r.name
  BY DEF ValidPins, PinsBackedOnly
<1>2. PICK i \in DOMAIN m.repositories : /\ e = m.repositories[i]
                                         /\ e.status \in TEST_BACKED /\ e.tested_version # Null
  BY <1>1 DEF expected_runtime_pins, TestBacked
<1>3. ValidEntry(e, m.contract_versions)
  BY <1>2 DEF ValidManifest
<1>4. Backed(e) /\ e.supported_spec_versions \subseteq m.contract_versions
  BY <1>2, <1>3 DEF ValidEntry, TEST_BACKED
<1>5. ASSUME Plain(r) PROVE Admits(r, e.tested_version)
  <2>1. _admits_version(r, e.tested_version)
    BY <1>1 DEF ValidPins, PinsEachBacked
  <2>2. PICK c \in r.clauses : c.op \in {"==", ">="} /\ c.version \in Continues[e.tested_version]
    BY <2>1 DEF _admits_version
  <2>3. PICK d \in r.clauses : r.clauses = {d} /\ d.version \in Semver
    BY <1>5 DEF Plain
  <2>4. e.tested_version \in Semver
    BY <1>2, <1>3 DEF ValidEntry
  <2>5. c = d /\ c.version = e.tested_version
    BY <2>2, <2>3, <2>4, CompatibilityOK
  <2>6. Satisfies(e.tested_version, c)
    BY <2>2, <2>5, RankOK, <2>4 DEF Satisfies
  <2> QED
    BY <2>3, <2>5, <2>6 DEF Admits
<1> QED
  BY <1>1, <1>2, <1>4, <1>5 DEF Vouched

\* On a green main every pin of a sibling is vouched for.
THEOREM PinsVouched == Spec => []PinsAreBacked
<1>1. ASSUME ArtifactsInv, AllGreen
      PROVE  ValidManifest(main.manifest) /\ ValidPins(main.manifest, main.pyproject)
  BY <1>1, GreenPasses DEF Passes
<1>2. ArtifactsInv => PinsAreBacked
  BY <1>1, ValidatorsVouch DEF PinsAreBacked
<1> QED
  BY <1>2, Invariance, PTL
=============================================================================
