# weaver-spec: TLA+ models, model checking and proofs

This directory models the parts of the repository that decide something:
which build becomes a release, what a TraceBundle is worth, what the public
scoreboard says of it, what a green conformance run means, what keeps the
distributed files in step, and what becomes of a contract object on its way from
one program to another. The models are checked with TLC on small instances, and
the safety properties that matter most are proved with TLAPS for every value of
the constants. All line numbers refer to files under `src/`.

## 1. The system

weaver-spec is a specification repository. It ships contracts (JSON schemas and
Python dataclasses) and the tooling that keeps them honest. There is no server
and no shared-memory concurrency. What runs concurrently are CI jobs, the people
who move tags and branches, a package index that never forgets a file, and
web hosts that change what they serve.

| Part | State it keeps | Operations | Interacts with |
| --- | --- | --- | --- |
| **Release publication** (`.github/workflows/publish.yml`, `scripts/validate_release_tag.py`) | job status and outputs of each run, git references, files in the index | release event, dispatch, validate, build, re-check, upload, re-run failed jobs | git references (read three times by a run), PyPI (written once per file) |
| **Scoreboard** (`conformance/scoreboard.py`, `scoreboard.yml`, `siblings.yaml`) | rows, `docs/scoreboard.md`, `docs/badges/*.json`, the uploaded artifact | start on schedule, fetch, check, render, write, upload | sibling hosts (https), `conformance/run.py` |
| **Bundle verification** (`run.py` 197-353, 525-568) | none (a function of bundle, keyring, schemas) | schema, JCS, envelope, key, signature, I-01, I-02 | scoreboard, `--bundle` mode |
| **Corpus runner** (`run.py` 360-492, 717-786) | failures | positive and negative corpus, invariants, bundles | corpus.yaml, invariants.yaml |
| **Validator cache** (`run.py` 97-119) | validators by `$id` for the life of the process | look up, compile | every schema check |
| **Result, badge and freshness** (`run.py` 571-714) | two JSON files, written one after the other | emit, age and MAJOR of a published result | self-certified results |
| **JavaScript reference** (`run.mjs`) and **agreement** (`cross-language-conformance.yml`) | failures | the same corpus, signatures, invariants | must agree with the Python reference |
| **Distribution artifacts** (`generate_contracts_index.py`, `generate_schema_bundle.py`, `check_*`, `tests/test_schema_bundle.py`) | index, bundle, version strings in several files | generate, `--check` | schemas to index to bundle; consumers |
| **Compatibility** (`validate_compatibility.py`, `validate_meta_package.py`) | none | validate a manifest, validate pins | ci.yml; publish.yml runs only the self-test |
| **Contract dataclasses** (`core.py`, `extended.py`, `version.py`) | mutable objects validated at construction | construct, mutate, `is_compatible` | schemas (alignment tests) |
| **JSON Schemas** (`contracts/json`) | none | accept a payload | validators of both languages |
| **Reference implementation** (`examples/reference_impl`) | one chain of objects, its wire form and signature | construct, serialise, sign, verify, validate | dataclasses, schemas |
| Samples, docs, other workflows | data, prose, linear scripts | | |

Which behaviours are hard, and what makes each part correct:

* **Publication**: two runs for one tag race, because the workflow has no
  concurrency group. A tag can move between any two jobs, or a branch of the same
  name can appear. An upload can stop half way or lose its reply, and retries come
  in two kinds. Correct means that all files of a release are one build, of a
  commit that its tag has pointed at and that passes the gate, and that a begun
  release can be completed.
* **Scoreboard**: siblings change while the job walks over them, hosts fail in
  ways the code catches and in ways it does not, and a job can end between any two
  writes. Correct means that a published row is a true verdict on something the
  sibling served during that job, that badges and table agree, and that a sibling
  which keeps conforming is shown as passing in the end.
* **Verification**: six checks in an order, one of which may be skipped. Correct
  means that "pass" and "verified" mean what they say, whatever fails first.
* **Corpus runner and JavaScript reference**: two programs must give one verdict,
  and each leaves out something that the other checks.
* **Validator cache**: it may serve a validator of an earlier schema or registry.
* **Result and badge**: they are written in place, in a process that may be
  killed, by a program that writes nothing when it raises. Correct means that
  what can be read later stems from a call that really passed, recently.
* **Distribution artifacts**: the bundle is derived from the index, which is
  derived from the schemas. Nothing regenerates them; three workflows check them,
  two of which run for some paths only. Correct means that green results, some of
  them of earlier commits, together vouch for the tree that is on main now.
* **Compatibility**: a validator reads pins as text, an installer as ranges.
* **Dataclasses and schemas**: each type is defined twice; objects are mutable
  and checked once; the wire form drops what is empty. Correct means that the two
  definitions differ in named places only, and that what is sent arrives.

`PROJECT.json` lists each hazard at its line with the properties that cover it.

## 2. The modules

| Module | Models | Extends or instantiates |
| --- | --- | --- |
| `ReleaseIdentity` | abstract: a release is bound once, to one build | |
| `Publish` | the publish workflow, its runs, references and index | instantiates `ReleaseIdentity` |
| `PublishProofs` | proofs about `Publish` | extends `Publish` |
| `MCPublish` | instances for TLC | extends `Publish` |
| `TraceBundle` | bundle verification in `run.py`, as pure operators | |
| `ScoreboardReport` | abstract: a report shows true verdicts on what was served since it was begun | |
| `Scoreboard` | the scoreboard job, its siblings and its artifact | extends `TraceBundle`, instantiates `ScoreboardReport` |
| `ScoreboardProofs` | proofs about `TraceBundle` and `Scoreboard` | extends `Scoreboard` |
| `MCScoreboard` | instances for TLC | extends `Scoreboard` |
| `Corpus` | `run()` of `run.py` and of `run.mjs`, as operators on a tree | extends `TraceBundle` |
| `Conformance` | a process that calls `main()`: cache, result, badge, freshness | extends `Corpus` |
| `ConformanceProofs` | proofs about `Corpus` and `Conformance` | extends `Conformance` |
| `MCConformance` | instance for TLC | extends `Conformance` |
| `Compatibility` | the manifest's and the pins' validators, as predicates | |
| `Artifacts` | index, bundle, coverage table, their generators and workflows | extends `Compatibility` |
| `ArtifactsProofs` | proofs about `Artifacts` and `Compatibility` | extends `Artifacts` |
| `MCArtifacts` | instance for TLC | extends `Artifacts` |
| `Contracts`, `Schemas` | the 33 types as classes and as schemas | `Schemas` extends `Contracts` |
| `Exchange` | construction, wire form, validation, reconstruction | extends `Schemas` |
| `ExchangeProofs` | proofs about the classes, the schemas and `Exchange` | extends `Exchange` |
| `Handover` | one object from one program to another | extends `Exchange` |
| `HandoverProofs` | proofs about `Handover` | extends `Handover`, `ExchangeProofs` |
| `ReferenceFlow` | `reference_impl.py` | extends `Exchange` |
| `ReferenceFlowProofs` | proofs about `ReferenceFlow` | extends `ReferenceFlow`, `ExchangeProofs` |
| `MCReferenceFlow` | both, side by side, for TLC | extends `ReferenceFlow`, `Handover` |

### Publish

One action is one job, up to the point where it touches something that other
runs can see. A job works on the references it fetched at its checkout, so what
follows the fetch is local and belongs to the same step. The publish job is
split at its uploads, one file at a time.

| Code | Model |
| --- | --- |
| `on:` and `env.RELEASE_TAG` (3-16) | `Request` |
| `validate-request` (19-96) | `Validate`, with `Checkout` for what HEAD is |
| `classify_tag`, `validate_release` | the constants `Prefix`, `Names`; `ValidRelease` |
| `build-contracts`, `build-meta` (98-147, 193-238) | `Build`, which differ in `Gate` only |
| `publish-contracts`, `publish-meta` (149-191, 240-282) | `Recheck`, then `Upload(r, "wheel")`, `Upload(r, "sdist")` |
| needs, failed jobs | `at[r]` and `failed[r]` |
| people pushing tags and branches | `PushTag`, `DeleteTag`, `PushBranch` |
| runner lost, reply lost, re-run | `JobDies`, `ReplyLost`, `RerunFailed` |

The external behaviour the model relies on is small and named in the comments:

* `actions/checkout` resolves an unqualified ref as a branch first; `git rev-list`
  resolves it as a tag first.
* The index takes a file once. The identical file may be sent again, a different
  one is refused.
* Two builds of one commit are different files, because setuptools archives carry
  times.
* twine sends the wheel first and stops at the first refusal.
* "Re-run failed jobs" keeps the outputs and artifacts of the jobs that succeeded.
  "Re-run all jobs" is a new run.

### TraceBundle and Scoreboard

A bundle is reduced to what the checks tell apart: whether it satisfies its
schema, whether JCS can serialise it, the key sets of its frames, the decision
ids on both sides of I-02, and its signature. A signature names its algorithm,
kid and canonicalization, and carries what really signed what. So a bundle edited
after signing is one whose signature has another content.
`verify_external_bundle` and `check_trace_bundle` keep the order of checks and the
early returns of the code.

| Code | Model |
| --- | --- |
| `fetch_json` (84-109) | `Fetched`, and `Raises` for the exceptions it lets through |
| `sibling_row`, `_signature_status` (121-147) | `sibling_row`, `VerifiedRow`, `_signature_status` |
| `build` (190-198), `self_row` | `SelfRow`, then one `SiblingRow` per sibling |
| `write_outputs` (201-219) | `WriteMarkdown`, then one `WriteBadge` per repository |
| scoreboard.yml 10-44 | `StartJob` (fresh checkout), `Upload` (only if the script succeeded) |
| sibling hosts, runner | `Serve`, `Crash` |

`_signature_status` finds the status by looking for words in a note, and the
note on an unknown kid quotes the kid. The model keeps that: the constants
`KidsSayingVerified` and `KidsSayingUnsigned` are the kids with a note's words in
them, and `PlainKids` says that no response uses one. `Uncaught` are the faults
for which `fetch_json` has no handler: a connection that breaks off while the body is
read, bytes that do not decode, and JSON too deep or with a number too long for
`json.loads`.

`Verdict` is the reference definition, which says what a row ought to say and
nothing of an order of checks. Counts of checks, the wording of rows and
`--strict` (which the workflow does not pass) are left out. Jobs run one at a
time in the model: each has its own workspace and artifact, and parallel ones
share nothing. The registry does not change.

### Corpus and Conformance

A tree is what the runners read: schemas, corpus, manifest and version. A schema is
its `$id`, its required keys, the errors that an additive change makes it accept, and
its references. A payload is the keys and the errors it has, those that only ajv
finds (`strict`), whether `JSON.parse` reads it (`json`), and a bundle as in
`TraceBundle`. `Failures` and `Raises` are `run()` of `run.py`, given the validators
it uses; `JavaScriptGreen` is `run()` of `run.mjs`.

| Code | Model |
| --- | --- |
| `load_schemas`, `_validator_for`, `_VALIDATOR_CACHE` (75-119) | `Registry`, `_validator_for`, the variable `cache` |
| `schema_error_details`, `negative_schema_reason_met` (122-194) | the operators of these names |
| `run` (360-492) | `Failures`, `Raises`, and `Run`, which keeps the cache |
| `load_external_bundle`, `--bundle` (525-596, 747-753) | `External`, `RunBundle` |
| `build_result`, badge, `_write_json` (571-714) | `EmitResult`, `EmitBadge`; `Kill` within or between them |
| `is_result_fresh` (599-646) | `Stale`, `is_result_fresh` |
| an exception, the end of a process | `Dies`, `Quit`: the cache is gone, the files stay |
| people | `Edit`, `Day` |
| `run.mjs`, and the agreement job | `Throws`, `Accepts`, `Rejects`; `Agreement` |

Worth knowing when reading it:

* The cache is keyed by `$id` and holds the registry of its first use. The comment
  at run.py:103-106 takes an `$id` to have one content for ever, while
  docs/SCHEMA_HOSTING.md:70 lets an additive change reuse it. So
  `CacheTransparent` has the premise `Steady`, which excludes exactly that change:
  TLC finds a difference without it. One process per tree, as CI has it, is steady.
  What the property says is that the registry of the first use, and calls on other
  trees in between, do no harm.
* If two schemas have one `$id`, Python uses the validator of whichever is used first
  (`FirstUses`, because the order of entries is not modelled), and ajv throws.
* `ReferencesAgree` says for each direction what accounts for a difference. JavaScript
  refuses, and Python passes, only trees with something in `JavaScriptLooks`: a payload
  with a date-time that is none, with a line feed where a pattern ends (`$` of
  Python's `re` lets it pass) or with NaN, which is no JSON; an omitted
  canonicalization, which Python takes for JCS; two schemas with one `$id` or a
  `$ref` to nowhere; a signature, if Python has no `cryptography`. Python refuses, and
  JavaScript passes, only trees with something in `PythonLooks`: a bundle that JCS
  cannot serialise, or a negative entry whose reason may be one that only ajv
  finds. The premise `InStep` is that the manifest has the blocks I-01, I-02, I-04
  and I-06 as JavaScript knows them, and no other with an assertion about bundles:
  Python runs what the manifest has, bound by `assertion`, and JavaScript what it
  knows, bound by id. A positive corpus that is empty passes both.
* docs/SELF_CERTIFICATION.md:18-19 says that result and badge can never drift.
  `NeverDrift` has that for calls that were not killed in between. `main` lets one
  be asked for without the other; the model writes both or neither.
* A clock that is ahead makes a result fresh for longer (`Skews`).

### Compatibility and Artifacts

A tree on main is a record of everything the checks compare; the hash of a schema is
the schema. A contributor edits a tree, runs generators and pushes. A workflow that
watches what has changed begins a run on the pushed tree, and its verdict is for
that tree, whatever main has become.

| Code | Model |
| --- | --- |
| `generate_contracts_index.py` | `build_index`, `IndexBuilds`, `IndexFresh`, `GenerateIndex` |
| `generate_schema_bundle.py` | `build_bundle`, `_load_verified_schema`, `BundleFresh`, `GenerateBundle` |
| `generate_coverage_table.py` | `build_table`, `CoverageFresh`, `GenerateCoverage` |
| `check_schema_fields.py`, `check_version_consistency.py` | `SchemaFields`, `VersionsAgree` |
| `test_schema_bundle.py`, `run.mjs` (addSchema) | `StemsDistinct`, `IdsDistinct` |
| `validate_compatibility.py`, `validate_meta_package.py` | `ValidManifest`, `ValidPins` |
| `ci.yml`, `schema-bundle.yml`, `cross-language-conformance.yml` | `Passes`, `Watched`, `Trigger`, `Dispatch`, `Finish` |

* `schema-bundle.yml` runs `generate_contracts_index.py --check`, which reads
  `version.py`, but does not watch that file. `ci.yml` does, and with
  `BundleFresh` and `VersionsAgree` the two close the gap: this is
  what `OfflineIsOnline` needs both for.
* No single check keeps `$id`s and names unique. `IdentifiersResolve` follows from
  two checks in two workflows, neither of which is there for it.
* `test_meta_package.py` asserts that there are no runtime pins today; whoever
  adds one edits that test.
* The validator looks for the text of a version behind `==` or `>=`. A `>=` pin may
  resolve to a version beyond the tested one, a later clause may exclude it
  (`PinsAreBacked` speaks of one clause for this reason), and a sibling spelled
  with `_` for `-` is not recognised (validate_meta_package.py:38-41).
* The stack's pin of `weaver_contracts` (`>=0.7,<0.8`) and the contract version are
  compared by nothing.

### Contracts, Schemas, Exchange, Handover and ReferenceFlow

An object is a function from its fields to values, its wire form one from the keys
that are present. A value is a text or a name for what tells class and schema
apart: empty, an ISO date-time, one that is a date-time by RFC 3339 but not to
`datetime.fromisoformat()` (`"timez"`), a vocabulary member, a number below, at or
above a bound or NaN (`"nan"`), what a pattern describes with and without a line feed
behind (`"86"`, `"86+nl"`), a nested object that is sound or broken. `Contracts` has, for each field,
what its annotation lets in, what `__post_init__` lets pass and its default;
`Schemas` has what the JSON Schema requires and accepts, one definition per entry of
the bundle's `$defs`.

| Code | Model |
| --- | --- |
| `core.py`, `extended.py` | the records of `Contracts`; `Coherent` for checks across fields |
| `contracts/json/**` (as shipped in the bundle) | `core__capability`, ... (33), `CoreSchemas`, `ExtendedSchemas`, `Conditions` |
| `_prune` and the `*_wire` functions, `bundle_to_wire` | `Wire` |
| construct, assign, send, receive | `Make`, `AssignTo`, `Send`, `Foreign`, `Receive` |
| `build_bundle` (135-255), and edits of it | `Construct`, `ConstructAgain`, `Assign`, `Gather`, `AssignBundle` |
| `sign_bundle`, `verify_signature`, `main` (375-489) | `Sign`, `Verify`, `Validate` |

* docs/CONTRACT_REFERENCE.md says that the dataclasses mirror the schemas exactly.
  `ConstructedIsPublishable` names what the constructors accept and the schemas
  do not: more than 20 items, empty names in `scope` and `handle_refs`, findings
  and failure records that are not whole, nested objects that were changed, and
  texts that are no date-times where the validator looks at them. The property
  says that this is all.
* In the other direction, `ReceiverConstructs` says that after validation the
  constructor raises exactly for what `Unconstructible` lists. The schema's patterns
  are applied with `re.search`, whose `$` matches before a last line feed too,
  and the constructors count characters or use their own test (extended.py:591-598,
  642-668); NaN passes `minimum` and `maximum` and fails `0.0 <= x <= 1.0`
  (extended.py:128, 808, 852); a Core date-time is parsed by
  `datetime.fromisoformat()`, as the tests do (test_roundtrip_examples.py:36-38),
  which reads fewer forms than the schema allows and is asked even where the
  validator does not look; and an empty text for a required time passes where
  date-times are not looked at. So a receiver does have errors to expect, but no
  others than these.
* jsonschema looks at date-times only if another package is there, which the
  example and the dev extras do not install; ajv-formats always does. Hence
  `formats`.
* No dataclass is frozen, TraceEvent, which is documented as immutable, among them.
* The wire form prunes what is empty. An empty `structured_data` arrives as none, and
  a bundle's metadata stays behind. `ArrivesAsSent` says that nothing else changes.
* The example validates "every Core artifact" (reference_impl.py:453), but
  `to_validate` has no capability token: one whose scope has an empty name gives
  exit code 0. Its I-01 check cannot fire, because `frame_wire` has fixed keys.
  Empty lists, which the schema allows, raise an `IndexError`. References between
  objects (`frame_id`, `handle_refs`) are looked at by nothing.

## 3. What TLC checks

| Run | Question | Bounds |
| --- | --- | --- |
| `publish` | Is a release one build of a vouched-for commit, and does the workflow implement `ReleaseIdentity`? | 2 runs, 3 tags (one of each package, one foreign), 3 commits, 3 reference updates, 1 failure |
| `publish_retry` | Does re-running the failed jobs complete a begun release? | 2 runs, 1 tag, 2 commits, 2 updates, 2 failures, fair |
| `publish_dispatch_retry` | Can a dispatch retry an immutable tag? **No** | as found |
| `publish_stack_pins` | Are the pins of a published stack validated? **No** | as found |
| `publish_recheck` | Does the re-check prove the tag? **No**, a branch will do | as found |
| `scoreboard` | Is every upload whole and true of what was served during its job, and does it catch up? | 3 siblings (one not https), up to 4 responses each, 2 changes, 1 crash, jobs without end, fair |
| `scoreboard_verdicts` | The same, over every bundle | 1 sibling, 60 bundles and 9 faults, 1 change, 1 crash |
| `scoreboard_green` | Does an unreachable sibling leave the job green? **No**, if the connection breaks off while reading | as found |
| `scoreboard_provenance` | Does "verified" mean that the signature was? **No**, for some kids | as found |
| `conformance` | What are a green run, a fresh result, a badge and the agreement of the references worth? | 3 schemas, 6 entries and 4 invariants at first; 6 schema drafts, 15 entries, 6 invariants and 2 versions to edit with; 2 edits or days in all, 4 bundle files, clocks 0 or 1 ahead, maximal age 1, any number of calls, kills and processes |
| `artifacts` | Do green workflows vouch for main, and does regenerating converge? | 3 places for a schema (two share a stem), 2 siblings, 4 manifests, 3 sets of pins, 2 edits by hand, any number of generator calls, pushes and runs, fair |
| `contracts` | Is what a program publishes conformant, and does it arrive? | 33 types, 2 texts; the flow with 2 edits, an object with 1 argument and 1 assignment changed, a foreign payload with 2 |

Why the bounds are enough to make the interesting cases happen:

* *Publish*. Two runs suffice to race, since a third could only lose to the
  holder of the wheel. Three updates are enough to push a tag, move it and add a
  branch, or to push, delete and add a branch. One failure leaves a half upload,
  and two let the retry fail as well. The commits are one fit for both packages,
  one fit for the contracts only, and one that fails the gates.
* *Scoreboard*. The three siblings of the registry occur, one of them with a URL
  that is refused. Two changes can hit one sibling twice or two siblings
  during one job. The responses are a conforming bundle, one that was tampered
  with, `null`, and a caught and an uncaught fault. The second run varies the
  bundle instead: six contents times ten signatures.
* *Conformance*. The edits include an additive change under the same `$id`, a new
  required key, a new version done in one schema but not in the one that refers to
  it, a copied `$id`, an unknown schema name, an invariant that is taken out, bound
  to another check or left without a baseline, and payloads on each of which the
  references disagree: one that is undated, NaN, a line feed, a number JCS refuses,
  an omitted canonicalization. Two of them make the combinations that one check
  hides from another; a call before, between and after them fills the cache. An age
  of 1 with days up to 2 is at, below and above the limit, with a clock ahead
  as well. `AgreementMeansConforming` and `ReferencesAgree` depend on the tree
  alone and are asked of every tree before anything has been run on it.
* *Artifacts*. One edit of a generated file and one of its source, or one on each
  side of a path filter, is what it takes for two checks to look at different
  commits. The drafts are a new content, another schema's `$id`, another one's
  stem, no `$id` and removal.
* *Contracts*. Every property relates at most two fields of one object, or two
  objects of the chain, and two edits reach both. Each field takes each of
  its values.
* Crash and change counters are bounded; runs, jobs, calls and schedules are not.

Deadlock is not checked in the publish runs, where every run may have ended and
every update may have been made, nor in `contracts`, where the program ends. The
others never stop.

**Fairness.** Publish: GitHub starts a job whose needs are met and a started job
ends, so `Validate`, `Build`, `Recheck` and `Upload` are weakly fair; an operator
who wants the release keeps re-running failed jobs. Nobody is made to push,
move, dispatch or fail. Scoreboard: a job starts every week and runs to its
end, so `Job` is weakly fair. Crashes and changes are not, and both are bounded,
so that jobs do succeed at some point. Artifacts: the checks tell a contributor
which generator to run, so generators and pushes are weakly fair, and a run ends;
nobody is made to edit. `RegenerationConverges` has the premise that what is written
by hand is sound in the end, since no generator repairs that. The other modules
have no liveness property: a call of `main()` is one pass from top to bottom. `ConformingIsShown` excludes, in its
premise, hosts that keep breaking connections: the code gives up the whole job
for them.

### Findings

The runs expected to fail state what the repository says of itself:

1. **publish.yml:9, :13**: a dispatch is offered to retry an existing tag. After a
   run that died between wheel and sdist, a dispatched one builds again, and its wheel
   is refused, because another file of that name is there. Only re-running the first
   run's failed jobs completes the release. `RetryAccepted` asks for both, a
   dispatched run and a dead holder of the wheel: that a live run's rival is
   refused is what `OneBuildPerRelease` wants.
2. **publish.yml:223**: the step named "Validate compatibility-derived
   meta-package pins" runs a self-test and looks at no pin.
3. **publish.yml:171**: the step that proves that the tag still targets the
   commit is satisfied by a branch when the tag is gone.
4. **scoreboard.py:15-17**: an unreachable sibling is never a failure, but a
   connection that breaks off during the read, bytes that do not decode, or JSON
   that `json.loads` gives up on end the job and take all rows with them.
5. **scoreboard.py:122-124**: a row never implies a verification that was
   skipped, but the status is found in a note's text, which quotes the kid.

Two more disagreements are in the models and have no run of their own. They show
in properties that say what is true instead:

* run.py:504-508 promises a clear message for every failure mode of an external bundle.
  `json.loads` raises UnicodeDecodeError for a file that is not UTF-8, and
  run.py:518 catches JSONDecodeError only (`RunBundle`, the problem `"not UTF-8"`).
* docs/CONTRACT_REFERENCE.md:11-12 says that the dataclasses mirror the schemas exactly.
  `ConstructedIsPublishable` and `ReceiverConstructs` list where they do not, one
  for each direction.

## 4. What is proved

The seven `...Proofs` modules prove, for any number of runs, tags, commits, siblings,
responses, schemas, payloads, texts, edits and calls, and any bounds, under the named
assumptions on the constants:

* `ConstantsOK`, `BoundsOK`, `ValuesOK`, `FilesOK`, `HandOK`, `CompatibilityOK`,
  `FileAssumption` and the like: typing and distinctness of the null values.
* `InitialOK`: for `Artifacts`, an initial tree that passes.
* `CorpusAssumption`: the manifest names each invariant once, and what the corpus has
  for a bundle is described as one, sound or not.
* `TextsAssumption`, `SentinelAssumption`: a text is none of the values that stand for
  a form (`"time"`, `"[]"`, ...), and `None` is no text.

What is proved, and along which argument:

* **Publish**: `TypeOK`, `OneBuildPerRelease`, `SuccessMeansOwnFiles`,
  `PublishedFromVerifiedTag`, and that `Publish` implements `ReleaseIdentity`.
  None of these is inductive. The argument is that the wheel is the lock of a
  release: the index never replaces it, so whoever gets to the sdist has put its
  own wheel there (`WheelOwnsRelease`). Each file in the index names a run that
  is past its build (`IndexFromRuns`), and such a run still holds the tag, target
  and commit it verified (`RunsVerified`), the commit being in the history of
  the tag (`TagsPointed`). `PublishInv` is their conjunction with the types. There
  is one lemma per action or group of actions, plus lemmas for steps that touch no
  file (`FilesInv`).
* **TraceBundle**: `RowIsVerdict`, the row that the pipeline of checks computes is
  the declarative `Verdict`, for every response, keyring and registry, whether
  `cryptography` is installed or not, provided the kid is plain.
* **Scoreboard**: `TypeOK`, `BadgesAgree`, and, given `PlainKids`, that `Scoreboard`
  implements `ScoreboardReport`. The invariant is that the rows built so far are of
  responses seen since the job began (`RowsAreSeen`) and that the files written so
  far are of those rows (`FilesAreOfRows`). Both hold only while a job is
  under way, which is why an upload may happen only then.
* **Artifacts**: `TypeOK`, `OfflineIsOnline`, `IdentifiersResolve`, `PinsAreBacked`.
  They speak of main, while a workflow's result is about the tree of its last
  run. The inductive invariant is `LastRunIsCurrent`: what a workflow watches is
  on main what it was in that tree, and a green run is one whose tree passes. A push
  keeps it because `Trigger` compares exactly what is watched. From it
  (`GreenPasses`) follows, check by check, which of them hold of main although
  they were made of another tree; the path filters matter here, and the property is
  false if one of them is shortened. `BuiltIsOnline` and `ValidatorsVouch` are
  the lemmas about the generators and the validators.
* **Corpus and Conformance**: `TypeOK`, `CacheTransparent`, `GreenMeansConforming`,
  `AgreementMeansConforming`, `FreshMeansRecentPass`, `BadgeIsEarned`,
  `NeverDrift`. The inductive invariant `Inv` says that what the cache holds was
  loaded by this process, under the `$id` it is kept by (`CacheInv`). So under
  `Steady` a cached validator finds what a new one finds, although it may have
  another registry (`SameFindings`, `HeldIsFresh`). It also says that a call that is about to
  be written as a pass is attested today (`CallInv`), that a passing result
  is dated by an attested call but for a clock's error (`ResultInv`), and that
  uninterrupted files belong together (`WriteInv`). `NoFailures` and
  `BothGreenConform` turn the absence of failures into `Conforms`, which
  says nothing of passes or their order.
* **Agreement of the references**: `ReferencesAgree`. It is a statement about trees, with
  a small invariant on top: edits keep what `CorpusAssumption` says of the first tree
  (`CorpusInv`). `PythonThenJavaScript` and `JavaScriptThenPython` are the
  two directions, check by check; `BundlesAlike` is what they need of the two ways to
  verify a signature. The first attempt failed for a good reason: a manifest can bind
  the I-04 or I-06 block to an assertion about bundles. `InStep` now excludes it, and
  the run `conformance` edits with such a block and a negative entry that names it.
* **The classes and their schemas** (`ExchangeProofs`). `ClassesAlike` compares, type
  by type and field by field, what a class lets in, demands and sends with what
  its schema requires and accepts. All else follows from it without another look at
  the 33 types: what a schema accepts can be constructed exactly if it has nothing that
  `Unconstructible` lists (`AcceptedConstructs`), what
  is constructed is accepted but for the odd fields (`ConstructedAccepted`),
  what is sent arrives (`SentArrives`), and who checks date-times makes a difference
  for untimely texts only (`AcceptedAnywhere`).
* **Handover**: `ReceiverConstructs`, `ConstructedIsPublishable`, `ArrivesAsSent`. The
  inductive invariant `HandoverInv` says that an object keeps the fields and the
  values its annotations allow through construction and assignment, that what was sent
  is its wire form, and that a message has arrived as validation and construction
  decide. With it the three properties are the theorems of `ExchangeProofs`.
* **ReferenceFlow**: `TypeOK`, `PassedIsConformant`, `ConformantPasses`,
  `ReceiverHasTheChain`. `main()` validates the first item of each list by itself and
  the others as parts of the bundle, so the wire form has to be tied to the objects. The
  inductive invariant `FlowInv` does that: each step has made complete objects
  in the order of the code (`MadeInv`), the bundle gathers them, a list left out aside (`GatheredInv`), what
  was signed is what is published of this bundle, which nothing changes afterwards
  (`SignedInv`), and the failures are those of the published form (`FailuresInv`).

Only model-checked:

* `RetryCompletes`, `ConformingIsShown` and `RegenerationConverges`, which are liveness
  under fairness and beyond the prover. Every other property of a passing run
  is a theorem.
* The five claims that fail: each is refuted by a behaviour that TLC shows.

## 5. Not modelled

* **Documents and project metadata** have no behaviour. Of schemas, samples
  and payload files the model has what validation tells apart: a pattern or a length
  is one value that satisfies it and one that does not.
* **Wording**: layout of generated files, texts of failures, counts of checks. Where
  code reads its own wording again (`_signature_status`, a substring match in
  `negative_schema_reason_met`), it is modelled by what it finds.
* **Options nobody passes in CI**: `--strict`, other paths, a result without a
  badge. `--keyring` is a constant.
* **`is_compatible`** of `version.py` compares two MAJOR numbers. Schemas
  without `$id`, which the runner compiles anew each time, and a contract version
  `unknown` (equal to itself, as MAJOR) do not occur in the trees.
* **The scoreboard's registry** is constant. `docs/badges` is uploaded as a
  directory, so the committed badge of a repository taken off the registry
  goes with it; no property is about that.
* **Other workflows** (downstream smoke test, python-next, links, first success)
  install packages, follow links or call the scripts above, and keep no state.
