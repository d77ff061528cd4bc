------------------------------- MODULE Publish -------------------------------
(***************************************************************************)
(* .github/workflows/publish.yml with scripts/validate_release_tag.py: the *)
(* validate-request, build-* and publish-* jobs of every run of the        *)
(* workflow, the git references the runs read, and the package index they  *)
(* upload to.  The workflow has no concurrency group, so its runs          *)
(* interleave; between any two jobs a tag may be moved or deleted, and any *)
(* job may die on its runner and be re-run.                                *)
(*                                                                         *)
(* One action is one job, up to the point where it touches something other *)
(* runs can see: a job works on the references it fetched at its checkout, *)
(* so what follows the fetch is local.  The publish job is split at its    *)
(* uploads, one file at a time.                                            *)
(***************************************************************************)
EXTENDS Naturals

CONSTANTS
  Runs,         \* runs of the workflow
  Tags,         \* names a run can be asked to publish
  Commits,
  Versions,
  Prefix,       \* Prefix[t]: family of t by its prefix, or "none"
  Names,        \* Names[t]: the release t names (classify_tag), or Unbound
  PkgVersion,   \* PkgVersion[c][p]: [project].version of package p at c
  Conformant,   \* the commits on which pytest and conformance/run.py pass
  PinsValid,    \* the commits on which validate() accepts the stack's pins
  BranchNames,  \* the names that may also be the name of a branch
  MaxMoves,     \* bound on reference updates
  MaxFailures,  \* bound on runner failures
  Unbound       \* no release, no commit, no file

Packages == {"contracts", "stack"}
Releases == [pkg : Packages, version : Versions]
Files == {"wheel", "sdist"}
Events == {"release", "workflow_dispatch"}

\* The distribution a build job uploads as its artifact.  Two builds of one
\* commit differ: setuptools archives carry the times of checkout and build.
Builds == [run : Runs, commit : Commits]

ASSUME ConstantsOK ==
  /\ Prefix \in [Tags -> Packages \cup {"none"}]
  /\ Names \in [Tags -> Releases \cup {Unbound}]
  /\ PkgVersion \in [Commits -> [Packages -> Versions]]
  /\ Conformant \subseteq Commits
  /\ PinsValid \subseteq Commits
  /\ BranchNames \subseteq Tags
  /\ MaxMoves \in Nat /\ MaxFailures \in Nat
  /\ Unbound \notin Releases \cup Commits \cup Builds

VARIABLES
  tagRef,     \* refs/tags/*: the commit of each tag, or Unbound
  branchRef,  \* refs/heads/*: the commit of a branch of that name, or Unbound
  at,         \* at[r]: the step run r stands at
  failed,     \* failed[r]: its current job has failed
  tag,        \* env.RELEASE_TAG of each run
  event,      \* github.event_name of each run
  target,     \* validate-request's outputs.target
  sha,        \* validate-request's outputs.commit_sha
  index,      \* the package index: the build each file of a release is of
  pointed,    \* history: the commits each tag has pointed at
  moves,      \* reference updates so far
  failures    \* runner failures so far

refs == <<tagRef, branchRef, pointed, moves>>
request == <<tag, event>>
outputs == <<target, sha>>
jobs == <<at, failed, request, outputs, failures>>
vars == <<refs, jobs, index>>

\* Where a run stands: the job it is in (validate, build, publish), the file
\* its publish job uploads next (wheel, sdist), or how it ended.
Steps == {"idle", "validate", "build", "publish", "wheel", "sdist",
          "published", "skipped"}

Init ==
  /\ tagRef = [t \in Tags |-> Unbound]
  /\ branchRef = [t \in Tags |-> Unbound]
  /\ pointed = [t \in Tags |-> {}]
  /\ at = [r \in Runs |-> "idle"]
  /\ failed = [r \in Runs |-> FALSE]
  /\ tag = [r \in Runs |-> Unbound]
  /\ event = [r \in Runs |-> Unbound]
  /\ target = [r \in Runs |-> Unbound]
  /\ sha = [r \in Runs |-> Unbound]
  /\ index = [rel \in Releases |-> [f \in Files |-> Unbound]]
  /\ moves = 0
  /\ failures = 0

-----------------------------------------------------------------------------
(* Git references, as people and other tools update them.                  *)

\* Create tag t at c, or move it there.
PushTag(t, c) ==
  /\ moves < MaxMoves
  /\ tagRef[t] # c
  /\ moves' = moves + 1
  /\ tagRef' = [tagRef EXCEPT ![t] = c]
  /\ pointed' = [pointed EXCEPT ![t] = @ \cup {c}]
  /\ UNCHANGED <<branchRef, jobs, index>>

DeleteTag(t) ==
  /\ moves < MaxMoves
  /\ tagRef[t] # Unbound
  /\ moves' = moves + 1
  /\ tagRef' = [tagRef EXCEPT ![t] = Unbound]
  /\ UNCHANGED <<branchRef, pointed, jobs, index>>

\* Create, move or (c = Unbound) delete the branch named t.
PushBranch(t, c) ==
  /\ moves < MaxMoves
  /\ branchRef[t] # c
  /\ moves' = moves + 1
  /\ branchRef' = [branchRef EXCEPT ![t] = c]
  /\ UNCHANGED <<tagRef, pointed, jobs, index>>

\* The commit actions/checkout leaves at HEAD for an unqualified ref: it looks
\* for a branch of that name first.
Checkout(t) == IF branchRef[t] # Unbound THEN branchRef[t] ELSE tagRef[t]

\* `git rev-list -n 1 t`: git resolves a name as a tag first.
RevList(t) == IF tagRef[t] # Unbound THEN tagRef[t] ELSE branchRef[t]

-----------------------------------------------------------------------------
(* The jobs of a run.                                                      *)

\* A release is published, or someone dispatches the workflow with a tag.
Request(r, t, e) ==
  /\ at[r] = "idle"
  /\ e = "release" => tagRef[t] # Unbound
  /\ at' = [at EXCEPT ![r] = "validate"]
  /\ tag' = [tag EXCEPT ![r] = t]
  /\ event' = [event EXCEPT ![r] = e]
  /\ UNCHANGED <<refs, failed, outputs, index, failures>>

\* validate_release: the tag is of the package's family and the version it
\* names is the one the package declares on commit c.  (ValidFamily is the
\* faulty variant that compares no version.)
ValidFamily(t, p, c) == Names[t] # Unbound /\ Names[t].pkg = p
ValidRelease(t, p, c) == Names[t] = [pkg |-> p, version |-> PkgVersion[c][p]]

\* The run stays at the job that failed.  (UnknownOutcome is a faulty variant.)
UnknownOutcome(r) == at' = [at EXCEPT ![r] = "failed"] /\ UNCHANGED failed
FailJob(r) == failed' = [failed EXCEPT ![r] = TRUE] /\ UNCHANGED at

Advance(r, step) == at' = [at EXCEPT ![r] = step] /\ UNCHANGED failed

\* The outcome of validate-request on the references its checkout fetched.
\* A tag of neither family ends a release event's run and fails a dispatch.
Validate(r) ==
  LET t == tag[r]
      c == Checkout(t)
      proved == tagRef[t] # Unbound /\ c = tagRef[t]
      accepted == proved /\ Prefix[t] # "none" /\ ValidRelease(t, Prefix[t], c)
      foreign == proved /\ Prefix[t] = "none" /\ event[r] = "release"
  IN  /\ at[r] = "validate" /\ ~failed[r]
      /\ IF accepted \/ foreign
         THEN /\ Advance(r, IF accepted THEN "build" ELSE "skipped")
              /\ target' = [target EXCEPT ![r] = Prefix[t]]
              /\ sha' = [sha EXCEPT ![r] = c]
         ELSE FailJob(r) /\ UNCHANGED outputs
      /\ UNCHANGED <<refs, request, index, failures>>

\* The gate of a package's build job on the verified commit.  build-contracts
\* runs the tests and the conformance suite; build-meta runs
\* validate_meta_package.py, whose main program is its self-test and reads no
\* pin of the commit.  (Ungated is the faulty variant that tests nothing.)
Ungated(p, c) == TRUE
Gate(p, c) == p = "contracts" => c \in Conformant

\* build-contracts or build-meta: the verified commit, not the tag, is checked
\* out, revalidated, gated, built, and the distribution uploaded.
Build(r) ==
  /\ at[r] = "build" /\ ~failed[r]
  /\ IF ValidRelease(tag[r], target[r], sha[r]) /\ Gate(target[r], sha[r])
     THEN Advance(r, "publish")
     ELSE FailJob(r)
  /\ UNCHANGED <<refs, request, outputs, index, failures>>

BuildOf(r) == [run |-> r, commit |-> sha[r]]
ReleaseOf(r) == [pkg |-> target[r], version |-> PkgVersion[sha[r]][target[r]]]

\* publish-*: the name must still resolve to the verified commit; then the
\* run's own distribution is downloaded and its upload begins.  (HeadRef is
\* the faulty variant that compares what is checked out.)
HeadRef(t) == Checkout(t)
RecheckedRef(t) == RevList(t)
Recheck(r) ==
  /\ at[r] = "publish" /\ ~failed[r]
  /\ IF RecheckedRef(tag[r]) = sha[r] THEN Advance(r, "wheel") ELSE FailJob(r)
  /\ UNCHANGED <<refs, request, outputs, index, failures>>

\* The index accepts a new file, and the same file again; it never replaces
\* one.  The publish action does not ask it to skip an existing file.
Accepts(old, new) == old \in {Unbound, new}

Put(rel, f, b) == index' = [index EXCEPT ![rel] = [@ EXCEPT ![f] = b]]

After(f) == IF f = "wheel" THEN "sdist" ELSE "published"

\* The publish job fails in the middle of an upload; a re-run starts it over.
FailUpload(r) ==
  /\ at' = [at EXCEPT ![r] = "publish"]
  /\ failed' = [failed EXCEPT ![r] = TRUE]

\* The faulty variant with `skip-existing: true`: what is there is passed over.
UploadSkippingExisting(r, f) ==
  LET old == index[ReleaseOf(r)][f]
  IN  /\ at[r] = f
      /\ Put(ReleaseOf(r), f, IF old = Unbound THEN BuildOf(r) ELSE old)
      /\ Advance(r, After(f))
      /\ UNCHANGED <<refs, request, outputs, failures>>

\* twine uploads the wheel, then the sdist, and stops at the first refusal.
Upload(r, f) ==
  /\ at[r] = f
  /\ IF Accepts(index[ReleaseOf(r)][f], BuildOf(r))
     THEN Put(ReleaseOf(r), f, BuildOf(r)) /\ Advance(r, After(f))
     ELSE FailUpload(r) /\ UNCHANGED index
  /\ UNCHANGED <<refs, request, outputs, failures>>

-----------------------------------------------------------------------------
(* Failures, and what an operator does about them.                         *)

\* The job r is in dies: its uploads so far stay, the rest of it is undone.
JobDies(r) ==
  /\ failures < MaxFailures
  /\ failures' = failures + 1
  /\ \/ at[r] \in {"validate", "build", "publish"} /\ ~failed[r] /\ FailJob(r)
     \/ at[r] \in Files /\ FailUpload(r)
  /\ UNCHANGED <<refs, request, outputs, index>>

\* The index took the file but its reply was lost: twine fails, the job with it.
ReplyLost(r, f) ==
  /\ failures < MaxFailures
  /\ failures' = failures + 1
  /\ at[r] = f
  /\ Accepts(index[ReleaseOf(r)][f], BuildOf(r))
  /\ Put(ReleaseOf(r), f, BuildOf(r))
  /\ FailUpload(r)
  /\ UNCHANGED <<refs, request, outputs>>

\* "Re-run failed jobs": the jobs that succeeded keep their outputs and their
\* artifacts, so a re-run publish job uploads the files its run built.
RerunFailed(r) ==
  /\ failed[r]
  /\ failed' = [failed EXCEPT ![r] = FALSE]
  /\ UNCHANGED <<refs, at, request, outputs, index, failures>>

Next ==
  \/ \E t \in Tags, c \in Commits : PushTag(t, c)
  \/ \E t \in Tags : DeleteTag(t)
  \/ \E t \in BranchNames, c \in Commits \cup {Unbound} : PushBranch(t, c)
  \/ \E r \in Runs, t \in Tags, e \in Events : Request(r, t, e)
  \/ \E r \in Runs :
       \/ Validate(r) \/ Build(r) \/ Recheck(r)
       \/ \E f \in Files : Upload(r, f) \/ ReplyLost(r, f)
       \/ JobDies(r) \/ RerunFailed(r)

Spec == Init /\ [][Next]_vars

\* GitHub runs every job whose needs are met, and an operator who wants a
\* release keeps re-running a run's failed jobs.
Fairness ==
  \A r \in Runs :
    /\ WF_vars(Validate(r)) /\ WF_vars(Build(r)) /\ WF_vars(Recheck(r))
    /\ WF_vars(\E f \in Files : Upload(r, f))
    /\ WF_vars(RerunFailed(r))

FairSpec == Spec /\ Fairness

-----------------------------------------------------------------------------
(* Properties.                                                             *)

\* Every variable keeps its type.
TypeOK ==
  /\ tagRef \in [Tags -> Commits \cup {Unbound}]
  /\ branchRef \in [Tags -> Commits \cup {Unbound}]
  /\ pointed \in [Tags -> SUBSET Commits]
  /\ at \in [Runs -> Steps]
  /\ failed \in [Runs -> BOOLEAN]
  /\ tag \in [Runs -> Tags \cup {Unbound}]
  /\ event \in [Runs -> Events \cup {Unbound}]
  /\ target \in [Runs -> Packages \cup {"none", Unbound}]
  /\ sha \in [Runs -> Commits \cup {Unbound}]
  /\ index \in [Releases -> [Files -> Builds \cup {Unbound}]]
  /\ moves \in 0 .. MaxMoves
  /\ failures \in 0 .. MaxFailures

Uploaded(rel) == {f \in Files : index[rel][f] # Unbound}

\* All files of a release come from one build, although runs for moved tags
\* and retries with a build of their own race for it and die half way: the
\* publish jobs never replace or skip a file that is there.
OneBuildPerRelease ==
  \A rel \in Releases : \A f, g \in Uploaded(rel) : index[rel][f] = index[rel][g]

\* A run reports success only if what the index serves is its own build,
\* so at most one run ever does so for a release.
SuccessMeansOwnFiles ==
  \A r \in Runs : at[r] = "published" =>
    \A f \in Files : index[ReleaseOf(r)][f] = BuildOf(r)

\* c declares rel's version, and passed the tests if rel is of contracts.
Fit(rel, c) ==
  /\ PkgVersion[c][rel.pkg] = rel.version
  /\ rel.pkg = "contracts" => c \in Conformant

Vouched(rel) == {c \in Commits : \E t \in Tags : Names[t] = rel /\ c \in pointed[t]}

\* Whatever the references did meanwhile, what is downloaded as a release was
\* built from a commit that a tag naming that release has pointed at, whose
\* metadata says so, and on which the contracts' tests pass.
PublishedFromVerifiedTag ==
  \A rel \in Releases : \A f \in Uploaded(rel) :
    index[rel][f].commit \in Vouched(rel) /\ Fit(rel, index[rel][f].commit)

\* The workflow implements the immutable release identity: the first upload
\* binds a release to a build for good, later uploads only complete it.
Identity == INSTANCE ReleaseIdentity WITH
  vouched <- [rel \in Releases |-> Vouched(rel)],
  identity <- [rel \in Releases |-> index[rel]["wheel"]],
  files <- [rel \in Releases |-> Uploaded(rel)]
ImplementsIdentity == Identity!Spec

\* "A publication is a retryable operation": a release that a run has begun
\* to upload is complete in the end, provided the tag stays where the run
\* verified it and the run's failed jobs are re-run.
Begun(r) ==
  /\ target[r] \in Packages
  /\ index[ReleaseOf(r)]["wheel"] = BuildOf(r)
TagHolds(r) == tag[r] # Unbound /\ RevList(tag[r]) = sha[r]
Complete(r) == target[r] \in Packages /\ Uploaded(ReleaseOf(r)) = Files
RetryCompletes ==
  \A r \in Runs : []((Begun(r) /\ []TagHolds(r)) => <>Complete(r))

-----------------------------------------------------------------------------
(* The inductive invariant behind the safety properties.                   *)

Verified == {"build", "publish", "wheel", "sdist", "published"}
Built == Verified \ {"build"}

\* The history holds where the tags are now.
TagsPointed == \A t \in Tags : tagRef[t] \in pointed[t] \cup {Unbound}

\* A run past validation keeps the tag, the target and the commit it verified;
\* past its build, the commit has passed the target's gate.
RunsVerified ==
  \A r \in Runs :
    /\ failed[r] => at[r] \in {"validate", "build", "publish"}
    /\ at[r] # "idle" => tag[r] \in Tags
    /\ at[r] \in Verified =>
         /\ target[r] \in Packages
         /\ sha[r] \in pointed[tag[r]]
         /\ Names[tag[r]] = ReleaseOf(r)
    /\ at[r] \in Built => Gate(target[r], sha[r])

\* A file that is in the index is of the build of a run that verified it.
IndexFromRuns ==
  \A rel \in Releases : \A f \in Uploaded(rel) :
    LET r == index[rel][f].run
    IN  /\ at[r] \in Built
        /\ index[rel][f] = BuildOf(r)
        /\ rel = ReleaseOf(r)

\* The wheel is the lock of a release: a run that goes on to the sdist has put
\* its own wheel there, and the sdist is of the build the wheel is of.
WheelOwnsRelease ==
  /\ \A r \in Runs :
       /\ at[r] \in {"sdist", "published"} =>
            index[ReleaseOf(r)]["wheel"] = BuildOf(r)
       /\ at[r] = "published" => index[ReleaseOf(r)]["sdist"] = BuildOf(r)
  /\ \A rel \in Releases :
       index[rel]["sdist"] # Unbound => index[rel]["wheel"] = index[rel]["sdist"]

\* What every step preserves: any uploaded file names the run it is of, that
\* run is verified and built, and nobody uploads an sdist without the wheel.
PublishInv ==
  TypeOK /\ TagsPointed /\ RunsVerified /\ IndexFromRuns /\ WheelOwnsRelease

-----------------------------------------------------------------------------
(* What the workflow says of itself and does not do.                       *)

\* publish.yml:9 and :13, a dispatch retries an immutable release tag: where a
\* run has died between the wheel and the sdist, a dispatched run of the same
\* commit that has passed every check can go on with the release.
RetryAccepted ==
  \A r \in Runs : at[r] = "wheel" /\ event[r] = "workflow_dispatch" =>
    LET old == index[ReleaseOf(r)]["wheel"]
    IN  /\ old # Unbound /\ failed[old.run] /\ old.commit = sha[r]
        /\ Uploaded(ReleaseOf(r)) # Files
        => Accepts(old, BuildOf(r))

\* publish.yml:223, "Validate compatibility-derived meta-package pins": a
\* published stack was built from a commit whose pins validate() accepts.
StackPinsValidated ==
  \A rel \in Releases : \A f \in Uploaded(rel) :
    rel.pkg = "stack" => index[rel][f].commit \in PinsValid

\* publish.yml:163 and :171, the publish job re-checks the immutable tag: an
\* upload begins only while the tag exists and points at the verified commit.
RecheckProvesTag ==
  [][\A r \in Runs : at[r] = "publish" /\ at'[r] = "wheel"
       => tagRef[tag[r]] = sha[r]]_vars
=============================================================================
