---------------------------- MODULE PublishProofs ----------------------------
(***************************************************************************)
(* Proofs about Publish, for any runs, tags, commits, versions and bounds. *)
(* PublishInv is inductive; the safety properties, and the step simulation *)
(* of ReleaseIdentity, follow from it.                                     *)
(***************************************************************************)
EXTENDS Publish, TLAPS

USE DEF Packages, Releases, Files, Events, Steps, Verified, Built

-----------------------------------------------------------------------------
(* PublishInv is inductive: one lemma per action or group of actions.      *)

LEMMA InitInv == Init => PublishInv
<1> SUFFICES ASSUME Init PROVE PublishInv
  OBVIOUS
<1>1. TypeOK
  BY ConstantsOK DEF Init, TypeOK
<1>2. RunsVerified /\ TagsPointed
  BY DEF Init, RunsVerified, TagsPointed
<1>3. IndexFromRuns /\ WheelOwnsRelease
  BY DEF Init, IndexFromRuns, WheelOwnsRelease, Uploaded
<1> QED
  BY <1>1, <1>2, <1>3 DEF PublishInv

\* Updates of references touch no run and no file, and forget no commit that
\* a tag has pointed at.
LEMMA RefsInv ==
  ASSUME PublishInv,
         \/ \E t \in Tags, c \in Commits : PushTag(t, c)
         \/ \E t \in Tags : DeleteTag(t)
         \/ \E t \in BranchNames, c \in Commits \cup {Unbound} : PushBranch(t, c)
  PROVE  PublishInv'
<1>1. /\ UNCHANGED jobs /\ index' = index
      /\ \A t \in Tags : pointed[t] \subseteq pointed'[t]
  BY DEF PushTag, DeleteTag, PushBranch, PublishInv, TypeOK
<1>2. TypeOK'
  <2>1. ASSUME NEW t \in Tags, NEW c \in Commits, PushTag(t, c) PROVE TypeOK'
    BY <2>1, ConstantsOK DEF PushTag, PublishInv, TypeOK, jobs, request, outputs
  <2>2. ASSUME NEW t \in Tags, DeleteTag(t) PROVE TypeOK'
    BY <2>2, ConstantsOK DEF DeleteTag, PublishInv, TypeOK, jobs, request, outputs
  <2>3. ASSUME NEW t \in BranchNames, NEW c \in Commits \cup {Unbound}, PushBranch(t, c)
        PROVE  TypeOK'
    BY <2>3, ConstantsOK DEF PushBranch, PublishInv, TypeOK, jobs, request, outputs
  <2> QED
    BY <2>1, <2>2, <2>3
<1>5. TagsPointed'
  BY DEF PushTag, DeleteTag, PushBranch, PublishInv, TypeOK, TagsPointed
<1>3. RunsVerified'
  BY <1>1 DEF PublishInv, TypeOK, RunsVerified, Gate, ReleaseOf, jobs, request, outputs
<1>4. IndexFromRuns' /\ WheelOwnsRelease'
  BY <1>1 DEF PublishInv, IndexFromRuns, WheelOwnsRelease, Uploaded, BuildOf,
              ReleaseOf, jobs, request, outputs
<1> QED
  BY <1>2, <1>3, <1>4, <1>5 DEF PublishInv

\* A step of one run that changes no file and no output of a built run, and
\* completes no upload, keeps what the index and the runs owe each other.
LEMMA FilesInv ==
  ASSUME PublishInv, index' = index, at' \in [Runs -> Steps],
         \A r \in Runs : at[r] \in Built =>
           at'[r] \in Built /\ target'[r] = target[r] /\ sha'[r] = sha[r],
         \A r \in Runs : at'[r] \in {"sdist", "published"} => at'[r] = at[r]
  PROVE  IndexFromRuns' /\ WheelOwnsRelease'
<1>1. IndexFromRuns'
  <2> SUFFICES ASSUME NEW rel \in Releases, NEW f \in Files, index[rel][f] # Unbound,
                      NEW q, q = index[rel][f].run
               PROVE  /\ at'[q] \in Built
                      /\ index[rel][f] = [run |-> q, commit |-> sha'[q]]
                      /\ rel = [pkg |-> target'[q],
                                version |-> PkgVersion[sha'[q]][target'[q]]]
    BY DEF IndexFromRuns, Uploaded, BuildOf, ReleaseOf
  <2>1. index[rel][f] \in Builds
    <3>1. index \in [Releases -> [Files -> Builds \cup {Unbound}]]
      BY DEF PublishInv, TypeOK
    <3> HIDE DEF Releases, Files
    <3> QED
      BY <3>1
  <2>2. q \in Runs
    BY <2>1 DEF Builds
  <2>3. /\ at[q] \in Built
        /\ index[rel][f] = [run |-> q, commit |-> sha[q]]
        /\ rel = [pkg |-> target[q], version |-> PkgVersion[sha[q]][target[q]]]
    BY DEF PublishInv, IndexFromRuns, Uploaded, BuildOf, ReleaseOf
  <2> QED
    BY <2>2, <2>3
<1>2. WheelOwnsRelease'
  BY DEF PublishInv, WheelOwnsRelease, BuildOf, ReleaseOf
<1> QED
  BY <1>1, <1>2

LEMMA RequestInv ==
  ASSUME PublishInv, NEW r \in Runs, NEW t \in Tags, NEW e \in Events, Request(r, t, e)
  PROVE  PublishInv'
<1> USE DEF Request, refs, outputs
<1>1. TypeOK'
  BY DEF PublishInv, TypeOK
<1>2. RunsVerified' /\ TagsPointed'
  BY DEF PublishInv, TypeOK, RunsVerified, TagsPointed, ReleaseOf, Gate
<1>3. IndexFromRuns' /\ WheelOwnsRelease'
  BY <1>1, FilesInv DEF PublishInv, TypeOK
<1> QED
  BY <1>1, <1>2, <1>3 DEF PublishInv

LEMMA ValidateInv ==
  ASSUME PublishInv, NEW r \in Runs, Validate(r)
  PROVE  PublishInv'
<1> USE DEF refs, request, outputs
<1> DEFINE t == tag[r]
           c == Checkout(t)
<1>1. t \in Tags /\ at[r] = "validate" /\ UNCHANGED <<refs, request, index, failures>>
  BY DEF Validate, PublishInv, RunsVerified
<1> DEFINE accepted == /\ at' = [at EXCEPT ![r] = "build"] /\ UNCHANGED failed
                       /\ target' = [target EXCEPT ![r] = Prefix[t]]
                       /\ Prefix[t] \in Packages
                       /\ sha' = [sha EXCEPT ![r] = c] /\ c \in Commits /\ c = tagRef[t]
                       /\ ValidRelease(t, Prefix[t], c)
           foreign == /\ at' = [at EXCEPT ![r] = "skipped"] /\ UNCHANGED failed
                      /\ target' = [target EXCEPT ![r] = "none"]
                      /\ sha' = [sha EXCEPT ![r] = c] /\ c \in Commits
           refused == UNCHANGED <<at, outputs>> /\ failed' = [failed EXCEPT ![r] = TRUE]
<1>2. (accepted \/ foreign \/ refused) /\ ~failed[r]
  BY <1>1, ConstantsOK DEF Validate, Advance, FailJob, PublishInv, TypeOK
<1> USE DEF refs, request, outputs
<1> HIDE DEF c
<1>3. TypeOK'
  <2>1. CASE accepted
    BY <1>1, <2>1 DEF PublishInv, TypeOK
  <2>2. CASE foreign
    BY <1>1, <2>2 DEF PublishInv, TypeOK
  <2>3. CASE refused
    BY <1>1, <2>3 DEF PublishInv, TypeOK
  <2> QED
    BY <1>2, <2>1, <2>2, <2>3
<1>4. RunsVerified' /\ TagsPointed'
  <2> USE DEF ValidRelease, PublishInv, TypeOK, RunsVerified, TagsPointed, ReleaseOf, Gate
  <2>1. CASE accepted
    <3>1. TagsPointed' /\ pointed' = pointed
      BY <1>1
    <3>2. c \in pointed[t]
      BY <1>1, <2>1, ConstantsOK
    <3>3. /\ at'[r] = "build" /\ ~failed'[r] /\ tag'[r] = t /\ sha'[r] = c
          /\ target'[r] = Prefix[t] /\ Prefix[t] \in Packages
          /\ Names[t] = [pkg |-> Prefix[t], version |-> PkgVersion[c][Prefix[t]]]
      BY <1>1, <1>2, <2>1
    <3>4. \A q \in Runs \ {r} : /\ at'[q] = at[q] /\ failed'[q] = failed[q]
                                /\ tag'[q] = tag[q] /\ sha'[q] = sha[q]
                                /\ target'[q] = target[q]
      BY <1>1, <2>1
    <3> QED
      BY <1>1, <3>1, <3>2, <3>3, <3>4
  <2>2. CASE foreign
    BY <1>1, <1>2, <2>2
  <2>3. CASE refused
    BY <1>1, <1>2, <2>3
  <2> QED
    BY <1>2, <2>1, <2>2, <2>3
<1>5. IndexFromRuns' /\ WheelOwnsRelease'
  BY <1>1, <1>2, <1>3, FilesInv DEF PublishInv, TypeOK
<1> QED
  BY <1>3, <1>4, <1>5 DEF PublishInv

\* The other jobs and the failures move a run on within its identity: its tag
\* and outputs stay, and it is built only after its gate.
LEMMA MoveInv ==
  ASSUME PublishInv, NEW r \in Runs, NEW s \in Steps, NEW b \in BOOLEAN,
         at' = [at EXCEPT ![r] = s], failed' = [failed EXCEPT ![r] = b],
         at[r] # "idle", s \in Verified => at[r] \in Verified,
         s \in Built => Gate(target[r], sha[r]),
         b => s \in {"validate", "build", "publish"},
         UNCHANGED <<refs, request, outputs>>, failures' \in 0 .. MaxFailures
  PROVE  RunsVerified' /\ TagsPointed' /\ (index' = index => TypeOK')
<1> USE DEF refs, request, outputs
<1>1. TagsPointed'
  BY DEF PublishInv, TagsPointed
<1>2. RunsVerified'
  BY DEF PublishInv, TypeOK, RunsVerified, ReleaseOf, Gate
<1>3. index' = index => TypeOK'
  BY DEF PublishInv, TypeOK
<1> QED
  BY <1>1, <1>2, <1>3

\* A step of run r short of its uploads, or undoing them.
LEMMA QuietMoveInv ==
  ASSUME PublishInv, NEW r \in Runs, NEW s \in Steps, NEW b \in BOOLEAN,
         at' = [at EXCEPT ![r] = s], failed' = [failed EXCEPT ![r] = b],
         at[r] # "idle", s \in Verified => at[r] \in Verified,
         at[r] \in Built => s \in Built,
         s \in Built => Gate(target[r], sha[r]),
         b => s \in {"validate", "build", "publish"},
         s \in {"sdist", "published"} => s = at[r],
         UNCHANGED <<refs, request, outputs, index>>, failures' \in 0 .. MaxFailures
  PROVE  PublishInv'
<1>1. TypeOK' /\ RunsVerified' /\ TagsPointed'
  BY MoveInv
<1>2. IndexFromRuns' /\ WheelOwnsRelease'
  BY <1>1, FilesInv DEF PublishInv, TypeOK, outputs
<1> QED
  BY <1>1, <1>2 DEF PublishInv

LEMMA BuildInv ==
  ASSUME PublishInv, NEW r \in Runs, Build(r)
  PROVE  PublishInv'
<1>1. \/ /\ at' = [at EXCEPT ![r] = "publish"] /\ failed' = [failed EXCEPT ![r] = FALSE]
         /\ Gate(target[r], sha[r])
      \/ at' = [at EXCEPT ![r] = "build"] /\ failed' = [failed EXCEPT ![r] = TRUE]
  BY DEF Build, Advance, FailJob, PublishInv, TypeOK
<1>2. /\ at[r] = "build" /\ UNCHANGED <<refs, request, outputs, index>>
      /\ failures' \in 0 .. MaxFailures
  BY DEF Build, PublishInv, TypeOK
<1> QED
  BY <1>1, <1>2, QuietMoveInv

LEMMA RecheckInv ==
  ASSUME PublishInv, NEW r \in Runs, Recheck(r)
  PROVE  PublishInv'
<1>1. \/ at' = [at EXCEPT ![r] = "wheel"] /\ failed' = [failed EXCEPT ![r] = FALSE]
      \/ at' = [at EXCEPT ![r] = "publish"] /\ failed' = [failed EXCEPT ![r] = TRUE]
  BY DEF Recheck, Advance, FailJob, PublishInv, TypeOK
<1>2. /\ at[r] = "publish" /\ UNCHANGED <<refs, request, outputs, index>>
      /\ failures' \in 0 .. MaxFailures
  BY DEF Recheck, PublishInv, TypeOK
<1>3. Gate(target[r], sha[r])
  BY <1>2 DEF PublishInv, RunsVerified
<1> QED
  BY <1>1, <1>2, <1>3, QuietMoveInv

LEMMA JobDiesInv ==
  ASSUME PublishInv, NEW r \in Runs, JobDies(r)
  PROVE  PublishInv'
<1>1. /\ UNCHANGED <<refs, request, outputs, index>> /\ failures' \in 0 .. MaxFailures
      /\ failed' = [failed EXCEPT ![r] = TRUE]
  BY ConstantsOK DEF JobDies, FailJob, FailUpload, PublishInv, TypeOK
<1>2. \/ at[r] \in {"validate", "build", "publish"} /\ at' = [at EXCEPT ![r] = at[r]]
      \/ at[r] \in Files /\ at' = [at EXCEPT ![r] = "publish"]
  BY DEF JobDies, FailJob, FailUpload, PublishInv, TypeOK
<1>3. at[r] \in Built => Gate(target[r], sha[r])
  BY DEF PublishInv, RunsVerified
<1> QED
  BY <1>1, <1>2, <1>3, QuietMoveInv

LEMMA RerunInv ==
  ASSUME PublishInv, NEW r \in Runs, RerunFailed(r)
  PROVE  PublishInv'
<1>1. /\ UNCHANGED <<refs, request, outputs, index>> /\ failures' \in 0 .. MaxFailures
      /\ failed' = [failed EXCEPT ![r] = FALSE] /\ at' = [at EXCEPT ![r] = at[r]]
  BY DEF RerunFailed, PublishInv, TypeOK
<1>2. at[r] \in {"validate", "build", "publish"}
  BY DEF RerunFailed, PublishInv, RunsVerified
<1>3. at[r] \in Built => Gate(target[r], sha[r])
  BY DEF PublishInv, RunsVerified
<1> QED
  BY <1>1, <1>2, <1>3, QuietMoveInv

\* An accepted upload.  The wheel is replaced by nothing but itself, so a run
\* that has gone on to the sdist keeps its wheel whatever other runs upload.
LEMMA PutInv ==
  ASSUME PublishInv, NEW r \in Runs, NEW f \in Files, NEW s \in Steps, NEW b \in BOOLEAN,
         at[r] = f, Accepts(index[ReleaseOf(r)][f], BuildOf(r)),
         Put(ReleaseOf(r), f, BuildOf(r)),
         at' = [at EXCEPT ![r] = s], failed' = [failed EXCEPT ![r] = b],
         s \in {"publish", After(f)}, b => s = "publish",
         UNCHANGED <<refs, request, outputs>>, failures' \in 0 .. MaxFailures
  PROVE  PublishInv'
<1> DEFINE rel == ReleaseOf(r)
           build == BuildOf(r)
<1>1. at[r] \in Built /\ s \in Built
  BY DEF After
<1>2. rel \in Releases /\ build \in Builds /\ build # Unbound
  <2>1. target[r] \in Packages /\ sha[r] \in Commits
    BY <1>1 DEF PublishInv, TypeOK, RunsVerified
  <2> QED
    BY <2>1, ConstantsOK DEF ReleaseOf, BuildOf, Builds
<1>3. \A q \in Runs : BuildOf(q)' = BuildOf(q) /\ ReleaseOf(q)' = ReleaseOf(q)
  BY DEF BuildOf, ReleaseOf, outputs
<1>4. Gate(target[r], sha[r])
  BY <1>1 DEF PublishInv, RunsVerified
<1>5. RunsVerified' /\ TagsPointed'
  BY <1>1, <1>4, MoveInv
<1>6. \A other \in Releases, g \in Files :
        index'[other][g] = IF other = rel /\ g = f THEN build ELSE index[other][g]
  <2>1. index \in [Releases -> [Files -> Builds \cup {Unbound}]]
    BY DEF PublishInv, TypeOK
  <2>2. index' = [index EXCEPT ![rel] = [@ EXCEPT ![f] = build]]
    BY DEF Put
  <2> HIDE DEF rel, build, Releases, Files
  <2> QED
    BY <1>2, <2>1, <2>2
<1>7. TypeOK'
  <2>1. index' \in [Releases -> [Files -> Builds \cup {Unbound}]]
    <3>1. index \in [Releases -> [Files -> Builds \cup {Unbound}]]
      BY DEF PublishInv, TypeOK
    <3>2. index' = [index EXCEPT ![rel] = [@ EXCEPT ![f] = build]]
      BY DEF Put
    <3> HIDE DEF rel, build, Releases, Files
    <3> QED
      BY <1>2, <3>1, <3>2
  <2> QED
    BY <2>1 DEF PublishInv, TypeOK, refs, request, outputs
<1>8. IndexFromRuns'
  <2> SUFFICES ASSUME NEW other \in Releases, NEW g \in Files, index'[other][g] # Unbound,
                      NEW q, q = index'[other][g].run
               PROVE  /\ at'[q] \in Built
                      /\ index'[other][g] = BuildOf(q)'
                      /\ other = ReleaseOf(q)'
    BY DEF IndexFromRuns, Uploaded
  <2>1. CASE other = rel /\ g = f
    <3>1. index'[other][g] = build /\ q = r
      BY <1>6, <2>1 DEF BuildOf
    <3> QED
      BY <1>1, <1>3, <2>1, <3>1 DEF PublishInv, TypeOK
  <2>2. CASE ~(other = rel /\ g = f)
    <3>1. index'[other][g] = index[other][g]
      BY <1>6, <2>2
    <3>2. at[q] \in Built /\ index[other][g] = BuildOf(q) /\ other = ReleaseOf(q)
      BY <3>1 DEF PublishInv, IndexFromRuns, Uploaded
    <3>3. q \in Runs
      <4>1. index \in [Releases -> [Files -> Builds \cup {Unbound}]]
        BY DEF PublishInv, TypeOK
      <4>2. index[other][g] # Unbound
        BY <3>1
      <4>3. index[other][g] \in Builds
        <5> HIDE DEF Releases, Files
        <5> QED
          BY <4>1, <4>2
      <4> QED
        BY <4>3, <3>1 DEF Builds
    <3> QED
      BY <1>1, <1>3, <3>1, <3>2, <3>3 DEF PublishInv, TypeOK
  <2> QED
    BY <2>1, <2>2
<1>9. WheelOwnsRelease'
  <2>1. \A q \in Runs : at[q] \in {"sdist", "published"} =>
          ReleaseOf(q) \in Releases /\ BuildOf(q) # Unbound
    <3> SUFFICES ASSUME NEW q \in Runs, at[q] \in {"sdist", "published"}
                 PROVE  ReleaseOf(q) \in Releases /\ BuildOf(q) # Unbound
      OBVIOUS
    <3>1. target[q] \in Packages /\ sha[q] \in Commits
      BY DEF PublishInv, TypeOK, RunsVerified
    <3> QED
      BY <3>1, ConstantsOK DEF ReleaseOf, BuildOf, Builds
  <2>2. index[rel][f] \in {Unbound, build}
    BY DEF Accepts
  <2>3. \A q \in Runs : at'[q] = IF q = r THEN s ELSE at[q]
    BY DEF PublishInv, TypeOK
  <2>4. WheelOwnsRelease
    BY DEF PublishInv
  <2>5. s = "sdist" => f = "wheel"
    BY DEF After
  <2>6. s = "published" => f = "sdist"
    BY DEF After
  <2>7. \A other \in Releases :
          index'[other]["sdist"] # Unbound => index'[other]["wheel"] = index'[other]["sdist"]
    BY <1>2, <1>6, <2>2, <2>4 DEF WheelOwnsRelease
  <2>8. \A q \in Runs :
          /\ at'[q] \in {"sdist", "published"} => index'[ReleaseOf(q)]["wheel"] = BuildOf(q)
          /\ at'[q] = "published" => index'[ReleaseOf(q)]["sdist"] = BuildOf(q)
    <3> SUFFICES ASSUME NEW q \in Runs
                 PROVE  /\ at'[q] \in {"sdist", "published"} =>
                              index'[ReleaseOf(q)]["wheel"] = BuildOf(q)
                        /\ at'[q] = "published" => index'[ReleaseOf(q)]["sdist"] = BuildOf(q)
      OBVIOUS
    <3>1. CASE q = r
      BY <1>2, <1>6, <2>2, <2>3, <2>4, <2>5, <2>6, <3>1 DEF WheelOwnsRelease
    <3>2. CASE q # r
      BY <1>6, <2>1, <2>2, <2>3, <2>4, <3>2 DEF WheelOwnsRelease
    <3> QED
      BY <3>1, <3>2
  <2> QED
    BY <1>3, <2>7, <2>8 DEF WheelOwnsRelease
<1> QED
  BY <1>5, <1>7, <1>8, <1>9 DEF PublishInv

LEMMA UploadInv ==
  ASSUME PublishInv, NEW r \in Runs, NEW f \in Files, Upload(r, f)
  PROVE  PublishInv'
<1>1. /\ at[r] = f /\ UNCHANGED <<refs, request, outputs>>
      /\ failures' \in 0 .. MaxFailures
      /\ After(f) \in Steps
  BY DEF Upload, After, PublishInv, TypeOK
<1>2. ~failed[r] /\ Gate(target[r], sha[r])
  BY <1>1 DEF PublishInv, TypeOK, RunsVerified
<1>3. CASE Accepts(index[ReleaseOf(r)][f], BuildOf(r))
  <2>1. Put(ReleaseOf(r), f, BuildOf(r)) /\ at' = [at EXCEPT ![r] = After(f)]
    BY <1>3 DEF Upload, Advance
  <2>2. failed' = [failed EXCEPT ![r] = FALSE]
    BY <1>2, <1>3 DEF Upload, Advance, PublishInv, TypeOK
  <2> QED
    BY <1>1, <1>3, <2>1, <2>2, PutInv
<1>4. CASE ~Accepts(index[ReleaseOf(r)][f], BuildOf(r))
  <2>1. index' = index /\ at' = [at EXCEPT ![r] = "publish"]
        /\ failed' = [failed EXCEPT ![r] = TRUE]
    BY <1>4 DEF Upload, FailUpload
  <2> QED
    BY <1>1, <1>2, <2>1, QuietMoveInv
<1> QED
  BY <1>3, <1>4

LEMMA ReplyLostInv ==
  ASSUME PublishInv, NEW r \in Runs, NEW f \in Files, ReplyLost(r, f)
  PROVE  PublishInv'
<1>1. failures' \in 0 .. MaxFailures
  BY ConstantsOK DEF ReplyLost, PublishInv, TypeOK
<1> QED
  BY <1>1, PutInv DEF ReplyLost, FailUpload

LEMMA NextInv == PublishInv /\ [Next]_vars => PublishInv'
<1> SUFFICES ASSUME PublishInv, [Next]_vars PROVE PublishInv'
  OBVIOUS
<1>1. CASE UNCHANGED vars
  BY <1>1 DEF vars, refs, jobs, request, outputs, PublishInv, TypeOK, TagsPointed,
              RunsVerified, IndexFromRuns, WheelOwnsRelease, Uploaded, BuildOf,
              ReleaseOf, Gate
<1>2. CASE \E r \in Runs, t \in Tags, e \in Events : Request(r, t, e)
  BY <1>2, RequestInv
<1>3. ASSUME NEW r \in Runs,
             \/ Validate(r) \/ Build(r) \/ Recheck(r)
             \/ \E f \in Files : Upload(r, f) \/ ReplyLost(r, f)
             \/ JobDies(r) \/ RerunFailed(r)
      PROVE  PublishInv'
  BY <1>3, ValidateInv, BuildInv, RecheckInv, UploadInv, ReplyLostInv, JobDiesInv,
     RerunInv
<1> QED
  BY <1>1, <1>2, <1>3, RefsInv DEF Next

\* In every behaviour of the workflow, a built run keeps what it verified, a
\* file in the index names the verified run it is of, and the wheel of a
\* release belongs to the only build that may add its sdist.
THEOREM Invariance == Spec => []PublishInv
<1>1. Init => PublishInv
  BY InitInv
<1>2. PublishInv /\ [Next]_vars => PublishInv'
  BY NextInv
<1> QED
  BY <1>1, <1>2, PTL DEF Spec

\* Every variable keeps its type.
THEOREM TypeCorrect == Spec => []TypeOK
<1>1. PublishInv => TypeOK
  BY DEF PublishInv
<1> QED
  BY <1>1, Invariance, PTL

-----------------------------------------------------------------------------
(* The safety properties follow from the invariant.                        *)

\* Only the run whose wheel is in the index uploads the sdist, so no release
\* mixes the files of two builds, however many runs publish it.
THEOREM ReleasesAreWhole == Spec => []OneBuildPerRelease
<1>1. PublishInv => OneBuildPerRelease
  BY DEF PublishInv, WheelOwnsRelease, OneBuildPerRelease, Uploaded
<1> QED
  BY <1>1, Invariance, PTL

\* A run that reports success has both of its own files in the index, and
\* keeps them there.
THEOREM SuccessIsOwnBuild == Spec => []SuccessMeansOwnFiles
<1>1. PublishInv => SuccessMeansOwnFiles
  BY DEF PublishInv, WheelOwnsRelease, SuccessMeansOwnFiles
<1> QED
  BY <1>1, Invariance, PTL

\* A run that has built holds a commit that its tag vouches for, and that is
\* fit to be the release it publishes.
LEMMA BuiltIsVerified ==
  ASSUME PublishInv, NEW r \in Runs, at[r] \in Built
  PROVE  sha[r] \in Vouched(ReleaseOf(r)) /\ Fit(ReleaseOf(r), sha[r])
<1>1. /\ tag[r] \in Tags /\ sha[r] \in pointed[tag[r]] /\ Names[tag[r]] = ReleaseOf(r)
      /\ sha[r] \in Commits /\ Gate(target[r], sha[r])
  BY DEF PublishInv, TypeOK, RunsVerified
<1> QED
  BY <1>1 DEF Vouched, Fit, Gate, ReleaseOf

\* Every file in the index is of the build of such a run.
LEMMA UploadedIsVerified ==
  ASSUME PublishInv, NEW rel \in Releases, NEW f \in Files, index[rel][f] # Unbound
  PROVE  index[rel][f].commit \in Vouched(rel) /\ Fit(rel, index[rel][f].commit)
<1> DEFINE r == index[rel][f].run
<1>1. index[rel][f] \in Builds
  <2>1. index \in [Releases -> [Files -> Builds \cup {Unbound}]]
    BY DEF PublishInv, TypeOK
  <2> HIDE DEF Releases, Files
  <2> QED
    BY <2>1
<1>2. r \in Runs
  BY <1>1 DEF Builds
<1>3. at[r] \in Built /\ index[rel][f] = BuildOf(r) /\ rel = ReleaseOf(r)
  BY DEF PublishInv, IndexFromRuns, Uploaded
<1> HIDE DEF r
<1>4. index[rel][f].commit = sha[r]
  BY <1>3 DEF BuildOf
<1> QED
  BY <1>2, <1>3, <1>4, BuiltIsVerified

\* Whatever people do to tags and branches while runs are in flight, each
\* file downloaded as a release was built from a commit that a tag naming the
\* release has pointed at and that passes the release's gate.
THEOREM PublishedIsVerified == Spec => []PublishedFromVerifiedTag
<1>1. PublishInv => PublishedFromVerifiedTag
  BY UploadedIsVerified DEF PublishedFromVerifiedTag, Uploaded
<1> QED
  BY <1>1, Invariance, PTL

-----------------------------------------------------------------------------
(* Publish implements ReleaseIdentity.                                     *)

LEMMA InitRefines == Init => Identity!Init
<1> SUFFICES ASSUME Init PROVE Identity!Init
  OBVIOUS
<1>1. \A rel \in Releases : Vouched(rel) = {} /\ Uploaded(rel) = {}
  BY DEF Init, Vouched, Uploaded
<1>2. \A rel \in Releases : index[rel]["wheel"] = Unbound
  BY DEF Init
<1> HIDE DEF Releases
<1> QED
  BY <1>1, <1>2 DEF Identity!Init

\* A reference update vouches for more, and binds nothing.
LEMMA RefsRefine ==
  ASSUME PublishInv, PublishInv',
         \/ \E t \in Tags, c \in Commits : PushTag(t, c)
         \/ \E t \in Tags : DeleteTag(t)
         \/ \E t \in BranchNames, c \in Commits \cup {Unbound} : PushBranch(t, c)
  PROVE  Identity!Vouch
<1>1. index' = index /\ \A t \in Tags : pointed[t] \subseteq pointed'[t]
  BY DEF PushTag, DeleteTag, PushBranch, PublishInv, TypeOK
<1>2. \A rel \in Releases : Vouched(rel) \subseteq Vouched(rel)'
  BY <1>1 DEF Vouched
<1>3. \A rel \in Releases : Vouched(rel)' \subseteq Commits
  BY DEF Vouched
<1>4. \A rel \in Releases : Uploaded(rel)' = Uploaded(rel)
  BY <1>1 DEF Uploaded
<1> HIDE DEF Releases
<1> QED
  BY <1>1, <1>2, <1>3, <1>4 DEF Identity!Vouch

\* An accepted upload binds the release, completes it, or repeats itself.
LEMMA PutRefines ==
  ASSUME PublishInv, PublishInv', NEW r \in Runs, NEW f \in Files,
         at[r] = f, Accepts(index[ReleaseOf(r)][f], BuildOf(r)),
         Put(ReleaseOf(r), f, BuildOf(r)), pointed' = pointed
  PROVE  Identity!Next \/ UNCHANGED Identity!vars
<1> DEFINE rel == ReleaseOf(r)
           build == BuildOf(r)
<1>1. rel \in Releases /\ build \in Builds /\ build # Unbound
  <2>1. target[r] \in Packages /\ sha[r] \in Commits
    BY DEF PublishInv, TypeOK, RunsVerified
  <2> QED
    BY <2>1, ConstantsOK DEF ReleaseOf, BuildOf, Builds
<1>2. \A other \in Releases, g \in Files :
        index'[other][g] = IF other = rel /\ g = f THEN build ELSE index[other][g]
  <2>1. index \in [Releases -> [Files -> Builds \cup {Unbound}]]
    BY DEF PublishInv, TypeOK
  <2>2. index' = [index EXCEPT ![rel] = [@ EXCEPT ![f] = build]]
    BY DEF Put
  <2> HIDE DEF rel, build, Releases, Files
  <2> QED
    BY <1>1, <2>1, <2>2
<1>3. index[rel][f] \in {Unbound, build}
  BY DEF Accepts
<1>4. /\ index[rel]["sdist"] # Unbound => index[rel]["wheel"] = index[rel]["sdist"]
      /\ f = "sdist" => index[rel]["wheel"] = build
  BY <1>1 DEF PublishInv, WheelOwnsRelease
<1>5. \A other \in Releases : Vouched(other)' = Vouched(other)
  BY DEF Vouched
<1>6. \A other \in Releases : Uploaded(other)' =
        IF other = rel THEN Uploaded(rel) \cup {f} ELSE Uploaded(other)
  BY <1>1, <1>2 DEF Uploaded
<1>7. CASE f = "wheel" /\ index[rel][f] = Unbound
  <2>1. Uploaded(rel) = {}
    BY <1>4, <1>7 DEF Uploaded
  <2>2. build.commit \in Vouched(rel) /\ Fit(rel, build.commit)
    BY BuiltIsVerified DEF BuildOf
  <2>3. \A other \in Releases :
          index'[other]["wheel"] = IF other = rel THEN build ELSE index[other]["wheel"]
    BY <1>2, <1>7
  <2>4. \A other \in Releases :
          Uploaded(other)' = IF other = rel THEN {f} ELSE Uploaded(other)
    BY <1>6, <2>1
  <2>5. Identity!Bind(rel, build, f)
    <3> HIDE DEF rel, build, Releases, Files
    <3> QED
      BY <1>1, <1>5, <1>7, <2>2, <2>3, <2>4 DEF Identity!Bind
  <2> QED
    BY <1>1, <2>5 DEF Identity!Next
<1>8. CASE ~(f = "wheel" /\ index[rel][f] = Unbound)
  <2>1. \A other \in Releases : index'[other]["wheel"] = index[other]["wheel"]
    BY <1>1, <1>2, <1>3, <1>8
  <2>2. index[rel]["wheel"] # Unbound
    BY <1>1, <1>3, <1>4, <1>8
  <2>3. Identity!Attach(rel, f)
    <3> HIDE DEF rel, build, Releases, Files
    <3> QED
      BY <1>1, <1>5, <1>6, <2>1, <2>2 DEF Identity!Attach
  <2> QED
    BY <1>1, <2>3 DEF Identity!Next
<1> QED
  BY <1>7, <1>8

LEMMA StepRefines ==
  PublishInv /\ PublishInv' /\ [Next]_vars => [Identity!Next]_Identity!vars
<1> SUFFICES ASSUME PublishInv, PublishInv', [Next]_vars
             PROVE  Identity!Next \/ UNCHANGED Identity!vars
  BY DEF Identity!vars
<1>1. index' = index /\ pointed' = pointed => UNCHANGED Identity!vars
  BY DEF Identity!vars, Vouched, Uploaded
<1>2. CASE UNCHANGED vars
  BY <1>1, <1>2 DEF vars, refs
<1>3. CASE \E r \in Runs, t \in Tags, e \in Events : Request(r, t, e)
  BY <1>1, <1>3 DEF Request, refs
<1>4. ASSUME NEW r \in Runs,
             Validate(r) \/ Build(r) \/ Recheck(r) \/ JobDies(r) \/ RerunFailed(r)
      PROVE  Identity!Next \/ UNCHANGED Identity!vars
  BY <1>1, <1>4 DEF Validate, Build, Recheck, JobDies, RerunFailed, refs
<1>5. ASSUME NEW r \in Runs, NEW f \in Files, Upload(r, f) \/ ReplyLost(r, f)
      PROVE  Identity!Next \/ UNCHANGED Identity!vars
  <2>1. pointed' = pointed /\ at[r] = f
    BY <1>5 DEF Upload, ReplyLost, refs
  <2>2. \/ index' = index
        \/ /\ Accepts(index[ReleaseOf(r)][f], BuildOf(r))
           /\ Put(ReleaseOf(r), f, BuildOf(r))
    BY <1>5 DEF Upload, ReplyLost
  <2> QED
    BY <1>1, <2>1, <2>2, PutRefines
<1>6. CASE \/ \E t \in Tags, c \in Commits : PushTag(t, c)
           \/ \E t \in Tags : DeleteTag(t)
           \/ \E t \in BranchNames, c \in Commits \cup {Unbound} : PushBranch(t, c)
  BY <1>6, RefsRefine DEF Identity!Next
<1> QED
  BY <1>2, <1>3, <1>4, <1>5, <1>6 DEF Next

\* The workflow implements the immutable release identity: through races,
\* moved tags, dead runners and lost replies, a release is bound once, to one
\* fit and vouched-for build, and only completed after that.
THEOREM Refinement == Spec => ImplementsIdentity
<1>1. Init => Identity!Init
  BY InitRefines
<1>2. PublishInv /\ PublishInv' /\ [Next]_vars => [Identity!Next]_Identity!vars
  BY StepRefines
<1> QED
  BY <1>1, <1>2, Invariance, PTL DEF Spec, ImplementsIdentity, Identity!Spec
=============================================================================
