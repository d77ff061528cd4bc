----------------------------- MODULE Scoreboard -----------------------------
(***************************************************************************)
(* conformance/scoreboard.py under .github/workflows/scoreboard.yml: jobs  *)
(* that fetch and check what each registered sibling publishes, render the *)
(* table and the badges, and upload them.  Siblings change what they serve *)
(* at any time, an exception in the script or the loss of the runner ends  *)
(* a job, and the next one starts on a fresh checkout.                     *)
(*                                                                         *)
(* The siblings are numbered as conformance/siblings.yaml lists them; 0 is *)
(* this repository's own row.  A response is a record with a kind:         *)
(*   "bundle"      JSON that is an object, the field bundle                *)
(*   "other_json"  JSON that is neither an object nor null                 *)
(*   "null", "not_json", "oversized", "redirect", "unreachable"            *)
(*   "broken_off"  the connection breaks before the body has been read     *)
(*   "not_text"    bytes that do not decode in the encoding they announce  *)
(*   "extreme"     JSON nested too deeply, or a number too long, for json  *)
(***************************************************************************)
EXTENDS TraceBundle, Naturals

CONSTANTS
  N,           \* siblings
  Https,       \* the siblings registered with an https URL
  Responses,   \* Responses[s]: the responses sibling s may give
  KidsSayingVerified, KidsSayingUnsigned, \* kids with a note's words in them
  NoRow,
  Committed,   \* a file as the checkout has it
  MaxServes,   \* bound on changes of what is served
  MaxCrashes   \* bound on lost runners

Siblings == 1 .. N
Repos == 0 .. N

ASSUME BoundsOK == N \in Nat /\ MaxServes \in Nat /\ MaxCrashes \in Nat

VARIABLES
  served,    \* what each sibling serves
  seen,      \* history: what each has served since the job began
  at,        \* where the job stands: build, badges, done, failed; or idle
  next,      \* the next repo of the loop the job is in
  rows,      \* the rows built so far
  markdown,  \* docs/scoreboard.md in the workspace: its rows, or Committed
  badges,    \* docs/badges/<repo>.json there: a message, or Committed
  artifact,  \* the last upload: the table and the badges
  serves,    \* changes of what is served so far
  crashes    \* lost runners so far

hosts == <<served, seen, serves>>
files == <<markdown, badges>>
vars == <<hosts, at, next, rows, files, artifact, crashes>>

Rows == [status : {"pass", "fail", "not-submitted"},
         signature : {"verified", "unsigned", "skipped", "none"}]
Messages == {"v", "failing", "not submitted"}

ASSUME ValuesOK == Committed \notin [Repos -> Rows]

Checkout == [markdown |-> Committed, badges |-> [i \in Repos |-> Committed]]
NoRows == [i \in Repos |-> NoRow]

Init ==
  /\ served \in [Siblings -> UNION {Responses[s] : s \in Siblings}]
  /\ \A s \in Siblings : served[s] \in Responses[s]
  /\ seen = [s \in Siblings |-> {served[s]}]
  /\ at = "idle"
  /\ next = 0
  /\ rows = NoRows
  /\ markdown = Checkout.markdown
  /\ badges = Checkout.badges
  /\ artifact = Checkout
  /\ serves = 0
  /\ crashes = 0

\* A sibling publishes something else, or its host begins to fail.
Serve(s, x) ==
  /\ serves < MaxServes
  /\ served[s] # x
  /\ served' = [served EXCEPT ![s] = x]
  /\ seen' = [seen EXCEPT ![s] = @ \cup {x}]
  /\ serves' = serves + 1
  /\ UNCHANGED <<at, next, rows, files, artifact, crashes>>

-----------------------------------------------------------------------------
(* One row.                                                                *)

\* fetch_json lets an exception through: it catches what opening the URL raises
\* and JSONDecodeError, but neither a connection that breaks off later nor what
\* else json.loads raises, over bytes that do not decode, a nesting that is too
\* deep or a number that is too long.  (RaisesUnreachable catches nothing.)
Uncaught == {"broken_off", "not_text", "extreme"}
RaisesUnreachable(s, x) ==
  s \in Https /\ x.kind \in Uncaught \cup {"unreachable", "not_json"}
Raises(s, x) == s \in Https /\ x.kind \in Uncaught

\* It returns a payload; or else None, and null is None, too.
Fetched(s, x) == s \in Https /\ x.kind \in {"bundle", "other_json"}

\* (NoteAsStatus is a faulty variant of NotSubmitted.)
NoteAsStatus == [status |-> "unreachable", signature |-> "none"]
NotSubmitted == [status |-> "not-submitted", signature |-> "none"]

\* It looks for the words of each note in turn, and the note on an unknown kid
\* quotes the kid.
_signature_status(note, b) ==
  CASE note \in {"verified", "unsigned"} -> note
    [] note = "unknown kid" /\ b.signature.kid \in KidsSayingVerified -> "verified"
    [] note = "unknown kid" /\ b.signature.kid \in KidsSayingUnsigned \ KidsSayingVerified
         -> "unsigned"
    [] OTHER -> "skipped"

VerifiedRow(b) ==
  LET result == verify_external_bundle(b)
  IN  IF result.failures # {} THEN [status |-> "fail", signature |-> "none"]
      ELSE [status |-> "pass", signature |-> _signature_status(result.note, b)]

\* What is no object fails the trace_bundle schema.
sibling_row(s, x) ==
  CASE ~Fetched(s, x) -> NotSubmitted
    [] Fetched(s, x) /\ x.kind = "bundle" -> VerifiedRow(x.bundle)
    [] OTHER -> [status |-> "fail", signature |-> "none"]

\* The badge's message, from build_shields_endpoint or overridden.
Badge(row) ==
  CASE row.status = "pass" -> "v"
    [] row.status = "fail" -> "failing"
    [] OTHER -> "not submitted"

-----------------------------------------------------------------------------
(* A job.                                                                  *)

\* On schedule or on demand, on a fresh checkout.
StartJob ==
  /\ at \in {"idle", "done", "failed"}
  /\ at' = "build"
  /\ next' = 0
  /\ rows' = NoRows
  /\ markdown' = Checkout.markdown
  /\ badges' = Checkout.badges
  /\ seen' = [s \in Siblings |-> {served[s]}]
  /\ UNCHANGED <<served, serves, artifact, crashes>>

AddRow(row) ==
  /\ rows' = [rows EXCEPT ![next] = row]
  /\ next' = next + 1
  /\ UNCHANGED at

\* build: this repository against its own corpus, then each sibling.
SelfRow(status) ==
  /\ at = "build" /\ next = 0
  /\ AddRow([status |-> status, signature |-> "none"])
  /\ UNCHANGED <<hosts, files, artifact, crashes>>

SiblingRow ==
  /\ at = "build" /\ next \in Siblings
  /\ IF Raises(next, served[next])
     THEN at' = "failed" /\ UNCHANGED <<next, rows>>
     ELSE AddRow(sibling_row(next, served[next]))
  /\ UNCHANGED <<hosts, files, artifact, crashes>>

\* write_outputs: the table, then the badges one by one.
WriteMarkdown ==
  /\ at = "build" /\ next = N + 1
  /\ markdown' = rows
  /\ at' = "badges"
  /\ next' = 0
  /\ UNCHANGED <<hosts, rows, badges, artifact, crashes>>

WriteBadge ==
  /\ at = "badges" /\ next \in Repos
  /\ badges' = [badges EXCEPT ![next] = Badge(rows[next])]
  /\ next' = next + 1
  /\ UNCHANGED <<hosts, at, rows, markdown, artifact, crashes>>

\* The summary and the artifact, when the script has succeeded.  (UploadAlways
\* is the faulty variant with `if: always()`.)
Succeeded == at = "badges" /\ next = N + 1
UploadAlways ==
  /\ Succeeded \/ at = "failed"
  /\ artifact' = [markdown |-> markdown, badges |-> badges]
  /\ at' = "done"
  /\ UNCHANGED <<hosts, next, rows, files, crashes>>
Upload ==
  /\ Succeeded
  /\ artifact' = [markdown |-> markdown, badges |-> badges]
  /\ at' = "done"
  /\ UNCHANGED <<hosts, next, rows, files, crashes>>

Crash ==
  /\ crashes < MaxCrashes
  /\ at \in {"build", "badges"}
  /\ at' = "failed"
  /\ crashes' = crashes + 1
  /\ UNCHANGED <<hosts, next, rows, files, artifact>>

Job ==
  \/ StartJob
  \/ \E status \in {"pass", "fail"} : SelfRow(status)
  \/ SiblingRow \/ WriteMarkdown \/ WriteBadge \/ Upload

Next ==
  \/ \E s \in Siblings : \E x \in Responses[s] : Serve(s, x)
  \/ Job
  \/ Crash

Spec == Init /\ [][Next]_vars

\* The schedule starts a job every week, and a job runs to its end.
FairSpec == Spec /\ WF_vars(Job)

-----------------------------------------------------------------------------
(* What a row ought to say, whatever order the code checks things in.      *)

\* The bundle is well-formed and satisfies I-01 and I-02.
Conforms(b) ==
  /\ b.valid /\ b.canonical
  /\ \A f \in b.frames : f \cap FORBIDDEN_FRAME_KEYS = {}
  /\ \A d \in b.decisions : d \in b.traced

WellFormed(s) ==
  /\ s.alg \in {"ed25519", "es256"} /\ s.kid # "empty"
  /\ s.canonicalization \in {"JCS", "omitted"} /\ ~s.malformed

\* The key that the keyring has under the signature's kid signed this content.
Proven(b) ==
  LET entry == Keyring[b.signature.kid]
  IN  /\ CryptoInstalled /\ entry # NoEntry
      /\ entry.alg = b.signature.alg /\ entry.key = b.signature.key
      /\ b.signature.content = Content(b)

\* There is nothing at hand to prove the signature with.
Unprovable(s) ==
  \/ Keyring[s.kid] = NoEntry
  \/ ~CryptoInstalled /\ Keyring[s.kid].alg = s.alg

Provenance(b) ==
  CASE b.signature = Unsigned -> "unsigned"
    [] b.signature # Unsigned /\ ~WellFormed(b.signature) -> "refuted"
    [] OTHER -> IF Unprovable(b.signature) THEN "skipped"
                ELSE IF Proven(b) THEN "verified" ELSE "refuted"

\* No kid has the words of another note in it.
PlainKid(b) ==
  b.signature # Unsigned =>
    b.signature.kid \notin KidsSayingVerified \cup KidsSayingUnsigned
PlainKids ==
  \A s \in Siblings : \A x \in Responses[s] : x.kind = "bundle" => PlainKid(x.bundle)

Verdict(s, x) ==
  IF s \notin Https \/ x.kind \notin {"bundle", "other_json"}
  THEN [status |-> "not-submitted", signature |-> "none"]
  ELSE IF x.kind = "bundle" /\ Conforms(x.bundle) /\ Provenance(x.bundle) # "refuted"
  THEN [status |-> "pass", signature |-> Provenance(x.bundle)]
  ELSE [status |-> "fail", signature |-> "none"]

-----------------------------------------------------------------------------
(* Properties.                                                             *)

\* Every variable keeps its type.
TypeOK ==
  /\ served \in [Siblings -> UNION {Responses[s] : s \in Siblings}]
  /\ seen \in [Siblings -> SUBSET UNION {Responses[s] : s \in Siblings}]
  /\ \A s \in Siblings : served[s] \in seen[s] /\ seen[s] \subseteq Responses[s]
  /\ at \in {"idle", "build", "badges", "done", "failed"}
  /\ next \in 0 .. N + 1
  /\ rows \in [Repos -> Rows \cup {NoRow}]
  /\ markdown \in [Repos -> Rows] \cup {Committed}
  /\ badges \in [Repos -> Messages \cup {Committed}]
  /\ artifact \in [markdown : [Repos -> Rows] \cup {Committed},
                   badges : [Repos -> Messages \cup {Committed}]]
  /\ serves \in 0 .. MaxServes /\ crashes \in 0 .. MaxCrashes

\* The badges uploaded with a table say what the table says, although they are
\* written after it one at a time and a job may end in between: the badge and
\* the scoreboard can never disagree.
BadgesAgree ==
  \/ artifact = Checkout
  \/ \A i \in Repos : artifact.badges[i] = Badge(artifact.markdown[i])

\* A published row is the true verdict on something the sibling served while
\* that table was made, if kids are plain: no other sibling, no earlier job, no fault of a host
\* and no tampered bundle makes it say anything else.
Published(s) ==
  IF artifact.markdown = Committed THEN NoRow ELSE artifact.markdown[s]
Report == INSTANCE ScoreboardReport WITH
  report <- [s \in Siblings |-> Published(s)],
  NoReport <- NoRow
ImplementsReport == Report!Spec

\* A sibling that keeps serving a conforming bundle is shown as passing in the
\* end, provided no host keeps breaking off or sending what json.loads raises for.
Passing(s) == Verdict(s, served[s]).status = "pass"
Readable(s) == served[s].kind \notin Uncaught
ConformingIsShown ==
  \A s \in Siblings :
    (<>[](Passing(s) /\ \A t \in Siblings : Readable(t))) =>
      <>[](Published(s) # NoRow /\ Published(s).status = "pass")

-----------------------------------------------------------------------------
(* The inductive invariant behind the safety properties.                   *)

\* The rows built so far are of responses seen since the job began; when they
\* are written, the table and the badges written so far are of those rows.
RowsAreSeen ==
  \A s \in Siblings :
    (at = "build" /\ s < next) \/ at = "badges" =>
      \E x \in seen[s] : ~Raises(s, x) /\ rows[s] = sibling_row(s, x)

FilesAreOfRows ==
  /\ at = "build" => \A i \in Repos : i < next => rows[i] \in Rows
  /\ at = "badges" =>
       /\ rows \in [Repos -> Rows]
       /\ markdown = rows
       /\ \A i \in Repos : i < next => badges[i] = Badge(rows[i])

ScoreboardInv == TypeOK /\ RowsAreSeen /\ FilesAreOfRows /\ BadgesAgree

-----------------------------------------------------------------------------
(* What the script says of itself and does not do.                         *)

\* scoreboard.py:15-17, an unreachable sibling is recorded as not-submitted,
\* never as a failure, and the workflow stays green: only the loss of the
\* runner ends a job.
StaysGreen == at = "failed" => crashes > 0

\* scoreboard.py:122-124, a row never implies that provenance was verified when
\* that check was skipped: behind each verified row there is a bundle that the
\* sibling served during the job and that is proven.
VerifiedIsProven ==
  at = "done" =>
    \A s \in Siblings : rows[s].signature = "verified" =>
      \E x \in seen[s] :
        x.kind = "bundle" /\ x.bundle.signature # Unsigned /\ Proven(x.bundle)
=============================================================================
