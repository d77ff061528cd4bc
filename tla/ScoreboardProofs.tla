-------------------------- MODULE ScoreboardProofs --------------------------
(***************************************************************************)
(* Proofs about Scoreboard, for any number of siblings, any responses, any *)
(* keyring and any bounds.  The pipeline of checks computes the verdict,   *)
(* ScoreboardInv is inductive, and Scoreboard implements ScoreboardReport. *)
(***************************************************************************)
EXTENDS Scoreboard, TLAPS

-----------------------------------------------------------------------------
(* The checks of run.py, in their order, compute the verdict.              *)

LEMMA EnvelopeIsWellFormed ==
  ASSUME NEW s
  PROVE  EnvelopeErrors(s) = {} <=> WellFormed(s)
BY DEF EnvelopeErrors, WellFormed, SIGNATURE_ALG_REGISTRY

\* The checks of a signature in an envelope that is well-formed.
LEMMA SignatureIsProvenance ==
  ASSUME NEW b, b.signature # Unsigned, WellFormed(b.signature)
  PROVE  LET check == CheckSignature(b, b.signature, Keyring[b.signature.kid])
         IN  /\ Provenance(b) = "refuted" => check.errors # {}
             /\ Provenance(b) = "verified" => check = Passed("verified")
             /\ Provenance(b) = "skipped" => \/ check = Passed("unknown kid")
                                             \/ check = Passed("no crypto")
             /\ Provenance(b) \in {"refuted", "verified", "skipped"}
<1> DEFINE s == b.signature
           entry == Keyring[s.kid]
           check == CheckSignature(b, s, entry)
<1>1. EnvelopeErrors(s) = {}
  BY EnvelopeIsWellFormed
<1>2. Provenance(b) = IF Unprovable(s) THEN "skipped"
                      ELSE IF Proven(b) THEN "verified" ELSE "refuted"
  BY DEF Provenance
<1>3. CASE entry = NoEntry
  <2>1. check = Passed("unknown kid") /\ Unprovable(s)
    BY <1>1, <1>3 DEF CheckSignature, Unprovable
  <2> QED
    BY <1>2, <2>1
<1>4. CASE entry # NoEntry
  <2>1. check = IF entry.alg # s.alg THEN Failed({"key alg"})
                ELSE IF ~CryptoInstalled THEN Passed("no crypto")
                ELSE IF SignedContent(entry.key, b) THEN Passed("verified")
                ELSE Failed({"signature"})
    BY <1>1, <1>4 DEF CheckSignature
  <2>2. Failed({"key alg"}).errors # {} /\ Failed({"signature"}).errors # {}
    BY DEF Failed
  <2>3. Proven(b) <=> CryptoInstalled /\ entry.alg = s.alg /\ SignedContent(entry.key, b)
    BY <1>4 DEF Proven, SignedContent
  <2>4. Unprovable(s) <=> ~CryptoInstalled /\ entry.alg = s.alg
    BY <1>4 DEF Unprovable
  <2> QED
    BY <1>2, <2>1, <2>2, <2>3, <2>4
<1> QED
  BY <1>3, <1>4

\* On a bundle that can be serialised and whose envelope is well-formed, the
\* integrity check finds an error if the bundle's provenance is refuted, and
\* otherwise leaves a note that tells the provenance, unless the kid misleads.
LEMMA IntegrityIsProvenance ==
  ASSUME NEW b, b.canonical, b.signature = Unsigned \/ WellFormed(b.signature)
  PROVE  LET integrity == check_trace_bundle(b)
         IN  /\ Provenance(b) = "refuted" => integrity.errors # {}
             /\ Provenance(b) # "refuted" => integrity.errors = {}
             /\ Provenance(b) # "refuted" /\ PlainKid(b) =>
                  _signature_status(integrity.note, b) = Provenance(b)
<1>1. CASE b.signature = Unsigned
  <2>1. check_trace_bundle(b) = Passed("unsigned") /\ Provenance(b) = "unsigned"
    BY <1>1 DEF check_trace_bundle, Provenance
  <2> QED
    BY <2>1 DEF Passed, _signature_status
<1>2. CASE b.signature # Unsigned
  <2>1. check_trace_bundle(b) = CheckSignature(b, b.signature, Keyring[b.signature.kid])
    BY <1>2 DEF check_trace_bundle
  <2>2. PlainKid(b) => b.signature.kid \notin KidsSayingVerified \cup KidsSayingUnsigned
    BY <1>2 DEF PlainKid
  <2>3. /\ Passed("verified").errors = {} /\ Passed("verified").note = "verified"
        /\ Passed("unknown kid").errors = {} /\ Passed("unknown kid").note = "unknown kid"
        /\ Passed("no crypto").errors = {} /\ Passed("no crypto").note = "no crypto"
    BY DEF Passed
  <2>4. /\ _signature_status("verified", b) = "verified"
        /\ PlainKid(b) => _signature_status("unknown kid", b) = "skipped"
        /\ _signature_status("no crypto", b) = "skipped"
    BY <2>2 DEF _signature_status
  <2> QED
    BY <1>2, <2>1, <2>3, <2>4, SignatureIsProvenance
<1> QED
  BY <1>1, <1>2

LEMMA ExternalIsVerdict ==
  ASSUME NEW b, PlainKid(b)
  PROVE  VerifiedRow(b) =
           IF Conforms(b) /\ Provenance(b) # "refuted"
           THEN [status |-> "pass", signature |-> Provenance(b)]
           ELSE [status |-> "fail", signature |-> "none"]
<1> DEFINE result == verify_external_bundle(b)
           integrity == check_trace_bundle(b)
<1>1. CASE ~SchemaValid(b)
  <2>1. result.failures # {}
    BY <1>1 DEF verify_external_bundle
  <2>2. ~(Conforms(b) /\ Provenance(b) # "refuted")
    BY <1>1, EnvelopeIsWellFormed DEF SchemaValid, Conforms, Provenance
  <2> QED
    BY <2>1, <2>2 DEF VerifiedRow
<1>2. CASE SchemaValid(b)
  <2>1. /\ b.valid
        /\ b.signature = Unsigned \/ WellFormed(b.signature)
    BY <1>2, EnvelopeIsWellFormed DEF SchemaValid
  <2>2. result = [failures |-> integrity.errors
                    \cup {e \in {"I-01"} : frames_have_no_raw_output(b) # {}}
                    \cup {e \in {"I-02"} : policy_decisions_are_traced(b) # {}},
                  note |-> integrity.note]
    BY <1>2 DEF verify_external_bundle
  <2>3. Conforms(b) <=> /\ b.canonical
                        /\ frames_have_no_raw_output(b) = {}
                        /\ policy_decisions_are_traced(b) = {}
    BY <2>1 DEF Conforms, frames_have_no_raw_output, policy_decisions_are_traced
  <2>4. CASE ~b.canonical
    <3>1. integrity.errors # {}
      BY <2>4 DEF check_trace_bundle, Failed
    <3> QED
      BY <2>2, <2>3, <2>4, <3>1 DEF VerifiedRow
  <2>5. CASE b.canonical
    <3>1. /\ Provenance(b) = "refuted" => integrity.errors # {}
          /\ Provenance(b) # "refuted" => integrity.errors = {}
          /\ Provenance(b) # "refuted" =>
               _signature_status(integrity.note, b) = Provenance(b)
      BY <2>1, <2>5, IntegrityIsProvenance
    <3>2. result.failures = {} <=> Conforms(b) /\ Provenance(b) # "refuted"
      BY <2>2, <2>3, <2>5, <3>1
    <3>3. result.note = integrity.note
      BY <2>2
    <3> QED
      BY <3>1, <3>2, <3>3 DEF VerifiedRow
  <2> QED
    BY <2>4, <2>5
<1> QED
  BY <1>1, <1>2

\* What the code makes of a response is the verdict on it, whatever the
\* response, the registry and the keyring are, if the kid is a plain one.
THEOREM RowIsVerdict ==
  ASSUME NEW s, NEW x, x.kind = "bundle" => PlainKid(x.bundle)
  PROVE  sibling_row(s, x) = Verdict(s, x)
<1>1. CASE ~Fetched(s, x)
  BY <1>1 DEF sibling_row, NotSubmitted, Verdict, Fetched
<1>2. CASE Fetched(s, x) /\ x.kind = "bundle"
  BY <1>2, ExternalIsVerdict DEF sibling_row, Verdict, Fetched
<1>3. CASE Fetched(s, x) /\ x.kind # "bundle"
  BY <1>3 DEF sibling_row, Verdict, Fetched
<1> QED
  BY <1>1, <1>2, <1>3

LEMMA RowIsRow ==
  ASSUME NEW s, NEW x
  PROVE  sibling_row(s, x) \in Rows
<1>1. \A b : VerifiedRow(b) \in Rows
  BY DEF VerifiedRow, _signature_status, Rows
<1> QED
  BY <1>1 DEF sibling_row, NotSubmitted, Rows

-----------------------------------------------------------------------------
(* ScoreboardInv is inductive: one lemma per action or group of actions.   *)

LEMMA InitInv == Init => ScoreboardInv
<1> SUFFICES ASSUME Init PROVE ScoreboardInv
  OBVIOUS
<1>1. TypeOK
  <2>1. /\ seen \in [Siblings -> SUBSET UNION {Responses[s] : s \in Siblings}]
        /\ \A s \in Siblings : served[s] \in seen[s] /\ seen[s] \subseteq Responses[s]
    BY DEF Init
  <2> QED
    BY <2>1, BoundsOK DEF Init, TypeOK, Repos, NoRows, Checkout
<1>2. RowsAreSeen /\ FilesAreOfRows /\ BadgesAgree
  BY DEF Init, RowsAreSeen, FilesAreOfRows, BadgesAgree
<1> QED
  BY <1>1, <1>2 DEF ScoreboardInv

\* What a sibling has served since the job began only grows while it runs.
LEMMA ServeInv ==
  ASSUME ScoreboardInv, NEW s \in Siblings, NEW x \in Responses[s], Serve(s, x)
  PROVE  ScoreboardInv'
<1> DEFINE AllResponses == UNION {Responses[t] : t \in Siblings}
<1>1. TypeOK'
  <2>1. x \in AllResponses
    OBVIOUS
  <2>2. served' \in [Siblings -> AllResponses] /\ seen' \in [Siblings -> SUBSET AllResponses]
    <3> HIDE DEF AllResponses
    <3>1. /\ served \in [Siblings -> AllResponses]
          /\ seen \in [Siblings -> SUBSET AllResponses]
      BY DEF ScoreboardInv, TypeOK, AllResponses
    <3> QED
      BY <2>1, <3>1 DEF Serve
  <2>3. \A t \in Siblings : served'[t] \in seen'[t] /\ seen'[t] \subseteq Responses[t]
    BY DEF Serve, ScoreboardInv, TypeOK
  <2> QED
    BY <2>2, <2>3, BoundsOK DEF Serve, ScoreboardInv, TypeOK, files
<1>2. RowsAreSeen'
  BY DEF Serve, ScoreboardInv, TypeOK, RowsAreSeen
<1>3. FilesAreOfRows' /\ BadgesAgree'
  BY DEF Serve, ScoreboardInv, FilesAreOfRows, BadgesAgree, files
<1> QED
  BY <1>1, <1>2, <1>3 DEF ScoreboardInv

LEMMA StartJobInv ==
  ASSUME ScoreboardInv, StartJob
  PROVE  ScoreboardInv'
<1>1. TypeOK'
  <2>1. /\ seen' \in [Siblings -> SUBSET UNION {Responses[s] : s \in Siblings}]
        /\ \A s \in Siblings : served'[s] \in seen'[s] /\ seen'[s] \subseteq Responses[s]
    BY DEF StartJob, ScoreboardInv, TypeOK
  <2> QED
    BY <2>1, BoundsOK DEF StartJob, ScoreboardInv, TypeOK, Repos, NoRows, Checkout
<1>2. RowsAreSeen'
  BY DEF StartJob, RowsAreSeen, Siblings
<1>3. FilesAreOfRows' /\ BadgesAgree'
  BY DEF StartJob, ScoreboardInv, FilesAreOfRows, BadgesAgree, Repos
<1> QED
  BY <1>1, <1>2, <1>3 DEF ScoreboardInv

\* A row is added to those before it; a sibling's is of what it serves.
LEMMA RowInv ==
  ASSUME ScoreboardInv, NEW row \in Rows, at = "build", next \in Repos, AddRow(row),
         next \in Siblings =>
           ~Raises(next, served[next]) /\ row = sibling_row(next, served[next]),
         UNCHANGED <<hosts, files, artifact, crashes>>
  PROVE  ScoreboardInv'
<1>1. TypeOK'
  BY BoundsOK DEF AddRow, hosts, files, ScoreboardInv, TypeOK, Repos
<1>2. RowsAreSeen'
  <2> SUFFICES ASSUME NEW s \in Siblings, s < next'
               PROVE  \E x \in seen[s] : ~Raises(s, x) /\ rows'[s] = sibling_row(s, x)
    BY DEF RowsAreSeen, AddRow, hosts
  <2>1. s \in Repos /\ (s < next \/ s = next)
    BY BoundsOK DEF AddRow, Siblings, Repos
  <2>2. CASE s < next
    BY <2>1, <2>2, BoundsOK DEF AddRow, ScoreboardInv, TypeOK, RowsAreSeen, Repos
  <2>3. CASE s = next
    BY <2>1, <2>3 DEF AddRow, ScoreboardInv, TypeOK
  <2> QED
    BY <2>1, <2>2, <2>3
<1>3. FilesAreOfRows'
  BY BoundsOK DEF AddRow, ScoreboardInv, TypeOK, FilesAreOfRows, Repos
<1>4. BadgesAgree'
  BY DEF ScoreboardInv, BadgesAgree
<1> QED
  BY <1>1, <1>2, <1>3, <1>4 DEF ScoreboardInv

LEMMA SelfRowInv ==
  ASSUME ScoreboardInv, NEW status \in {"pass", "fail"}, SelfRow(status)
  PROVE  ScoreboardInv'
<1>1. [status |-> status, signature |-> "none"] \in Rows
  BY DEF Rows
<1>2. next \in Repos /\ next \notin Siblings
  BY BoundsOK DEF SelfRow, Repos, Siblings
<1> QED
  BY <1>1, <1>2, RowInv DEF SelfRow

LEMMA SiblingRowInv ==
  ASSUME ScoreboardInv, SiblingRow
  PROVE  ScoreboardInv'
<1>1. CASE Raises(next, served[next])
  <2>1. TypeOK'
    BY <1>1 DEF SiblingRow, hosts, files, ScoreboardInv, TypeOK
  <2>2. RowsAreSeen' /\ FilesAreOfRows' /\ BadgesAgree'
    BY <1>1 DEF SiblingRow, hosts, files, ScoreboardInv, RowsAreSeen, FilesAreOfRows,
                BadgesAgree
  <2> QED
    BY <2>1, <2>2 DEF ScoreboardInv
<1>2. CASE ~Raises(next, served[next])
  <2>1. sibling_row(next, served[next]) \in Rows
    BY RowIsRow
  <2>2. next \in Repos
    BY BoundsOK DEF SiblingRow, Repos, Siblings
  <2> QED
    BY <1>2, <2>1, <2>2, RowInv DEF SiblingRow
<1> QED
  BY <1>1, <1>2

LEMMA WriteMarkdownInv ==
  ASSUME ScoreboardInv, WriteMarkdown
  PROVE  ScoreboardInv'
<1>1. rows \in [Repos -> Rows]
  BY BoundsOK DEF WriteMarkdown, ScoreboardInv, TypeOK, FilesAreOfRows, Repos
<1>2. TypeOK'
  BY <1>1, BoundsOK DEF WriteMarkdown, hosts, ScoreboardInv, TypeOK
<1>3. RowsAreSeen'
  BY BoundsOK DEF WriteMarkdown, hosts, ScoreboardInv, RowsAreSeen, Siblings
<1>4. FilesAreOfRows' /\ BadgesAgree'
  BY <1>1 DEF WriteMarkdown, ScoreboardInv, FilesAreOfRows, BadgesAgree, Repos
<1> QED
  BY <1>2, <1>3, <1>4 DEF ScoreboardInv

LEMMA WriteBadgeInv ==
  ASSUME ScoreboardInv, WriteBadge
  PROVE  ScoreboardInv'
<1>1. Badge(rows[next]) \in Messages
  BY DEF Badge, Messages
<1>2. TypeOK'
  BY <1>1, BoundsOK DEF WriteBadge, hosts, ScoreboardInv, TypeOK, Repos
<1>3. RowsAreSeen'
  BY DEF WriteBadge, hosts, ScoreboardInv, RowsAreSeen
<1>4. FilesAreOfRows'
  BY BoundsOK DEF WriteBadge, ScoreboardInv, TypeOK, FilesAreOfRows, Repos
<1>5. BadgesAgree'
  BY DEF WriteBadge, ScoreboardInv, BadgesAgree
<1> QED
  BY <1>2, <1>3, <1>4, <1>5 DEF ScoreboardInv

\* All badges are written by then, of the rows that the table holds.
LEMMA UploadInv ==
  ASSUME ScoreboardInv, Upload
  PROVE  ScoreboardInv'
<1>1. TypeOK'
  BY DEF Upload, hosts, files, ScoreboardInv, TypeOK
<1>2. RowsAreSeen' /\ FilesAreOfRows'
  BY DEF Upload, RowsAreSeen, FilesAreOfRows
<1>3. BadgesAgree'
  BY BoundsOK DEF Upload, Succeeded, ScoreboardInv, FilesAreOfRows, BadgesAgree, Repos
<1> QED
  BY <1>1, <1>2, <1>3 DEF ScoreboardInv

LEMMA CrashInv ==
  ASSUME ScoreboardInv, Crash
  PROVE  ScoreboardInv'
<1>1. TypeOK'
  BY BoundsOK DEF Crash, hosts, files, ScoreboardInv, TypeOK
<1>2. RowsAreSeen' /\ FilesAreOfRows' /\ BadgesAgree'
  BY DEF Crash, ScoreboardInv, RowsAreSeen, FilesAreOfRows, BadgesAgree
<1> QED
  BY <1>1, <1>2 DEF ScoreboardInv

LEMMA StutterInv ==
  ASSUME ScoreboardInv, UNCHANGED vars
  PROVE  ScoreboardInv'
BY DEF vars, hosts, files, ScoreboardInv, TypeOK, RowsAreSeen, FilesAreOfRows, BadgesAgree

\* ScoreboardInv holds in every reachable state: rows are of what was served
\* during the job, and the files are of the rows.
THEOREM Invariance == Spec => []ScoreboardInv
<1>1. ScoreboardInv /\ [Next]_vars => ScoreboardInv'
  <2> SUFFICES ASSUME ScoreboardInv, [Next]_vars PROVE ScoreboardInv'
    OBVIOUS
  <2>1. CASE \E s \in Siblings : \E x \in Responses[s] : Serve(s, x)
    BY <2>1, ServeInv
  <2>2. CASE Job
    BY <2>2, StartJobInv, SelfRowInv, SiblingRowInv, WriteMarkdownInv, WriteBadgeInv,
       UploadInv DEF Job
  <2>3. CASE Crash
    BY <2>3, CrashInv
  <2>4. CASE UNCHANGED vars
    BY <2>4, StutterInv
  <2> QED
    BY <2>1, <2>2, <2>3, <2>4 DEF Next
<1> QED
  BY InitInv, <1>1, PTL DEF Spec

\* Every variable keeps its type.
THEOREM TypeCorrect == Spec => []TypeOK
<1>1. ScoreboardInv => TypeOK
  BY DEF ScoreboardInv
<1> QED
  BY Invariance, <1>1, PTL

\* The badges of an upload say what the table uploaded with them says.
THEOREM BadgesNeverDisagree == Spec => []BadgesAgree
<1>1. ScoreboardInv => BadgesAgree
  BY DEF ScoreboardInv
<1> QED
  BY Invariance, <1>1, PTL

-----------------------------------------------------------------------------
(* Scoreboard implements ScoreboardReport.                                 *)

LEMMA InitRefines == Init => Report!Init
BY DEF Init, Checkout, Published, Report!Init

\* The rows of a successful job are verdicts on what was served meanwhile.
LEMMA UploadRefines ==
  ASSUME PlainKids, ScoreboardInv, Upload
  PROVE  Report!Publish
<1>1. rows \in [Repos -> Rows] /\ markdown = rows /\ rows # Committed
  BY ValuesOK DEF Upload, Succeeded, ScoreboardInv, FilesAreOfRows
<1>2. \A s \in Siblings : Published(s)' = rows[s]
  BY <1>1 DEF Upload, Published
<1>3. \A s \in Siblings : \E x \in seen[s] : rows[s] = Verdict(s, x)
  <2>1. \A s \in Siblings : \A x \in seen[s] : x.kind = "bundle" => PlainKid(x.bundle)
    BY DEF ScoreboardInv, TypeOK, PlainKids
  <2> QED
    BY <2>1, RowIsVerdict DEF Upload, Succeeded, ScoreboardInv, RowsAreSeen
<1> QED
  BY <1>2, <1>3 DEF Upload, hosts, Report!Publish

LEMMA StepRefines ==
  ASSUME PlainKids, ScoreboardInv, [Next]_vars
  PROVE  [Report!Next]_(Report!vars)
<1>1. ASSUME NEW s \in Siblings, NEW x \in Responses[s], Serve(s, x)
      PROVE  Report!Serve(s, x)
  BY <1>1 DEF Serve, Published, Report!Serve
<1>2. ASSUME StartJob PROVE Report!Begin
  BY <1>2 DEF StartJob, Published, Report!Begin
<1>3. ASSUME Upload PROVE Report!Publish
  BY <1>3, UploadRefines
<1>4. ASSUME UNCHANGED <<served, seen, artifact>> PROVE UNCHANGED Report!vars
  BY <1>4 DEF Published, Report!vars
<1>5. CASE \E s \in Siblings : \E x \in Responses[s] : Serve(s, x)
  BY <1>1, <1>5 DEF Report!Next
<1>6. CASE Job
  <2>1. CASE StartJob \/ Upload
    BY <1>2, <1>3, <2>1 DEF Report!Next
  <2>2. CASE \/ \E status \in {"pass", "fail"} : SelfRow(status)
             \/ SiblingRow \/ WriteMarkdown \/ WriteBadge
    BY <1>4, <2>2 DEF SelfRow, SiblingRow, WriteMarkdown, WriteBadge, hosts
  <2> QED
    BY <1>6, <2>1, <2>2 DEF Job
<1>7. CASE Crash \/ UNCHANGED vars
  BY <1>4, <1>7 DEF Crash, vars, hosts
<1> QED
  BY <1>5, <1>6, <1>7 DEF Next

\* Whatever is published is, for every sibling, the verdict on something it
\* served while the table was made, if kids are plain.
THEOREM Refinement == ASSUME PlainKids PROVE Spec => ImplementsReport
<1>1. Init => Report!Init
  BY InitRefines
<1>2. ScoreboardInv /\ [Next]_vars => [Report!Next]_(Report!vars)
  BY StepRefines
<1> QED
  BY Invariance, <1>1, <1>2, PTL DEF Spec, ImplementsReport, Report!Spec
=============================================================================
