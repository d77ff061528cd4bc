----------------------------- MODULE Conformance -----------------------------
(***************************************************************************)
(* conformance/run.py as it is used: a process in which main() is called   *)
(* on a tree that changes between the calls.  The process keeps its        *)
(* compiled validators by $id.  Each call ends with an exception or with   *)
(* failures, and writes a result and a badge, one after the other, in a    *)
(* process that may be killed.  Somebody else asks later whether the       *)
(* result is fresh.  Beside it, what the workflow that runs both reference *)
(* implementations concludes of the tree.                                  *)
(***************************************************************************)
EXTENDS Corpus, Integers

CONSTANTS
  Initial,               \* the tree at first
  SchemaDrafts,          \* what may become of schema files: schemas by stem
  Positives, Negatives,  \* entries that may be added to or taken from corpus.yaml
  Blocks,                \* blocks that may be added to or taken from invariants.yaml
  Versions, Major,       \* values of CONTRACT_VERSION, and their first parts
  External,              \* External[f]: what is in the file f, and its problem: "none",
                         \* "not UTF-8", or one that load_external_bundle tells
  RESULT_MAX_AGE,
  Skews,                 \* by how much a clock is ahead
  NoFile, Torn,          \* no file, and one whose writing was cut short
  MaxEdits, MaxDay,      \* bounds on edits and days
  MaxChanges             \* bound on edits and days together

Results ==
  [status : {"pass", "fail"}, version : Versions, generated_at : Nat]
Badges == [message : Versions \cup {"failing"}, isError : BOOLEAN]

ASSUME FileAssumption == {NoFile, Torn} \cap (Results \cup Badges) = {}
ASSUME InitialAssumption ==
  /\ DOMAIN Initial = {"schemas", "positive", "negative", "invariants", "version"}
  /\ Initial.version \in Versions
ASSUME ConformanceAssumption ==
  /\ RESULT_MAX_AGE \in Nat /\ Skews \subseteq Nat
  /\ MaxEdits \in Nat /\ MaxDay \in Nat /\ MaxChanges \in Nat

\* The manifest's blocks have ids of their own, and what the corpus has for a
\* bundle is described as one, sound or not.
ASSUME CorpusAssumption ==
  /\ \A a, b \in Initial.invariants : a.id = b.id => a = b
  /\ \A e \in Initial.positive \cup Positives :
       e.schema = "trace_bundle" => Payload[e.payload].bundle # NoBundle

VARIABLES
  tree, edits,
  cache,        \* _VALIDATOR_CACHE: validators by $id
  bound,        \* history: the schemas this process has loaded
  pc,           \* "idle", "result", "badge": what main writes next
  call,         \* the mode and the failures of the call that is to be written
  result, badge,
  interrupted,  \* history: killed since result and badge were written last
  now,
  attested      \* history: day and version of each call without failures

process == <<cache, bound>>
files == <<result, badge, interrupted>>
vars == <<tree, edits, process, pc, call, files, now, attested>>

Empty == [i \in {} |-> NoFile]

-----------------------------------------------------------------------------
(* The cache.                                                              *)

\* (StemKey would know a schema by the name of its file.)
StemKey(t, s) == s
CacheKey(t, s) == t.schemas[s].id

\* Which stem compiles a key depends on the order in the corpus, which is not
\* modelled; it matters if two schemas have one $id.
Keys(t, stems) == {CacheKey(t, s) : s \in stems}
FirstUses(t, stems) ==
  {first \in [Keys(t, stems) -> stems] :
     \A k \in Keys(t, stems) : CacheKey(t, first[k]) = k}

_validator_for(t, c, first, s) ==
  LET k == CacheKey(t, s)
  IN  IF k \in DOMAIN c THEN c[k] ELSE Fresh(t, first[k])

Cached(t, c, first, stems) ==
  [k \in DOMAIN c \cup Keys(t, stems) |-> IF k \in DOMAIN c THEN c[k] ELSE Fresh(t, first[k])]

Binds(t) == {t.schemas[s] : s \in Stems(t)}

-----------------------------------------------------------------------------
(* main().                                                                 *)

\* An exception ends the process, and nothing is written.
Dies ==
  /\ cache' = Empty /\ bound' = {}
  /\ UNCHANGED <<tree, edits, pc, call, files, now, attested>>

\* With --emit-result and --emit-badge, or with neither.
Ends(mode, failures, t, c) ==
  /\ cache' = c /\ bound' = bound \cup Binds(t)
  /\ \/ pc' = "result" /\ call' = [mode |-> mode, failures |-> failures]
     \/ pc' = "idle" /\ call' = NoFile
  /\ attested' = IF failures # {} THEN attested
                 ELSE attested \cup {[day |-> now, version |-> t.version]}
  /\ UNCHANGED <<tree, edits, files, now>>

Run ==
  /\ pc = "idle"
  /\ \E first \in FirstUses(tree, Used(tree)) :
       LET V == [s \in Used(tree) |-> _validator_for(tree, cache, first, s)]
       IN  IF Raises(tree, V) THEN Dies
           ELSE Ends("corpus", Failures(tree, V), tree, Cached(tree, cache, first, Used(tree)))

\* load_external_bundle reads what is no UTF-8 as JSON, and that raises.  The
\* bundle's own schema is the only one that is asked for.
BundleFailures(t, v, x) ==
  IF x.problem # "none" THEN {"input"}
  ELSE IF "trace_bundle" \notin Stems(t) \/ schema_error_details(x.payload, v) # {} THEN {"schema"}
  ELSE verify_external_bundle(x.payload.bundle).failures
RunBundle(f) ==
  LET x == External[f]
      asked == {s \in Stems(tree) : s = "trace_bundle" /\ x.problem = "none"}
      first == [k \in Keys(tree, asked) |-> "trace_bundle"]
      v == _validator_for(tree, cache, first, "trace_bundle")
  IN  /\ pc = "idle"
      /\ IF x.problem = "not UTF-8" \/ (asked # {} /\ ~Resolves(v, x.payload)) THEN Dies
         ELSE Ends("bundle", BundleFailures(tree, v, x), tree, Cached(tree, cache, first, asked))

-----------------------------------------------------------------------------
(* The result and the badge.                                               *)

\* (PassOnceRun would take a call that ended for one that passed.)
PassOnceRun(m, version, day) ==
  [status |-> "pass", version |-> version, generated_at |-> day]
build_result(m, version, day) ==
  [status |-> IF m.failures = {} THEN "pass" ELSE "fail",
   version |-> version, generated_at |-> day]

build_shields_endpoint(r) ==
  [message |-> IF r.status = "pass" THEN r.version ELSE "failing",
   isError |-> r.status # "pass"]

\* (LocalTime would write a time behind UTC as UTC.)
LocalTime ==
  /\ pc = "result"
  /\ \E skew \in Skews : result' = build_result(call, tree.version, now - skew)
  /\ pc' = "badge"
  /\ UNCHANGED <<tree, edits, process, call, badge, interrupted, now, attested>>
EmitResult ==
  /\ pc = "result"
  /\ \E skew \in Skews : result' = build_result(call, tree.version, now + skew)
  /\ pc' = "badge"
  /\ UNCHANGED <<tree, edits, process, call, badge, interrupted, now, attested>>

\* (BadgeOnPass would write only green badges.)
BadgeOnPass ==
  /\ pc = "badge"
  /\ badge' = IF result.status = "pass" THEN build_shields_endpoint(result) ELSE badge
  /\ interrupted' = FALSE
  /\ pc' = "idle" /\ call' = NoFile
  /\ UNCHANGED <<tree, edits, process, result, now, attested>>
EmitBadge ==
  /\ pc = "badge"
  /\ badge' = build_shields_endpoint(result)
  /\ interrupted' = FALSE
  /\ pc' = "idle" /\ call' = NoFile
  /\ UNCHANGED <<tree, edits, process, result, now, attested>>

\* _write_json writes in place.
Kill ==
  /\ pc # "idle"
  /\ cache' = Empty /\ bound' = {}
  /\ interrupted' = TRUE
  /\ pc' = "idle" /\ call' = NoFile
  /\ IF pc = "result" THEN result' \in {result, Torn} /\ badge' = badge
     ELSE badge' \in {badge, Torn} /\ result' = result
  /\ UNCHANGED <<tree, edits, now, attested>>

Quit == pc = "idle" /\ Dies

-----------------------------------------------------------------------------
(* is_result_fresh(): the reasons why a result is not.                     *)

\* (AnyMajor would look at the dates only.)
AnyMajor(r, t, day) ==
  {x \in {"future"} : day < r.generated_at}
    \cup {x \in {"old"} : day - r.generated_at > RESULT_MAX_AGE}
Stale(r, t, day) ==
  {x \in {"major"} : Major[r.version] # Major[t.version]}
    \cup {x \in {"future"} : day < r.generated_at}
    \cup {x \in {"old"} : day - r.generated_at > RESULT_MAX_AGE}
is_result_fresh(r, t, day) == Stale(r, t, day) = {}

-----------------------------------------------------------------------------
(* The specification.                                                      *)

Toggled(S, x) == IF x \in S THEN S \ {x} ELSE S \cup {x}

\* Nobody edits while main() runs.
Edit ==
  /\ pc = "idle" /\ edits < MaxEdits /\ edits + now < MaxChanges
  /\ edits' = edits + 1
  /\ \/ \E d \in SchemaDrafts :
          tree' = [tree EXCEPT !.schemas =
                     [s \in Stems(tree) |-> IF s \in DOMAIN d THEN d[s] ELSE tree.schemas[s]]]
     \/ \E e \in Positives : tree' = [tree EXCEPT !.positive = Toggled(@, e)]
     \/ \E e \in Negatives : tree' = [tree EXCEPT !.negative = Toggled(@, e)]
     \/ \E b \in Blocks :
          tree' = [tree EXCEPT !.invariants = Toggled({x \in @ : x.id = b.id => x = b}, b)]
     \/ \E v \in Versions : tree' = [tree EXCEPT !.version = v]
  /\ UNCHANGED <<process, pc, call, files, now, attested>>

\* A call ends on the day it was made.
Day ==
  /\ pc = "idle" /\ now < MaxDay /\ edits + now < MaxChanges
  /\ now' = now + 1
  /\ UNCHANGED <<tree, edits, process, pc, call, files, attested>>

Init ==
  /\ tree = Initial /\ edits = 0
  /\ cache = Empty /\ bound = {}
  /\ pc = "idle" /\ call = NoFile
  /\ result = NoFile /\ badge = NoFile /\ interrupted = FALSE
  /\ now = 0 /\ attested = {}

Next ==
  \/ Edit \/ Run \/ (\E f \in DOMAIN External : RunBundle(f))
  \/ EmitResult \/ EmitBadge \/ Kill \/ Quit \/ Day

Spec == Init /\ [][Next]_vars

-----------------------------------------------------------------------------
(* What the two implementations are for.                                   *)

\* The workflow's last job asks for both.
Agreement(t) == PythonGreen(t) /\ JavaScriptGreen(t)

Valid(t, e) ==
  /\ e.schema \in Stems(t)
  /\ Resolves(Fresh(t, e.schema), Payload[e.payload])
  /\ schema_error_details(Payload[e.payload], Fresh(t, e.schema)) = {}

\* The named checks that the manifest asks for.
Checks(t) ==
  {inv.assertion : inv \in {x \in t.invariants : x.applies_to = "trace_bundle"}}
    \cup {x.applies_to : x \in t.invariants}
AllChecks == BUNDLE_INVARIANTS \cup {"capability_token", "core_schemas"}

\* What is positive is valid and passes the checks, what is negative is not or
\* does not, for the reason that the corpus gives, and the Core surface is as
\* the manifest has it.
Conforms(t, checks) ==
  /\ \A e \in t.positive :
       /\ Valid(t, e)
       /\ e.schema = "capability_token" /\ e.schema \in checks =>
            capability_token_scoped(Payload[e.payload])
       /\ e.schema = "trace_bundle" =>
            /\ \A check \in checks \cap BUNDLE_INVARIANTS : Holds(check, Payload[e.payload].bundle)
            /\ check_trace_bundle(Payload[e.payload].bundle).errors = {}
  /\ \A e \in t.negative :
       \/ /\ e.by = "schema"
          /\ \E d \in schema_error_details(Payload[e.payload], Fresh(t, e.schema)) :
               d.kw = e.violates.kw
       \/ /\ e.by = "invariant"
          /\ Valid(t, e)
          /\ \E check \in BUNDLE_INVARIANTS : ~Holds(check, Payload[e.payload].bundle)
  /\ "core_schemas" \in checks =>
       \A inv \in t.invariants :
         inv.applies_to = "core_schemas" => core_required_surface_stable(inv.baseline, t.schemas)

-----------------------------------------------------------------------------
(* Properties.                                                             *)

TypeOK ==
  /\ edits \in 0..MaxEdits /\ now \in 0..MaxDay
  /\ pc \in {"idle", "result", "badge"}
  /\ tree.version \in Versions
  /\ interrupted \in BOOLEAN
  /\ result \in {NoFile, Torn} \cup Results
  /\ badge \in {NoFile, Torn} \cup Badges
  /\ attested \subseteq [day : 0..MaxDay, version : Versions]
  /\ \A k \in DOMAIN cache :
       cache[k].schema \in bound /\ \A i \in DOMAIN cache[k].registry : cache[k].registry[i] \in bound

\* An $id has had one content as long as this process lives, and every $ref has
\* been to a schema that was there.
Closed(v) == \A q \in DOMAIN v.schema.refs : v.schema.refs[q] \in DOMAIN v.registry
Steady ==
  /\ \A a, b \in bound \cup Binds(tree) : a.id = b.id => a = b
  /\ \A s \in Stems(tree) : Closed(Fresh(tree, s))
  /\ \A k \in DOMAIN cache : Closed(cache[k])

\* A validator from the cache, with the registry of an earlier call, finds in
\* every payload what one compiled now would find, in both cases only as long as
\* the ids are steady: then a call among others is as good as one in a process
\* of its own.  (run.py takes that for granted; the published ids are the same
\* before and after an additive change.)
CacheTransparent ==
  Steady =>
    \A s \in Stems(tree) : CacheKey(tree, s) \in DOMAIN cache =>
      LET v == cache[CacheKey(tree, s)]
          w == Fresh(tree, s)
      IN  v # w =>
            \A f \in DOMAIN Payload :
              /\ Resolves(v, Payload[f])
              /\ schema_error_details(Payload[f], v) = schema_error_details(Payload[f], w)

\* A corpus run without failures, in a process that is not new, means that the
\* tree conforms, to all that its manifest asks for.
GreenMeansConforming ==
  pc # "idle" /\ call.mode = "corpus" /\ call.failures = {} /\ Steady =>
    Conforms(tree, Checks(tree))

\* Nothing has been run, or nothing is left of it.
Untried == cache = Empty /\ result = NoFile

\* If both implementations, each in a process of its own, are green, the tree
\* conforms to all four static invariants, whatever has become of the manifest,
\* and nothing in it passes only because Python reads dates, patterns or numbers
\* leniently: each makes up for what the other leaves out.  (It depends on the tree
\* alone, so it is asked before anything has been run.)
Thorough(t) ==
  Agreement(t) =>
    Conforms(t, AllChecks)
      /\ \A e \in t.positive : Payload[e.payload].strict = {} /\ Payload[e.payload].json
AgreementMeansConforming == Untried => Thorough(tree)

\* What JavaScript refuses and Python does not look at: dates and patterns to the
\* letter, where a payload should satisfy its schema, and JSON; a canonicalization
\* that is not stated; two schemas with one $id, a $ref to nowhere that no payload
\* needs; and signatures, where Python has no `cryptography`.
JavaScriptLooks(t) ==
  \/ \E e \in t.positive \cup {x \in t.negative : x.by = "invariant"} :
       Payload[e.payload].strict # {}
  \/ \E e \in t.positive \cup t.negative : ~Payload[e.payload].json
  \/ \E e \in t.positive :
       LET b == Payload[e.payload].bundle
       IN  /\ b # NoBundle /\ b.signature # Unsigned
           /\ b.signature.canonicalization = "omitted"
  \/ Cardinality(Ids(t)) # Cardinality(Stems(t))
  \/ \E s \in Used(t) : ~Closed(Fresh(t, s))
  \/ ~CryptoInstalled
\* What Python refuses and JavaScript does not look at: a bundle that JCS cannot
\* serialise; and a negative entry whose reason may be one that only ajv finds.
PythonLooks(t) ==
  \/ \E e \in t.positive :
       Payload[e.payload].bundle # NoBundle /\ ~Payload[e.payload].bundle.canonical
  \/ \E e \in t.negative : e.by = "schema" /\ Payload[e.payload].strict # {}
\* The manifest has the blocks that the JavaScript side knows, each as it knows it:
\* to Python, any block with an assertion about bundles is a reason to reject one.
InStep(t) ==
  /\ InvariantIds(t) = STATIC_INVARIANT_IDS
  /\ \A inv \in t.invariants :
       /\ inv.id \in DOMAIN JsCheck =>
            inv.applies_to = "trace_bundle" /\ inv.assertion = JsCheck[inv.id]
       /\ inv.id = "I-04" => inv.applies_to = "core_schemas"
       /\ inv.id = "I-06" => inv.applies_to = "capability_token"
       /\ inv.id \notin DOMAIN JsCheck => inv.assertion \notin BUNDLE_INVARIANTS

\* What one passes and the other does not has something that only the other looks
\* at.
Undivided(t) ==
  InStep(t) =>
    /\ PythonGreen(t) /\ ~JavaScriptGreen(t) => JavaScriptLooks(t)
    /\ JavaScriptGreen(t) /\ ~PythonGreen(t) => PythonLooks(t)
ReferencesAgree == Untried => Undivided(tree)

\* A result that says pass and is fresh stems from a call that found no failures,
\* at most the maximal age and a clock's error ago, under the MAJOR of today:
\* also after kills, and after calls that raised and wrote nothing.
FreshMeansRecentPass ==
  result \notin {NoFile, Torn} =>
    (result.status = "pass" /\ is_result_fresh(result, tree, now) =>
       \E a \in attested :
         /\ Major[a.version] = Major[tree.version]
         /\ \E skew \in Skews : now - a.day <= RESULT_MAX_AGE + skew)

\* A badge that is no error names a version under which a call found no failures.
BadgeIsEarned ==
  badge \notin {NoFile, Torn} =>
    (~badge.isError => \E a \in attested : a.version = badge.message)

\* Between calls the badge says of the result what the result says, unless the
\* process was killed between the two files or in one of them.
NeverDrift ==
  pc = "idle" /\ ~interrupted =>
    \/ result = NoFile /\ badge = NoFile
    \/ /\ result \notin {NoFile, Torn} /\ badge \notin {NoFile, Torn}
       /\ badge.isError <=> result.status # "pass"
       /\ badge.message = IF result.status = "pass" THEN result.version ELSE "failing"
=============================================================================
