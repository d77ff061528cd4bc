------------------------------- MODULE Corpus -------------------------------
(***************************************************************************)
(* The conformance corpus and the two reference implementations of what it *)
(* asks for: run() of conformance/run.py and run() of                      *)
(* conformance/javascript/run.mjs, each as the failures it finds in a      *)
(* tree, or that it raises.                                                *)
(*                                                                         *)
(* A tree is a record [schemas, positive, negative, invariants, version].  *)
(* A schema is [id, required, tolerates, refs]: its $id, its required      *)
(* keys, the errors an additive change has it accept, and the $ids that    *)
(* parts of a payload are referred to.  A payload is                       *)
(*   [keys, faults, strict, json, scoped, bounded, bundle]                 *)
(* where keys are those of the payload ("self") and of its parts, faults   *)
(* the errors that are no missing keys, strict those that only ajv finds   *)
(* (a date-time that is none, a line feed after a pattern), json says that *)
(* JSON.parse reads the file (it does not read NaN, which Python does),    *)
(* and bundle is a bundle of module TraceBundle or NoBundle.               *)
(* Corpus entries are [payload, schema, by, violates], invariants          *)
(* [id, applies_to, assertion, baseline].                                  *)
(***************************************************************************)
EXTENDS TraceBundle, FiniteSets

CONSTANTS
  Payload,      \* Payload[f]: what is in the file f
  NoBundle,
  NoBaseline,   \* the block has no `baseline`
  Within        \* Within[k]: the targets that occur in the name k, as the empty one does

-----------------------------------------------------------------------------
(* Schemas and validators.                                                 *)

Stems(t) == DOMAIN t.schemas
Ids(t) == {t.schemas[s].id : s \in Stems(t)}

\* Of two schemas with one $id, the registry has one.
Registry(t) ==
  [i \in Ids(t) |-> t.schemas[CHOOSE s \in Stems(t) : t.schemas[s].id = i]]
load_schemas(t) == [by_stem |-> t.schemas, registry |-> Registry(t)]

Validator(schema, registry) == [schema |-> schema, registry |-> registry]
Fresh(t, s) == Validator(t.schemas[s], Registry(t))

\* The parts of a payload that a validator looks into, and the schemas of them.
Parts(v, p) == DOMAIN p.keys \cap DOMAIN v.schema.refs
Resolves(v, p) == \A q \in Parts(v, p) : v.schema.refs[q] \in DOMAIN v.registry
Missing(schema, keys) == {[kw |-> "required", on |-> k] : k \in schema.required \ keys}

EnvelopeKeyword ==
  [alg |-> "enum", canonicalization |-> "enum", kid |-> "minLength", sig |-> "pattern"]
Envelope(p) ==
  IF p.bundle = NoBundle \/ p.bundle.signature = Unsigned THEN {}
  ELSE {[kw |-> EnvelopeKeyword[e], on |-> e] : e \in EnvelopeErrors(p.bundle.signature)}

schema_error_details(p, v) ==
  Missing(v.schema, p.keys["self"])
    \cup (UNION {Missing(v.registry[v.schema.refs[q]], p.keys[q]) : q \in Parts(v, p)})
    \cup (p.faults \ v.schema.tolerates)
    \cup Envelope(p)

\* A negative payload fails for the reason it declares.
LABEL_ONLY == {"anyOf", "oneOf", "allOf", "not"}
negative_schema_reason_met(violates, details) ==
  \E d \in details :
    d.kw = violates.kw /\ (violates.kw \in LABEL_ONLY \/ violates.on \in Within[d.on])

-----------------------------------------------------------------------------
(* The named checks.                                                       *)

capability_token_scoped(p) == p.scoped /\ p.bounded

core_required_surface_stable(baseline, schemas) ==
  \A s \in DOMAIN baseline : s \in DOMAIN schemas /\ schemas[s].required = baseline[s]

BUNDLE_INVARIANTS == {"frames_have_no_raw_output", "policy_decisions_are_traced"}
Holds(check, b) ==
  CASE check = "frames_have_no_raw_output" -> frames_have_no_raw_output(b) = {}
    [] check = "policy_decisions_are_traced" -> policy_decisions_are_traced(b) = {}

Invariant(t, id) == CHOOSE inv \in t.invariants : inv.id = id
InvariantIds(t) == {inv.id : inv \in t.invariants}
_assertion_for(t, id) == Invariant(t, id).assertion

Of(t, stem) == {e \in t.positive : e.schema = stem}

-----------------------------------------------------------------------------
(* run.py.  V[s] is the validator that schema_errors has for the stem s.   *)

Details(V, e) == schema_error_details(Payload[e.payload], V[e.schema])

\* A KeyError, an unresolvable $ref, a ValueError: the run ends without a result.
Supported(inv) ==
  \/ inv.applies_to = "core_schemas" /\ inv.baseline # NoBaseline
  \/ inv.applies_to = "capability_token"
  \/ inv.applies_to = "trace_bundle" /\ inv.assertion \in BUNDLE_INVARIANTS
UnknownSchema(t) == \E e \in t.positive \cup t.negative : e.schema \notin Stems(t)
Raises(t, V) ==
  \/ UnknownSchema(t)
  \/ \E e \in t.positive \cup t.negative : ~Resolves(V[e.schema], Payload[e.payload])
  \/ \E e \in t.negative :
       e.by = "invariant" /\ Details(V, e) = {} /\ e.violates \notin InvariantIds(t)
  \/ \E inv \in t.invariants : ~Supported(inv)

Violates(check, e) ==
  check \in BUNDLE_INVARIANTS /\ ~Holds(check, Payload[e.payload].bundle)
\* (RejectedAnyhow is the runner before it looked at the reason.)
RejectedAnyhow(t, V, e) ==
  \/ e.by = "schema" /\ Details(V, e) # {}
  \/ /\ e.by = "invariant"
     /\ Details(V, e) = {}
     /\ Violates(_assertion_for(t, e.violates), e)
Rejected(t, V, e) ==
  \/ e.by = "schema" /\ negative_schema_reason_met(e.violates, Details(V, e))
  \/ /\ e.by = "invariant"
     /\ Details(V, e) = {}
     /\ Violates(_assertion_for(t, e.violates), e)

Breaks(t, inv) ==
  \/ inv.applies_to = "core_schemas" /\ ~core_required_surface_stable(inv.baseline, t.schemas)
  \/ /\ inv.applies_to = "capability_token"
     /\ \E e \in Of(t, "capability_token") : ~capability_token_scoped(Payload[e.payload])
  \/ /\ inv.applies_to = "trace_bundle"
     /\ \E e \in Of(t, "trace_bundle") : ~Holds(inv.assertion, Payload[e.payload].bundle)

\* Each kind of failure, with what failed.
Failures(t, V) ==
       {<<"positive", e>> : e \in {x \in t.positive : Details(V, x) # {}}}
  \cup {<<"negative", e>> : e \in {x \in t.negative : ~Rejected(t, V, x)}}
  \cup {<<"invariant", inv>> : inv \in {x \in t.invariants : Breaks(t, x)}}
  \cup {<<"tracebundle", e>> : e \in {x \in Of(t, "trace_bundle") :
          check_trace_bundle(Payload[x.payload].bundle).errors # {}}}

PythonGreen(t) ==
  LET V == [s \in Stems(t) |-> Fresh(t, s)] IN ~Raises(t, V) /\ Failures(t, V) = {}

-----------------------------------------------------------------------------
(* run.mjs.                                                                *)

STATIC_INVARIANT_IDS == {"I-01", "I-02", "I-04", "I-06"}
JsCheck == [id \in {"I-01", "I-02"} |->
              IF id = "I-01" THEN "frames_have_no_raw_output" ELSE "policy_decisions_are_traced"]

Used(t) == {e.schema : e \in t.positive \cup t.negative} \cap Stems(t)

\* Two schemas with one $id, a $ref to nowhere, an invariant that only one side
\* knows, and a payload that is no JSON, are thrown.
Throws(t) ==
  \/ Cardinality(Ids(t)) # Cardinality(Stems(t))
  \/ \E s \in Used(t) : \E q \in DOMAIN t.schemas[s].refs : t.schemas[s].refs[q] \notin Ids(t)
  \/ InvariantIds(t) # STATIC_INVARIANT_IDS
  \/ \E e \in t.positive \cup t.negative : e.schema \in Stems(t) /\ ~Payload[e.payload].json

\* ajv checks date-times and takes patterns by the letter.  (FormatsNotAdded
\* would be without addFormats.)
FormatsNotAdded(t, e) == schema_error_details(Payload[e.payload], Fresh(t, e.schema))
JsDetails(t, e) ==
  schema_error_details(Payload[e.payload], Fresh(t, e.schema)) \cup Payload[e.payload].strict

\* (KnownKeysOnly lets no key pass that it does not have.)
Verifies(b) ==
  LET s == b.signature
      entry == Keyring[s.kid]
  IN  entry # NoEntry /\ entry.alg = s.alg /\ b.canonical /\ SignedContent(entry.key, b)
Supports(s) ==
  s.alg \in SIGNATURE_ALG_REGISTRY /\ s.canonicalization = "JCS" /\ s.kid # "empty"
KnownKeysOnly(b) == b.signature = Unsigned \/ (Supports(b.signature) /\ Verifies(b))
verifyTraceBundleIntegrity(b) ==
  \/ b.signature = Unsigned
  \/ Supports(b.signature) /\ (Keyring[b.signature.kid] = NoEntry \/ Verifies(b))

Accepts(t, e) ==
  LET p == Payload[e.payload]
  IN  /\ e.schema \in Stems(t)
      /\ JsDetails(t, e) = {}
      /\ e.schema = "capability_token" => capability_token_scoped(p)
      /\ e.schema = "trace_bundle" =>
           /\ \A check \in BUNDLE_INVARIANTS : Holds(check, p.bundle)
           /\ verifyTraceBundleIntegrity(p.bundle)

Rejects(t, e) ==
  /\ e.schema \in Stems(t)
  /\ \/ e.by = "schema" /\ negative_schema_reason_met(e.violates, JsDetails(t, e))
     \/ /\ e.by = "invariant"
        /\ JsDetails(t, e) = {}
        /\ e.violates \in DOMAIN JsCheck /\ Violates(JsCheck[e.violates], e)

JavaScriptGreen(t) ==
  /\ ~Throws(t)
  /\ Invariant(t, "I-04").baseline # NoBaseline
  /\ core_required_surface_stable(Invariant(t, "I-04").baseline, t.schemas)
  /\ \A e \in t.positive : Accepts(t, e)
  /\ \A e \in t.negative : Rejects(t, e)
=============================================================================
