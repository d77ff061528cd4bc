------------------------------ MODULE Contracts ------------------------------
(***************************************************************************)
(* The contract types, twice: the dataclasses of weaver_contracts with     *)
(* what __post_init__ demands of them, and the JSON Schemas that are the   *)
(* source of truth; and between the two, the wire form.                    *)
(*                                                                         *)
(* An object is a function from its fields to values, a wire form one from *)
(* the keys that are present.  A value is a text, or a name for what tells *)
(* the two sides apart: "[]" and "{}" are empty, "time" is an ISO 8601     *)
(* date-time (a datetime in a Core object), "timez" a date-time that       *)
(* datetime.fromisoformat() does not read (2026-01-01t00:00:00z), and a    *)
(* text is none; "nan" is not a number, which json reads and writes; "+nl" *)
(* has a line feed at its end; "sound" is a nested object that satisfies   *)
(* its own schema and "broken" one that no longer does.                    *)
(***************************************************************************)
EXTENDS FiniteSets

CONSTANTS
  Texts,     \* texts that are not empty
  None,      \* None, or null on the wire
  Required   \* no default

-----------------------------------------------------------------------------
(* Fields: what the annotation lets in, what __post_init__ lets pass, and  *)
(* the default.                                                            *)

Field(values, ok, default) == [values |-> values, ok |-> ok, default |-> default]
Free(values, default) == Field(values, values, default)

Strings == Texts \cup {""}
Stamps == Strings \cup {"time", "timez"}
Lists == {"[]", "[..]"}
Dicts == {"{}", "{..}"}

\* Required and non-empty; required; with a default; optional.
Named == Field(Strings, Texts, Required)
NamedOr(default) == Field(Strings, Texts, default)
Text(default) == Free(Strings, default)
OptText == Free(Strings \cup {None}, None)
\* A datetime; a date-time in a string.
Time == Free({"time"}, Required)
OptTime == Free({"time", None}, None)
Stamp == Field(Stamps, Stamps \ {""}, Required)
OptStamp == Free(Stamps \cup {None}, None)
\* A member of a vocabulary.
OneOf(S, default) == Field(S \cup {"other"}, S, default)
OptOneOf(S) == Field(S \cup {"other", None}, S \cup {None}, None)
\* Numbers: a share is in [0.0, 1.0], which nan is not; a count is an integer
\* and not negative.
OptShare == Field({None, "< 0", "0", "1", "> 1", "nan"}, {None, "0", "1"}, None)
OptCount == Field({None, "< 0", "0"}, {None, "0"}, None)
Count == Field({"< 0", "0"}, {"0"}, Required)
OptNumber == Free({None, "0"}, None)
Flag(default) == Free({"yes", "no"}, default)
List == Free(Lists, "[]")
Dict == Free(Dicts, "{}")
\* Objects in objects are not looked into again.
Part == Free({"sound", "broken"}, Required)
OptPart == Free({"sound", "broken", None}, None)
SomeParts == Field({"[]", "[sound]", "[broken]"}, {"[sound]", "[broken]"}, Required)
Parts(default) == Free({"[]", "[sound]", "[broken]"}, default)

-----------------------------------------------------------------------------
(* core.py                                                                 *)

SelectableItem ==
  [id |-> Named, label |-> Named, description |-> Named, capability_id |-> OptText,
   metadata |-> Dict]

\* Nothing bounds the number of items.
ChoiceCard ==
  [id |-> Named,
   items |-> Field({"[]", "[sound]", "[broken]", "[21]"}, {"[sound]", "[broken]", "[21]"}, Required),
   context_hint |-> OptText, metadata |-> Dict]

RoutingDecision ==
  [id |-> Named, choice_cards |-> SomeParts, timestamp |-> Time,
   selected_item_id |-> OptText, selected_card_id |-> OptText, context_summary |-> OptText,
   metadata |-> Dict]

Capability ==
  [id |-> Named, name |-> Named, version |-> Named, description |-> Named,
   input_schema_ref |-> OptText, output_schema_ref |-> OptText, tags |-> List, metadata |-> Dict]

\* A scope of empty names is a scope.
CapabilityToken ==
  [token_id |-> Named, principal |-> Named,
   scope |-> Field({"[]", "[text]", "[empty]"}, {"[text]", "[empty]"}, Required),
   issued_at |-> Time, expires_at |-> OptTime, single_use |-> Flag("no"), issuer |-> OptText,
   metadata |-> Dict]

PolicyDecision ==
  [decision_id |-> Named, decision |-> OneOf({"allow", "deny"}, Required),
   capability_id |-> Named, principal |-> Named, timestamp |-> Time, token_id |-> OptText,
   reason |-> OptText, metadata |-> Dict]

Frame ==
  [frame_id |-> Named, capability_id |-> Named, summary |-> Named, created_at |-> Time,
   structured_data |-> Free(Dicts \cup {None}, None),
   handle_refs |-> Free({"[]", "[text]", "[empty]"}, "[]"),
   redaction_notes |-> OptText, metadata |-> Dict]

Handle ==
  [handle_id |-> Named, capability_id |-> Named, artifact_type |-> Named, created_at |-> Time,
   expires_at |-> OptTime, access_policy |-> OptText, byte_size |-> OptCount, metadata |-> Dict]

TRACE_EVENT_TYPES ==
  {"capability_authorized", "capability_denied", "capability_executed", "firewall_applied",
   "handle_created", "handle_resolved", "token_issued", "token_invalidated", "flow_started",
   "flow_step_started", "flow_step_completed", "flow_completed", "flow_failed"}
TRACE_EVENT_OUTCOMES == {"success", "failure", "partial"}
TraceEvent ==
  [event_id |-> Named, event_type |-> OneOf(TRACE_EVENT_TYPES, Required), timestamp |-> Time,
   capability_id |-> OptText, principal |-> OptText, decision_id |-> OptText,
   frame_id |-> OptText, handle_id |-> OptText, outcome |-> OptOneOf(TRACE_EVENT_OUTCOMES),
   error_message |-> OptText, metadata |-> Dict]

-----------------------------------------------------------------------------
(* extended.py                                                             *)

\* The values of baggage are strings, those of the other dicts anything.
TelemetryHint == [trace_id |-> OptText, span_id |-> OptText, baggage |-> Dict]

SchemaFingerprint ==
  [schema_id |-> Named, schema_version |-> Named, content_hash |-> OptText,
   hash_algorithm |-> Text("text")]

RedactionPolicy ==
  [policy_id |-> Named, redacted_fields |-> List, truncated_fields |-> List,
   redaction_reason |-> OptText, pii_detected |-> Flag("no"), pii_types |-> List]

UIHint ==
  [icon |-> OptText, color |-> OptText, priority |-> OptNumber, group |-> OptText,
   disabled |-> Flag("no"), tooltip |-> OptText]

LEVELS == {"low", "medium", "high", "critical"}
RiskAssessment ==
  [risk_level |-> OneOf(LEVELS, "low"), risk_reasons |-> List,
   requires_human_approval |-> Flag("no"), approval_principal |-> OptText, mitigations |-> List]

ExtendedFrameMetadata ==
  [redaction_policy |-> OptPart, telemetry |-> OptPart, schema_fingerprint |-> OptPart,
   confidence_score |-> OptShare, source_capability_version |-> OptText, extra |-> Dict]

ExtendedSelectableItemMetadata ==
  [ui_hint |-> OptPart, risk_assessment |-> OptPart, estimated_duration_ms |-> OptCount,
   requires_confirmation |-> Flag("no"), extra |-> Dict]

_SENSITIVITY_LEVELS == {"public", "internal", "confidential", "restricted"}
Sensitivity == OneOf(_SENSITIVITY_LEVELS, "internal")
_LIFECYCLE_STATES == {"draft", "in_review", "active", "deprecated"}
Lifecycle == OneOf(_LIFECYCLE_STATES, "draft")

ReviewArtifact ==
  [artifact_id |-> Named, artifact_type |-> Named, source_project |-> Named,
   created_at |-> Stamp, subject_ref |-> OptText, summary |-> OptText, evidence_refs |-> List,
   decision_refs |-> List, metadata |-> Dict]

MemoryArtifact ==
  [memory_id |-> Named, memory_type |-> Named, content |-> Named, source |-> Named,
   created_at |-> Stamp, updated_at |-> OptText, scope |-> OptText,
   sensitivity |-> Sensitivity, confidence |-> OptNumber, expires_at |-> OptText,
   dependency_refs |-> List, provenance |-> Dict, metadata |-> Dict]

SessionHandoff ==
  [handoff_id |-> Named, from_session_id |-> Named, created_at |-> Stamp, summary |-> Named,
   to_session_id |-> OptText, sensitivity |-> Sensitivity, open_threads |-> List,
   memory_refs |-> List, expires_at |-> OptText, provenance |-> Dict, metadata |-> Dict]

LessonCard ==
  [lesson_id |-> Named, title |-> Named, body |-> Named, created_at |-> Stamp,
   lifecycle_state |-> Lifecycle, scope |-> OptText, sensitivity |-> Sensitivity,
   applicability |-> List, source_refs |-> List, expires_at |-> OptText, provenance |-> Dict,
   metadata |-> Dict]

SkillCard ==
  [skill_id |-> Named, name |-> Named, description |-> Named, created_at |-> Stamp,
   lifecycle_state |-> Lifecycle, steps |-> List, preconditions |-> List, scope |-> OptText,
   sensitivity |-> Sensitivity, source_refs |-> List, expires_at |-> OptText,
   provenance |-> Dict, metadata |-> Dict]

EvaluationArtifact ==
  [artifact_id |-> Named, producer |-> Named, created_at |-> Stamp,
   artifact_type |-> NamedOr("text"), producer_version |-> OptText,
   target_estimand |-> OptText, candidate_policy |-> OptText, baseline_policy |-> OptText,
   metrics |-> Dict, uncertainty |-> Dict,
   support_state |-> OneOf({"ok", "caution", "high_risk"}, "ok"),
   support_diagnostics |-> Dict, propensity_diagnostics |-> Dict, sensitivity |-> Sensitivity,
   warnings |-> List, recommendation |-> OptText,
   recommendation_kind |-> OptOneOf({"deploy", "do_not_deploy", "experiment_ready",
                                     "needs_more_data"}),
   limitations |-> List, provenance |-> Dict, metadata |-> Dict]

ArtifactSafetyGateRequest ==
  [request_id |-> Named, repository_root |-> Named, artifact_paths |-> List,
   diff_scope |-> OptText, policy_level |-> Text("text"), output_format |-> Text("text"),
   capability_id |-> OptText, metadata |-> Dict]

\* What a finding or a failure record has in it is left to the schema.
Records == Free({"[]", "[sound]", "[broken]"}, "[]")
ArtifactSafetyReport ==
  [report_id |-> Named, gate_id |-> Named, decision |-> OneOf({"pass", "fail"}, Required),
   created_at |-> Stamp, mode |-> OneOf({"advisory", "blocking"}, "advisory"),
   request_id |-> OptText, target_ref |-> OptText, summary |-> OptText, findings |-> Records,
   provenance |-> Dict, metadata |-> Dict]

\* "86" are 86 base64url characters, and nothing after them.
CapabilityTokenSignature ==
  [alg |-> OneOf({"ed25519", "es256"}, Required), kid |-> Named,
   sig |-> Field(Strings \cup {"86", "86+nl"}, {"86"}, Required),
   canonicalization |-> OneOf({"JCS"}, "JCS"), signed_at |-> OptStamp]

\* "hex" are as many lowercase hexadecimal digits as the field asks for.
OtelTraceMapping ==
  [trace_id |-> Field(Strings \cup {"hex", "hex+nl"}, {"hex"}, Required),
   span_id |-> Field(Strings \cup {"hex", "hex+nl"}, {"hex"}, Required),
   span_kind |-> OneOf({"INTERNAL", "CLIENT", "SERVER", "PRODUCER", "CONSUMER"}, Required),
   gen_ai_operation_name |-> OptText, gen_ai_agent_id |-> OptText, gen_ai_agent_name |-> OptText,
   gen_ai_tool_name |-> OptText, gen_ai_system |-> OptText,
   parent_span_id |-> Field(Strings \cup {"hex", "hex+nl", None}, {"hex", None}, None),
   semconv_version |-> OptText]

CompiledFlow ==
  [flow_id |-> Named, name |-> OptText, version |-> OptText, description |-> OptText,
   input_schema_ref |-> OptText, output_schema_ref |-> OptText, tool_dependencies |-> List,
   sensitivity |-> OptOneOf(_SENSITIVITY_LEVELS), side_effects |-> List,
   requires_authorization |-> Flag("yes"), metadata |-> Dict]

_CANDIDATE_TYPES == {"tool", "flow", "capability", "agent", "workflow"}
ExecutionCandidate ==
  [candidate_id |-> Named, candidate_type |-> OneOf(_CANDIDATE_TYPES, Required),
   name |-> OptText, version |-> OptText, description |-> OptText, compiled_flow |-> OptPart,
   metadata |-> Dict]

ExecutionRoutingDecision ==
  [decision_id |-> Named, candidate |-> Part, confidence |-> OptShare, reason_codes |-> List,
   reason |-> OptText, fallback_candidates |-> Parts("[]"), constraints |-> Dict,
   policy_context_ref |-> OptText, trace_ref |-> OptText, created_at |-> OptStamp,
   metadata |-> Dict]

ExecutionFeedback ==
  [decision_id |-> Named, candidate_id |-> Named, success |-> Flag(Required),
   timestamp |-> Stamp, latency_ms |-> OptCount, cost |-> Dict, quality_score |-> OptShare,
   error_type |-> OptText, error_message |-> OptText, trace_ref |-> OptText,
   execution_summary |-> Dict, metadata |-> Dict]

TraceBundle ==
  [bundle_id |-> Named, routing_decision |-> Part, policy_decisions |-> Parts(Required),
   frames |-> Parts(Required), handles |-> Parts(Required), trace_events |-> Parts(Required),
   canonicalization |-> OneOf({"JCS"}, "JCS"), signature |-> OptPart, created_at |-> OptStamp,
   metadata |-> Dict]

FailureCaseArtifact ==
  [failure_case_id |-> Named, created_at |-> Stamp, source_project |-> Named,
   property_name |-> Named,
   status |-> OneOf({"candidate", "regression", "ignored", "fixed"}, Required),
   property_description |-> OptText, severity |-> OptOneOf(LEVELS), seed |-> OptText,
   generator_config |-> Dict, trace_ref |-> OptText, minimized |-> Flag("no"),
   minimized_from_ref |-> OptText, expected_failure_mode |-> OptText, evidence_refs |-> List,
   sensitivity |-> Sensitivity, provenance |-> Dict, metadata |-> Dict]

ConformanceResult ==
  [result_version |-> OneOf({"1"}, Required), contract_version |-> Named,
   mode |-> OneOf({"corpus", "bundle"}, Required),
   target |-> Free(Strings \cup {None}, Required),
   status |-> OneOf({"pass", "fail"}, Required), checks_run |-> Count, failures |-> Count,
   generated_at |-> Stamp, runner |-> Named, failure_detail |-> List,
   failure_records |-> Records]
-----------------------------------------------------------------------------
(* Words: what a field may hold beside a text.                             *)

Forms ==
  {"", "time", "timez", "[]", "[..]", "{}", "{..}", "{other}", "[text]", "[empty]", "[sound]",
   "[broken]", "[21]", "sound", "broken", "yes", "no", "< 0", "0", "1", "> 1", "nan", "86",
   "86+nl", "hex", "hex+nl", "other"}
Vocabulary ==
  TRACE_EVENT_TYPES \cup TRACE_EVENT_OUTCOMES \cup LEVELS \cup _SENSITIVITY_LEVELS
    \cup _LIFECYCLE_STATES \cup _CANDIDATE_TYPES
    \cup {"allow", "deny", "ok", "caution", "high_risk", "deploy", "do_not_deploy",
          "experiment_ready", "needs_more_data", "pass", "fail", "advisory", "blocking", "ed25519",
          "es256", "JCS", "INTERNAL", "CLIENT", "SERVER", "PRODUCER", "CONSUMER", "candidate",
          "regression", "ignored", "fixed", "1", "corpus", "bundle"}

\* A text is none of the forms ("text" stands for what a field has by default),
\* and null and a missing default are no words.
ASSUME TextsAssumption == "text" \in Texts /\ Texts \cap Forms = {}
ASSUME SentinelAssumption ==
  {None, Required} \cap (Texts \cup Forms \cup Vocabulary) = {} /\ None # Required
=============================================================================
