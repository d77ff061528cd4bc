------------------------------- MODULE Schemas -------------------------------
(***************************************************************************)
(* The JSON Schemas of the contract types, as they are shipped in the      *)
(* bundle, and what becomes of an object on its way from one Python        *)
(* program to another: it is constructed, perhaps changed, serialised,     *)
(* validated and constructed again.                                        *)
(*                                                                         *)
(* `formats` tells whether the validator checks date-times: jsonschema     *)
(* does so only if another package is installed, which neither the dev     *)
(* extras nor the workflows install; ajv-formats always does.  Patterns    *)
(* and bounds are as jsonschema applies them: re.search takes $ for the    *)
(* place before a line feed at the end, too, and nan is neither below a    *)
(* minimum nor above a maximum.                                            *)
(***************************************************************************)
EXTENDS Contracts

Schema(required, properties) == [required |-> required, properties |-> properties]
NonEmpty == Texts
Nullable(S) == S \cup {None}
NullableText == Nullable(Strings)
DateTime(formats) == IF formats THEN {"time", "timez"} ELSE Stamps
Share == {"0", "1", "nan"}
Flags == {"yes", "no"}
Sound == {"[]", "[sound]"}

core__selectable_item(formats) ==
  Schema({"id", "label", "description"},
    [id |-> NonEmpty, label |-> NonEmpty, description |-> NonEmpty, capability_id |-> Strings,
     metadata |-> Dicts])

core__choice_card(formats) ==
  Schema({"id", "items"},
    [id |-> NonEmpty, items |-> {"[sound]"}, context_hint |-> Strings, metadata |-> Dicts])

core__routing_decision(formats) ==
  Schema({"id", "choice_cards", "timestamp"},
    [id |-> NonEmpty, choice_cards |-> {"[sound]"}, selected_item_id |-> NullableText,
     selected_card_id |-> NullableText, timestamp |-> DateTime(formats),
     context_summary |-> Strings, metadata |-> Dicts])

core__capability(formats) ==
  Schema({"id", "name", "version", "description"},
    [id |-> NonEmpty, name |-> NonEmpty, version |-> NonEmpty, description |-> NonEmpty,
     input_schema_ref |-> Strings, output_schema_ref |-> Strings, tags |-> Lists,
     metadata |-> Dicts])

core__capability_token(formats) ==
  Schema({"token_id", "principal", "scope", "issued_at"},
    [token_id |-> NonEmpty, principal |-> NonEmpty, scope |-> {"[text]"},
     issued_at |-> DateTime(formats), expires_at |-> Nullable(DateTime(formats)),
     single_use |-> Flags, issuer |-> Strings, metadata |-> Dicts])

core__policy_decision(formats) ==
  Schema({"decision_id", "decision", "capability_id", "principal", "timestamp"},
    [decision_id |-> NonEmpty, decision |-> {"allow", "deny"}, capability_id |-> NonEmpty,
     principal |-> NonEmpty, token_id |-> NullableText, reason |-> Strings,
     timestamp |-> DateTime(formats), metadata |-> Dicts])

core__frame(formats) ==
  Schema({"frame_id", "capability_id", "summary", "created_at"},
    [frame_id |-> NonEmpty, capability_id |-> NonEmpty, summary |-> NonEmpty,
     structured_data |-> Nullable(Dicts), handle_refs |-> {"[]", "[text]"},
     redaction_notes |-> Strings, created_at |-> DateTime(formats), metadata |-> Dicts])

core__handle(formats) ==
  Schema({"handle_id", "capability_id", "artifact_type", "created_at"},
    [handle_id |-> NonEmpty, capability_id |-> NonEmpty, artifact_type |-> NonEmpty,
     created_at |-> DateTime(formats), expires_at |-> Nullable(DateTime(formats)),
     access_policy |-> Strings, byte_size |-> Nullable({"0"}), metadata |-> Dicts])

core__trace_event(formats) ==
  Schema({"event_id", "event_type", "timestamp"},
    [event_id |-> NonEmpty, event_type |-> TRACE_EVENT_TYPES, timestamp |-> DateTime(formats),
     capability_id |-> NullableText, principal |-> NullableText, decision_id |-> NullableText,
     frame_id |-> NullableText, handle_id |-> NullableText,
     outcome |-> {"success", "failure", "partial"}, error_message |-> NullableText,
     metadata |-> Dicts])

CoreSchemas(formats) ==
  [SelectableItem |-> core__selectable_item(formats), ChoiceCard |-> core__choice_card(formats),
   RoutingDecision |-> core__routing_decision(formats), Capability |-> core__capability(formats),
   CapabilityToken |-> core__capability_token(formats),
   PolicyDecision |-> core__policy_decision(formats), Frame |-> core__frame(formats),
   Handle |-> core__handle(formats), TraceEvent |-> core__trace_event(formats)]

-----------------------------------------------------------------------------
\* Baggage of anything but strings is no member of Dicts.
extended__telemetry_hint(formats) ==
  Schema({},
    [trace_id |-> NullableText, span_id |-> NullableText, baggage |-> Dicts])

extended__schema_fingerprint(formats) ==
  Schema({"schema_id", "schema_version"},
    [schema_id |-> NonEmpty, schema_version |-> NonEmpty, content_hash |-> NullableText,
     hash_algorithm |-> Strings])

extended__redaction_policy(formats) ==
  Schema({"policy_id"},
    [policy_id |-> NonEmpty, redacted_fields |-> Lists, truncated_fields |-> Lists,
     redaction_reason |-> NullableText, pii_detected |-> Flags, pii_types |-> Lists])

extended__ui_hint(formats) ==
  Schema({},
    [icon |-> NullableText, color |-> NullableText, priority |-> Nullable({"0"}),
     group |-> NullableText, disabled |-> Flags, tooltip |-> NullableText])

extended__risk_assessment(formats) ==
  Schema({},
    [risk_level |-> LEVELS, risk_reasons |-> Lists, requires_human_approval |-> Flags,
     approval_principal |-> NullableText, mitigations |-> Lists])

extended__extended_frame_metadata(formats) ==
  Schema({},
    [redaction_policy |-> Nullable({"sound"}), telemetry |-> Nullable({"sound"}),
     schema_fingerprint |-> Nullable({"sound"}), confidence_score |-> Nullable(Share),
     source_capability_version |-> NullableText, extra |-> Dicts])

extended__extended_selectable_item_metadata(formats) ==
  Schema({},
    [ui_hint |-> Nullable({"sound"}), risk_assessment |-> Nullable({"sound"}),
     estimated_duration_ms |-> Nullable({"0"}), requires_confirmation |-> Flags, extra |-> Dicts])

extended__review_artifact(formats) ==
  Schema({"artifact_id", "artifact_type", "source_project", "created_at"},
    [artifact_id |-> NonEmpty, artifact_type |-> NonEmpty, source_project |-> NonEmpty,
     created_at |-> DateTime(formats), subject_ref |-> NullableText, summary |-> NullableText,
     evidence_refs |-> Lists, decision_refs |-> Lists, metadata |-> Dicts])

extended__memory_artifact(formats) ==
  Schema({"memory_id", "memory_type", "content", "source", "created_at"},
    [memory_id |-> NonEmpty, memory_type |-> NonEmpty, content |-> NonEmpty, source |-> NonEmpty,
     created_at |-> DateTime(formats), updated_at |-> NullableText, scope |-> NullableText,
     sensitivity |-> _SENSITIVITY_LEVELS, confidence |-> Nullable({"0"}),
     expires_at |-> NullableText, dependency_refs |-> Lists, provenance |-> Dicts,
     metadata |-> Dicts])

extended__session_handoff(formats) ==
  Schema({"handoff_id", "from_session_id", "created_at", "summary"},
    [handoff_id |-> NonEmpty, from_session_id |-> NonEmpty, created_at |-> DateTime(formats),
     summary |-> NonEmpty, to_session_id |-> NullableText, sensitivity |-> _SENSITIVITY_LEVELS,
     open_threads |-> Lists, memory_refs |-> Lists, expires_at |-> NullableText,
     provenance |-> Dicts, metadata |-> Dicts])

extended__lesson_card(formats) ==
  Schema({"lesson_id", "title", "body", "created_at"},
    [lesson_id |-> NonEmpty, title |-> NonEmpty, body |-> NonEmpty,
     created_at |-> DateTime(formats), lifecycle_state |-> _LIFECYCLE_STATES,
     scope |-> NullableText, sensitivity |-> _SENSITIVITY_LEVELS, applicability |-> Lists,
     source_refs |-> Lists, expires_at |-> NullableText, provenance |-> Dicts,
     metadata |-> Dicts])

extended__skill_card(formats) ==
  Schema({"skill_id", "name", "description", "created_at"},
    [skill_id |-> NonEmpty, name |-> NonEmpty, description |-> NonEmpty,
     created_at |-> DateTime(formats), lifecycle_state |-> _LIFECYCLE_STATES, steps |-> Lists,
     preconditions |-> Lists, scope |-> NullableText, sensitivity |-> _SENSITIVITY_LEVELS,
     source_refs |-> Lists, expires_at |-> NullableText, provenance |-> Dicts,
     metadata |-> Dicts])

extended__evaluation_artifact(formats) ==
  Schema({"artifact_id", "producer", "created_at"},
    [artifact_id |-> NonEmpty, producer |-> NonEmpty, created_at |-> DateTime(formats),
     artifact_type |-> NonEmpty, producer_version |-> NullableText,
     target_estimand |-> NullableText, candidate_policy |-> NullableText,
     baseline_policy |-> NullableText, metrics |-> Dicts, uncertainty |-> Dicts,
     support_state |-> {"ok", "caution", "high_risk"}, support_diagnostics |-> Dicts,
     propensity_diagnostics |-> Dicts, sensitivity |-> _SENSITIVITY_LEVELS, warnings |-> Lists,
     recommendation |-> NullableText, recommendation_kind |-> Nullable({"deploy", "do_not_deploy",
     "experiment_ready", "needs_more_data"}), limitations |-> Lists, provenance |-> Dicts,
     metadata |-> Dicts])

extended__artifact_safety_gate_request(formats) ==
  Schema({"request_id", "repository_root"},
    [request_id |-> NonEmpty, repository_root |-> NonEmpty, artifact_paths |-> Lists,
     diff_scope |-> NullableText, policy_level |-> Strings, output_format |-> Strings,
     capability_id |-> NullableText, metadata |-> Dicts])

extended__artifact_safety_report(formats) ==
  Schema({"report_id", "gate_id", "decision", "created_at"},
    [report_id |-> NonEmpty, gate_id |-> NonEmpty, decision |-> {"pass", "fail"},
     created_at |-> DateTime(formats), mode |-> {"advisory", "blocking"},
     request_id |-> NullableText, target_ref |-> NullableText, summary |-> NullableText,
     findings |-> Sound, provenance |-> Dicts, metadata |-> Dicts])

extended__capability_token_signature(formats) ==
  Schema({"alg", "kid", "sig"},
    [alg |-> {"ed25519", "es256"}, kid |-> NonEmpty, sig |-> {"86", "86+nl"},
     canonicalization |-> {"JCS"}, signed_at |-> Nullable(DateTime(formats))])

extended__otel_trace_mapping(formats) ==
  Schema({"trace_id", "span_id", "span_kind"},
    [trace_id |-> {"hex", "hex+nl"}, span_id |-> {"hex", "hex+nl"},
     span_kind |-> {"INTERNAL", "CLIENT", "SERVER", "PRODUCER", "CONSUMER"},
     gen_ai_operation_name |-> NullableText, gen_ai_agent_id |-> NullableText,
     gen_ai_agent_name |-> NullableText, gen_ai_tool_name |-> NullableText,
     gen_ai_system |-> NullableText, parent_span_id |-> Nullable({"hex", "hex+nl"}),
     semconv_version |-> NullableText])

extended__compiled_flow(formats) ==
  Schema({"flow_id"},
    [flow_id |-> NonEmpty, name |-> NullableText, version |-> NullableText,
     description |-> NullableText, input_schema_ref |-> NullableText,
     output_schema_ref |-> NullableText, tool_dependencies |-> Lists,
     sensitivity |-> Nullable(_SENSITIVITY_LEVELS), side_effects |-> Lists,
     requires_authorization |-> Flags, metadata |-> Dicts])

extended__execution_candidate(formats) ==
  Schema({"candidate_id", "candidate_type"},
    [candidate_id |-> NonEmpty,
     candidate_type |-> {"tool", "flow", "capability", "agent", "workflow"},
     name |-> NullableText, version |-> NullableText, description |-> NullableText,
     compiled_flow |-> Nullable({"sound"}), metadata |-> Dicts])

extended__execution_routing_decision(formats) ==
  Schema({"decision_id", "candidate"},
    [decision_id |-> NonEmpty, candidate |-> {"sound"}, confidence |-> Nullable(Share),
     reason_codes |-> Lists, reason |-> NullableText, fallback_candidates |-> Sound,
     constraints |-> Dicts, policy_context_ref |-> NullableText, trace_ref |-> NullableText,
     created_at |-> Nullable(DateTime(formats)), metadata |-> Dicts])

extended__execution_feedback(formats) ==
  Schema({"decision_id", "candidate_id", "success", "timestamp"},
    [decision_id |-> NonEmpty, candidate_id |-> NonEmpty, success |-> Flags,
     timestamp |-> DateTime(formats), latency_ms |-> Nullable({"0"}), cost |-> Dicts,
     quality_score |-> Nullable(Share), error_type |-> NullableText,
     error_message |-> NullableText, trace_ref |-> NullableText, execution_summary |-> Dicts,
     metadata |-> Dicts])

extended__trace_bundle(formats) ==
  Schema({"bundle_id", "routing_decision", "policy_decisions", "frames", "handles",
         "trace_events"},
    [bundle_id |-> NonEmpty, routing_decision |-> {"sound"}, policy_decisions |-> Sound,
     frames |-> Sound, handles |-> Sound, trace_events |-> Sound, canonicalization |-> {"JCS"},
     signature |-> {"sound"}, created_at |-> Nullable(DateTime(formats)), metadata |-> Dicts])

extended__failure_case_artifact(formats) ==
  Schema({"failure_case_id", "created_at", "source_project", "property_name", "status"},
    [failure_case_id |-> NonEmpty, created_at |-> DateTime(formats), source_project |-> NonEmpty,
     property_name |-> NonEmpty, status |-> {"candidate", "regression", "ignored", "fixed"},
     property_description |-> NullableText,
     severity |-> Nullable({"low", "medium", "high", "critical"}), seed |-> NullableText,
     generator_config |-> Dicts, trace_ref |-> NullableText, minimized |-> Flags,
     minimized_from_ref |-> NullableText, expected_failure_mode |-> NullableText,
     evidence_refs |-> Lists, sensitivity |-> _SENSITIVITY_LEVELS, provenance |-> Dicts,
     metadata |-> Dicts])

extended__conformance_result(formats) ==
  Schema({"result_version", "contract_version", "mode", "target", "status", "checks_run",
         "failures", "generated_at", "runner"},
    [result_version |-> {"1"}, contract_version |-> NonEmpty, mode |-> {"corpus", "bundle"},
     target |-> NullableText, status |-> {"pass", "fail"}, checks_run |-> {"0"},
     failures |-> {"0"}, failure_detail |-> Lists, failure_records |-> Sound,
     generated_at |-> DateTime(formats), runner |-> NonEmpty])

ExtendedSchemas(formats) ==
  [TelemetryHint |-> extended__telemetry_hint(formats),
   SchemaFingerprint |-> extended__schema_fingerprint(formats),
   RedactionPolicy |-> extended__redaction_policy(formats), UIHint |-> extended__ui_hint(formats),
   RiskAssessment |-> extended__risk_assessment(formats),
   ExtendedFrameMetadata |-> extended__extended_frame_metadata(formats),
   ExtendedSelectableItemMetadata |-> extended__extended_selectable_item_metadata(formats),
   ReviewArtifact |-> extended__review_artifact(formats),
   MemoryArtifact |-> extended__memory_artifact(formats),
   SessionHandoff |-> extended__session_handoff(formats),
   LessonCard |-> extended__lesson_card(formats), SkillCard |-> extended__skill_card(formats),
   EvaluationArtifact |-> extended__evaluation_artifact(formats),
   ArtifactSafetyGateRequest |-> extended__artifact_safety_gate_request(formats),
   ArtifactSafetyReport |-> extended__artifact_safety_report(formats),
   CapabilityTokenSignature |-> extended__capability_token_signature(formats),
   OtelTraceMapping |-> extended__otel_trace_mapping(formats),
   CompiledFlow |-> extended__compiled_flow(formats),
   ExecutionCandidate |-> extended__execution_candidate(formats),
   ExecutionRoutingDecision |-> extended__execution_routing_decision(formats),
   ExecutionFeedback |-> extended__execution_feedback(formats),
   TraceBundle |-> extended__trace_bundle(formats),
   FailureCaseArtifact |-> extended__failure_case_artifact(formats),
   ConformanceResult |-> extended__conformance_result(formats)]
=============================================================================
