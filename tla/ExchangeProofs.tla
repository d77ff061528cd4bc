--------------------------- MODULE ExchangeProofs ---------------------------
(***************************************************************************)
(* The two definitions of every contract type, compared: for each field of *)
(* each class, what __post_init__ lets pass and what the schema accepts    *)
(* differ where Odd and Unconstructible say so, and nowhere else.  What    *)
(* follows for constructing, sending, validating and receiving an object   *)
(* is proved once, for all classes.                                        *)
(***************************************************************************)
EXTENDS Exchange, TLAPS

-----------------------------------------------------------------------------
(* A field and its schema.                                                 *)

\* Fields of values that are not whole, or too many.
Marks == {"[21]", "[empty]", "[broken]", "broken"}
Odd(formats, fd, v) == v \in Marks \/ (formats /\ "time" \in fd.values /\ v \in Strings)

\* What the wire form of an object leaves out.
Pruned == {None, "[]", "{}"}
Gone(c, f) ==
  CASE c \in CoreTypes \cup {"CapabilityTokenSignature"} -> Pruned
    [] c = "TraceBundle" /\ f = "metadata" -> Dicts
    [] c = "TraceBundle" /\ f = "signature" -> {None}
    [] OTHER -> {}

\* Something passes, and so does the default.  Of what the schema accepts, what
\* is constructible passes; of what passes, and is on the wire, the schema
\* accepts all that is not odd; and what is left out was neither odd nor needed.
\* What no constructor takes, the schema accepts wherever the type lets it in.
Broad == {"86+nl", "hex+nl", "nan"}
Fits(formats, fd, p, gone) ==
  /\ fd.ok # {} /\ fd.ok \subseteq fd.values
  /\ fd.default = Required \/ fd.default \in fd.ok
  /\ \A v \in p : v \in fd.ok \/ Unconstructible(fd, v)
  /\ \A v \in fd.ok : ~Unconstructible(fd, v)
  /\ \A v \in fd.values \cap Broad : v \in p
  /\ \A v \in fd.ok \ gone : v \in p <=> ~Odd(formats, fd, v)
  /\ \A v \in fd.ok \cap gone : ~Odd(formats, fd, v) /\ fd.default # Required

\* What is left out is what the receiver has by default.
Restored(fd, gone) == \A v \in fd.values \cap gone : fd.default \in {v, Required}

Mandatory(formats, fd, p, gone) == fd.default = Required /\ Fits(formats, fd, p, gone)
Optional(formats, fd, p, gone) == fd.default # Required /\ Fits(formats, fd, p, gone)

-----------------------------------------------------------------------------
(* The kinds of fields, in pruned objects and in those sent as they are.   *)

LEMMA Words ==
  /\ "text" \in Texts
  /\ \A t \in Texts : t \notin Forms /\ t # None /\ t # Required
  /\ None \notin Forms /\ Required \notin Forms /\ None # Required
BY TextsAssumption, SentinelAssumption DEF TextsAssumption, SentinelAssumption

LEMMA NamedFits ==
  ASSUME NEW formats \in BOOLEAN, NEW gone \in {Pruned, {}}
  PROVE  Mandatory(formats, Named, NonEmpty, gone) /\ Restored(Named, gone)
BY Words
DEF Forms, Mandatory, Fits, Restored, Pruned, Odd,
    Unconstructible, Broad, Marks, Field, Strings, Named, NonEmpty

LEMMA OptTextFits ==
  ASSUME NEW formats \in BOOLEAN, NEW gone \in {Pruned, {}}
  PROVE  /\ Optional(formats, OptText, NullableText, gone)
         /\ Optional(formats, OptText, Strings, Pruned)
         /\ Restored(OptText, gone)
BY Words
DEF Forms, Optional, Fits, Restored, Pruned, Odd,
    Unconstructible, Broad, Marks, Field, Free, Strings, OptText, NullableText, Nullable

LEMMA TextFits ==
  ASSUME NEW formats \in BOOLEAN
  PROVE  /\ Optional(formats, Text("text"), Strings, {}) /\ Restored(Text("text"), {})
         /\ Optional(formats, NamedOr("text"), NonEmpty, {}) /\ Restored(NamedOr("text"), {})
BY Words
DEF Forms, Optional, Fits, Restored, Odd,
    Unconstructible, Broad, Marks, Field, Free, Strings, Text, NamedOr, NonEmpty

LEMMA TimeFits ==
  ASSUME NEW formats \in BOOLEAN
  PROVE  /\ Mandatory(formats, Time, DateTime(formats), Pruned) /\ Restored(Time, Pruned)
         /\ Optional(formats, OptTime, Nullable(DateTime(formats)), Pruned)
         /\ Restored(OptTime, Pruned)
BY Words
DEF Forms, Mandatory, Optional, Fits, Restored,
    Pruned, Odd, Unconstructible, Broad, Marks, Field, Free, Strings, Stamps, DateTime, Time,
    OptTime, Nullable

LEMMA StampFits ==
  ASSUME NEW formats \in BOOLEAN, NEW gone \in {Pruned, {}}
  PROVE  /\ Mandatory(formats, Stamp, DateTime(formats), {}) /\ Restored(Stamp, {})
         /\ Optional(formats, OptStamp, Nullable(DateTime(formats)), gone)
         /\ Restored(OptStamp, gone)
BY Words
DEF Forms, Mandatory, Optional, Fits, Restored,
    Pruned, Odd, Unconstructible, Broad, Marks, Field, Free, Strings, Stamps, DateTime, Stamp,
    OptStamp, Nullable

LEMMA CollectionFits ==
  ASSUME NEW formats \in BOOLEAN, NEW gone \in {Pruned, {}}
  PROVE  /\ Optional(formats, Dict, Dicts, gone) /\ Restored(Dict, gone)
         /\ Optional(formats, List, Lists, gone) /\ Restored(List, gone)
BY Words
DEF Forms, Optional, Fits, Restored, Pruned, Odd,
    Unconstructible, Broad, Marks, Field, Free, Strings, Dicts, Lists, Dict, List

LEMMA NumberFits ==
  ASSUME NEW formats \in BOOLEAN, NEW gone \in {Pruned, {}}
  PROVE  /\ Optional(formats, OptCount, Nullable({"0"}), gone) /\ Restored(OptCount, gone)
         /\ Optional(formats, OptShare, Nullable(Share), {}) /\ Restored(OptShare, {})
         /\ Optional(formats, OptNumber, Nullable({"0"}), {}) /\ Restored(OptNumber, {})
         /\ Mandatory(formats, Count, {"0"}, {}) /\ Restored(Count, {})
BY Words
DEF Forms, Mandatory, Optional, Fits, Restored,
    Pruned, Odd, Unconstructible, Broad, Marks, Field, Free, Strings, OptCount, OptShare, Share,
    OptNumber,
    Count, Nullable

LEMMA FlagFits ==
  ASSUME NEW formats \in BOOLEAN, NEW gone \in {Pruned, {}}
  PROVE  /\ \A d \in Flags : Optional(formats, Flag(d), Flags, gone) /\ Restored(Flag(d), gone)
         /\ Mandatory(formats, Flag(Required), Flags, gone) /\ Restored(Flag(Required), gone)
BY Words
DEF Forms, Mandatory, Optional, Fits, Restored,
    Pruned, Odd, Unconstructible, Broad, Marks, Field, Free, Strings, Flag, Flags

LEMMA PartFits ==
  ASSUME NEW formats \in BOOLEAN
  PROVE  /\ Mandatory(formats, Part, {"sound"}, {}) /\ Restored(Part, {})
         /\ Optional(formats, OptPart, Nullable({"sound"}), {}) /\ Restored(OptPart, {})
         /\ Optional(formats, OptPart, {"sound"}, {None}) /\ Restored(OptPart, {None})
         /\ Mandatory(formats, SomeParts, {"[sound]"}, Pruned) /\ Restored(SomeParts, Pruned)
         /\ Mandatory(formats, Parts(Required), Sound, {}) /\ Restored(Parts(Required), {})
         /\ Optional(formats, Parts("[]"), Sound, {}) /\ Restored(Parts("[]"), {})
         /\ Optional(formats, Records, Sound, {}) /\ Restored(Records, {})
BY Words
DEF Forms, Mandatory, Optional, Fits, Restored,
    Pruned, Odd, Unconstructible, Broad, Marks, Field, Free, Strings, Part, OptPart, SomeParts,
    Parts, Records, Sound,
    Nullable

\* Words that are not forms: those of a vocabulary.
Plain(S) ==
  S # {} /\ S \cap (Marks \cup Pruned \cup Broad \cup {Required, "", "other", "time", "timez"}) = {}

LEMMA OneOfFits ==
  ASSUME NEW formats \in BOOLEAN, NEW gone \in {Pruned, {}}, NEW S, Plain(S)
  PROVE  /\ \A d \in S : Optional(formats, OneOf(S, d), S, gone) /\ Restored(OneOf(S, d), gone)
         /\ Mandatory(formats, OneOf(S, Required), S, gone) /\ Restored(OneOf(S, Required), gone)
         /\ Optional(formats, OptOneOf(S), Nullable(S), gone)
         /\ Optional(formats, OptOneOf(S), S, Pruned)
         /\ Restored(OptOneOf(S), gone)
BY Words
DEF Forms, Mandatory, Optional, Fits, Restored,
    Pruned, Odd, Unconstructible, Broad, Marks, Field, Free, Strings, OneOf, OptOneOf, Nullable,
    Plain

LEMMA VocabularyPlain ==
  ASSUME NEW S \in SUBSET Vocabulary, S # {}
  PROVE  Plain(S)
<1>1. None \notin S /\ Required \notin S  BY SentinelAssumption DEF SentinelAssumption
<1>2. Vocabulary \cap (Marks \cup Broad \cup {"", "[]", "{}", "other", "time", "timez"}) = {}
  BY DEF Vocabulary, Marks, Broad, TRACE_EVENT_TYPES, TRACE_EVENT_OUTCOMES, LEVELS,
         _SENSITIVITY_LEVELS, _LIFECYCLE_STATES, _CANDIDATE_TYPES
<1> QED BY <1>1, <1>2 DEF Plain, Pruned

LEMMA SharedVocabularyFits ==
  ASSUME NEW formats \in BOOLEAN
  PROVE  /\ Optional(formats, Sensitivity, _SENSITIVITY_LEVELS, {}) /\ Restored(Sensitivity, {})
         /\ Optional(formats, Lifecycle, _LIFECYCLE_STATES, {}) /\ Restored(Lifecycle, {})
<1>1. Plain(_SENSITIVITY_LEVELS) /\ "internal" \in _SENSITIVITY_LEVELS
  BY VocabularyPlain DEF Vocabulary, _SENSITIVITY_LEVELS
<1>2. Plain(_LIFECYCLE_STATES) /\ "draft" \in _LIFECYCLE_STATES
  BY VocabularyPlain DEF Vocabulary, _LIFECYCLE_STATES
<1> QED BY <1>1, <1>2, OneOfFits DEF Sensitivity, Lifecycle

-----------------------------------------------------------------------------
(* The classes.                                                            *)

\* What does not come back.
Lost(c, f) == (c = "Frame" /\ f = "structured_data") \/ (c = "TraceBundle" /\ f = "metadata")

\* A class and its schema have the same fields, demand the same ones, and agree
\* about each.
Alike(formats, c, k, s) ==
  /\ DOMAIN s.properties = DOMAIN k /\ s.required \subseteq DOMAIN k
  /\ \A f \in DOMAIN k :
       /\ f \in s.required => Mandatory(formats, k[f], s.properties[f], Gone(c, f))
       /\ f \notin s.required => Optional(formats, k[f], s.properties[f], Gone(c, f))
       /\ Lost(c, f) \/ Restored(k[f], Gone(c, f))

LEMMA SelectableItemAlike ==
  ASSUME NEW formats \in BOOLEAN
  PROVE  Alike(formats, "SelectableItem", SelectableItem, core__selectable_item(formats))
BY NamedFits, OptTextFits, CollectionFits
DEF Alike, Gone, CoreTypes, SelectableItem, core__selectable_item, Schema

LEMMA ChoiceCardAlike ==
  ASSUME NEW formats \in BOOLEAN
  PROVE  Alike(formats, "ChoiceCard", ChoiceCard, core__choice_card(formats))
<1>1. /\ Mandatory(formats, ChoiceCard.items, {"[sound]"}, Pruned)
      /\ Restored(ChoiceCard.items, Pruned)
  BY Words DEF Forms, Mandatory, Fits, Odd, Unconstructible, Broad,
      Marks, Strings, Restored, Pruned, Field, ChoiceCard
<1> QED BY <1>1, NamedFits, OptTextFits, CollectionFits
    DEF Alike, Gone, CoreTypes, ChoiceCard, core__choice_card, Schema

LEMMA RoutingDecisionAlike ==
  ASSUME NEW formats \in BOOLEAN
  PROVE  Alike(formats, "RoutingDecision", RoutingDecision, core__routing_decision(formats))
BY NamedFits, PartFits, TimeFits, OptTextFits, CollectionFits
DEF Alike, Gone, CoreTypes, RoutingDecision, core__routing_decision, Schema

LEMMA CapabilityAlike ==
  ASSUME NEW formats \in BOOLEAN
  PROVE  Alike(formats, "Capability", Capability, core__capability(formats))
BY NamedFits, OptTextFits, CollectionFits
DEF Alike, Gone, CoreTypes, Capability, core__capability, Schema

LEMMA CapabilityTokenAlike ==
  ASSUME NEW formats \in BOOLEAN
  PROVE  Alike(formats, "CapabilityToken", CapabilityToken, core__capability_token(formats))
<1>1. /\ Mandatory(formats, CapabilityToken.scope, {"[text]"}, Pruned)
      /\ Restored(CapabilityToken.scope, Pruned)
  BY Words DEF Forms, Mandatory, Fits, Odd, Unconstructible, Broad,
      Marks, Strings, Restored, Pruned, Field,
      CapabilityToken
<1> QED BY <1>1, NamedFits, TimeFits, FlagFits, OptTextFits, CollectionFits
    DEF Alike, Gone, CoreTypes, CapabilityToken, core__capability_token, Schema, Flags

LEMMA PolicyDecisionAlike ==
  ASSUME NEW formats \in BOOLEAN
  PROVE  Alike(formats, "PolicyDecision", PolicyDecision, core__policy_decision(formats))
<1>1. Plain({"allow", "deny"})  BY VocabularyPlain DEF Vocabulary
<1>2. /\ Mandatory(formats, PolicyDecision.decision, {"allow", "deny"}, Pruned)
      /\ Restored(PolicyDecision.decision, Pruned)
  BY <1>1, OneOfFits DEF PolicyDecision
<1> QED BY <1>2, NamedFits, TimeFits, OptTextFits, CollectionFits
    DEF Alike, Gone, CoreTypes, PolicyDecision, core__policy_decision, Schema

LEMMA FrameAlike ==
  ASSUME NEW formats \in BOOLEAN
  PROVE  Alike(formats, "Frame", Frame, core__frame(formats))
<1>1. Optional(formats, Frame.structured_data, Nullable(Dicts), Pruned)
  BY Words DEF Forms, Optional, Fits, Odd, Unconstructible, Broad,
      Marks, Strings, Pruned, Field, Free, Dicts, Nullable,
      Frame
<1>2. /\ Optional(formats, Frame.handle_refs, {"[]", "[text]"}, Pruned)
      /\ Restored(Frame.handle_refs, Pruned)
  BY Words DEF Forms, Optional, Fits, Odd, Unconstructible, Broad,
      Marks, Strings, Restored, Pruned, Field, Free, Frame
<1> QED BY <1>1, <1>2, NamedFits, TimeFits, OptTextFits, CollectionFits
    DEF Alike, Gone, CoreTypes, Lost, Frame, core__frame, Schema

LEMMA HandleAlike ==
  ASSUME NEW formats \in BOOLEAN
  PROVE  Alike(formats, "Handle", Handle, core__handle(formats))
BY NamedFits, TimeFits, OptTextFits, NumberFits, CollectionFits
DEF Alike, Gone, CoreTypes, Handle, core__handle, Schema

LEMMA TraceEventAlike ==
  ASSUME NEW formats \in BOOLEAN
  PROVE  Alike(formats, "TraceEvent", TraceEvent, core__trace_event(formats))
<1>1. Plain(TRACE_EVENT_TYPES)  BY VocabularyPlain DEF Vocabulary, TRACE_EVENT_TYPES
<1>2. /\ Mandatory(formats, TraceEvent.event_type, TRACE_EVENT_TYPES, Pruned)
      /\ Restored(TraceEvent.event_type, Pruned)
  BY <1>1, OneOfFits DEF TraceEvent
<1>3. Plain(TRACE_EVENT_OUTCOMES)  BY VocabularyPlain DEF Vocabulary, TRACE_EVENT_OUTCOMES
<1>4. /\ Optional(formats, TraceEvent.outcome, {"success", "failure", "partial"}, Pruned)
      /\ Restored(TraceEvent.outcome, Pruned)
  BY <1>3, OneOfFits DEF TraceEvent, TRACE_EVENT_OUTCOMES
<1> QED BY <1>2, <1>4, NamedFits, TimeFits, OptTextFits, CollectionFits
    DEF Alike, Gone, CoreTypes, TraceEvent, core__trace_event, Schema

LEMMA TelemetryHintAlike ==
  ASSUME NEW formats \in BOOLEAN
  PROVE  Alike(formats, "TelemetryHint", TelemetryHint, extended__telemetry_hint(formats))
BY OptTextFits, CollectionFits
DEF Alike, Gone, CoreTypes, TelemetryHint, extended__telemetry_hint, Schema

LEMMA SchemaFingerprintAlike ==
  ASSUME NEW formats \in BOOLEAN
  PROVE  Alike(formats, "SchemaFingerprint", SchemaFingerprint,
               extended__schema_fingerprint(formats))
BY NamedFits, OptTextFits, TextFits
DEF Alike, Gone, CoreTypes, SchemaFingerprint, extended__schema_fingerprint, Schema

LEMMA RedactionPolicyAlike ==
  ASSUME NEW formats \in BOOLEAN
  PROVE  Alike(formats, "RedactionPolicy", RedactionPolicy, extended__redaction_policy(formats))
BY NamedFits, CollectionFits, OptTextFits, FlagFits
DEF Alike, Gone, CoreTypes, RedactionPolicy, extended__redaction_policy, Schema, Flags

LEMMA UIHintAlike ==
  ASSUME NEW formats \in BOOLEAN
  PROVE  Alike(formats, "UIHint", UIHint, extended__ui_hint(formats))
BY OptTextFits, NumberFits, FlagFits
DEF Alike, Gone, CoreTypes, UIHint, extended__ui_hint, Schema, Flags

LEMMA RiskAssessmentAlike ==
  ASSUME NEW formats \in BOOLEAN
  PROVE  Alike(formats, "RiskAssessment", RiskAssessment, extended__risk_assessment(formats))
<1>1. Plain(LEVELS)  BY VocabularyPlain DEF Vocabulary, LEVELS
<1>2. /\ Optional(formats, RiskAssessment.risk_level, LEVELS, {})
      /\ Restored(RiskAssessment.risk_level, {})
  BY <1>1, OneOfFits DEF RiskAssessment, LEVELS
<1> QED BY <1>2, CollectionFits, FlagFits, OptTextFits
    DEF Alike, Gone, CoreTypes, RiskAssessment, extended__risk_assessment, Schema, Flags

LEMMA ExtendedFrameMetadataAlike ==
  ASSUME NEW formats \in BOOLEAN
  PROVE  Alike(formats, "ExtendedFrameMetadata", ExtendedFrameMetadata,
               extended__extended_frame_metadata(formats))
BY PartFits, NumberFits, OptTextFits, CollectionFits
DEF Alike, Gone, CoreTypes, ExtendedFrameMetadata, extended__extended_frame_metadata, Schema

LEMMA ExtendedSelectableItemMetadataAlike ==
  ASSUME NEW formats \in BOOLEAN
  PROVE  Alike(formats, "ExtendedSelectableItemMetadata", ExtendedSelectableItemMetadata,
               extended__extended_selectable_item_metadata(formats))
BY PartFits, NumberFits, FlagFits, CollectionFits
DEF Alike, Gone, CoreTypes, ExtendedSelectableItemMetadata,
    extended__extended_selectable_item_metadata, Schema, Flags

LEMMA ReviewArtifactAlike ==
  ASSUME NEW formats \in BOOLEAN
  PROVE  Alike(formats, "ReviewArtifact", ReviewArtifact, extended__review_artifact(formats))
BY NamedFits, StampFits, OptTextFits, CollectionFits
DEF Alike, Gone, CoreTypes, ReviewArtifact, extended__review_artifact, Schema

LEMMA MemoryArtifactAlike ==
  ASSUME NEW formats \in BOOLEAN
  PROVE  Alike(formats, "MemoryArtifact", MemoryArtifact, extended__memory_artifact(formats))
BY NamedFits, StampFits, OptTextFits, SharedVocabularyFits, NumberFits, CollectionFits
DEF Alike, Gone, CoreTypes, MemoryArtifact, extended__memory_artifact, Schema

LEMMA SessionHandoffAlike ==
  ASSUME NEW formats \in BOOLEAN
  PROVE  Alike(formats, "SessionHandoff", SessionHandoff, extended__session_handoff(formats))
BY NamedFits, StampFits, OptTextFits, SharedVocabularyFits, CollectionFits
DEF Alike, Gone, CoreTypes, SessionHandoff, extended__session_handoff, Schema

LEMMA LessonCardAlike ==
  ASSUME NEW formats \in BOOLEAN
  PROVE  Alike(formats, "LessonCard", LessonCard, extended__lesson_card(formats))
BY NamedFits, StampFits, SharedVocabularyFits, OptTextFits, CollectionFits
DEF Alike, Gone, CoreTypes, LessonCard, extended__lesson_card, Schema

LEMMA SkillCardAlike ==
  ASSUME NEW formats \in BOOLEAN
  PROVE  Alike(formats, "SkillCard", SkillCard, extended__skill_card(formats))
BY NamedFits, StampFits, SharedVocabularyFits, CollectionFits, OptTextFits
DEF Alike, Gone, CoreTypes, SkillCard, extended__skill_card, Schema

LEMMA EvaluationArtifactAlike ==
  ASSUME NEW formats \in BOOLEAN
  PROVE  Alike(formats, "EvaluationArtifact", EvaluationArtifact,
               extended__evaluation_artifact(formats))
<1>1. Plain({"ok", "caution", "high_risk"})  BY VocabularyPlain DEF Vocabulary
<1>2. /\ Optional(formats, EvaluationArtifact.support_state, {"ok", "caution", "high_risk"}, {})
      /\ Restored(EvaluationArtifact.support_state, {})
  BY <1>1, OneOfFits DEF EvaluationArtifact
<1>3. Plain({"deploy", "do_not_deploy", "experiment_ready", "needs_more_data"})
  BY VocabularyPlain DEF Vocabulary
<1>4. /\ Optional(formats, EvaluationArtifact.recommendation_kind,
                  Nullable({"deploy", "do_not_deploy", "experiment_ready", "needs_more_data"}), {})
      /\ Restored(EvaluationArtifact.recommendation_kind, {})
  BY <1>3, OneOfFits DEF EvaluationArtifact
<1> QED BY <1>2, <1>4, NamedFits, StampFits, TextFits, OptTextFits, CollectionFits,
           SharedVocabularyFits
    DEF Alike, Gone, CoreTypes, EvaluationArtifact, extended__evaluation_artifact, Schema

LEMMA ArtifactSafetyGateRequestAlike ==
  ASSUME NEW formats \in BOOLEAN
  PROVE  Alike(formats, "ArtifactSafetyGateRequest", ArtifactSafetyGateRequest,
               extended__artifact_safety_gate_request(formats))
BY NamedFits, CollectionFits, OptTextFits, TextFits
DEF Alike, Gone, CoreTypes, ArtifactSafetyGateRequest, extended__artifact_safety_gate_request,
    Schema

LEMMA ArtifactSafetyReportAlike ==
  ASSUME NEW formats \in BOOLEAN
  PROVE  Alike(formats, "ArtifactSafetyReport", ArtifactSafetyReport,
               extended__artifact_safety_report(formats))
<1>1. Plain({"pass", "fail"})  BY VocabularyPlain DEF Vocabulary
<1>2. /\ Mandatory(formats, ArtifactSafetyReport.decision, {"pass", "fail"}, {})
      /\ Restored(ArtifactSafetyReport.decision, {})
  BY <1>1, OneOfFits DEF ArtifactSafetyReport
<1>3. Plain({"advisory", "blocking"})  BY VocabularyPlain DEF Vocabulary
<1>4. /\ Optional(formats, ArtifactSafetyReport.mode, {"advisory", "blocking"}, {})
      /\ Restored(ArtifactSafetyReport.mode, {})
  BY <1>3, OneOfFits DEF ArtifactSafetyReport
<1> QED BY <1>2, <1>4, NamedFits, StampFits, OptTextFits, PartFits, CollectionFits
    DEF Alike, Gone, CoreTypes, ArtifactSafetyReport, extended__artifact_safety_report, Schema

LEMMA CapabilityTokenSignatureAlike ==
  ASSUME NEW formats \in BOOLEAN
  PROVE  Alike(formats, "CapabilityTokenSignature", CapabilityTokenSignature,
               extended__capability_token_signature(formats))
<1>1. Plain({"ed25519", "es256"})  BY VocabularyPlain DEF Vocabulary
<1>2. /\ Mandatory(formats, CapabilityTokenSignature.alg, {"ed25519", "es256"}, Pruned)
      /\ Restored(CapabilityTokenSignature.alg, Pruned)
  BY <1>1, OneOfFits DEF CapabilityTokenSignature
<1>3. /\ Mandatory(formats, CapabilityTokenSignature.sig, {"86", "86+nl"}, Pruned)
      /\ Restored(CapabilityTokenSignature.sig, Pruned)
  BY Words DEF Forms, Mandatory, Fits, Odd, Unconstructible, Broad,
      Marks, Strings, Restored, Pruned, Field,
      CapabilityTokenSignature
<1>4. Plain({"JCS"})  BY VocabularyPlain DEF Vocabulary
<1>5. /\ Optional(formats, CapabilityTokenSignature.canonicalization, {"JCS"}, Pruned)
      /\ Restored(CapabilityTokenSignature.canonicalization, Pruned)
  BY <1>4, OneOfFits DEF CapabilityTokenSignature
<1> QED BY <1>2, <1>3, <1>5, NamedFits, StampFits, SMTT(60)
    DEF Alike, Gone, CoreTypes, CapabilityTokenSignature, extended__capability_token_signature,
        Schema

LEMMA OtelTraceMappingAlike ==
  ASSUME NEW formats \in BOOLEAN
  PROVE  Alike(formats, "OtelTraceMapping", OtelTraceMapping,
               extended__otel_trace_mapping(formats))
<1>1. /\ Mandatory(formats, OtelTraceMapping.trace_id, {"hex", "hex+nl"}, {})
      /\ Restored(OtelTraceMapping.trace_id, {})
  BY Words DEF Forms, Mandatory, Fits, Odd, Unconstructible, Broad,
      Marks, Strings, Restored, Field, OtelTraceMapping
<1>2. /\ Mandatory(formats, OtelTraceMapping.span_id, {"hex", "hex+nl"}, {})
      /\ Restored(OtelTraceMapping.span_id, {})
  BY Words DEF Forms, Mandatory, Fits, Odd, Unconstructible, Broad,
      Marks, Strings, Restored, Field, OtelTraceMapping
<1>3. Plain({"INTERNAL", "CLIENT", "SERVER", "PRODUCER", "CONSUMER"})
  BY VocabularyPlain DEF Vocabulary
<1>4. /\ Mandatory(formats, OtelTraceMapping.span_kind,
                   {"INTERNAL", "CLIENT", "SERVER", "PRODUCER", "CONSUMER"}, {})
      /\ Restored(OtelTraceMapping.span_kind, {})
  BY <1>3, OneOfFits DEF OtelTraceMapping
<1>5. /\ Optional(formats, OtelTraceMapping.parent_span_id, Nullable({"hex", "hex+nl"}), {})
      /\ Restored(OtelTraceMapping.parent_span_id, {})
  BY Words DEF Forms, Optional, Fits, Odd, Unconstructible, Broad,
      Marks, Strings, Restored, Field, Nullable,
      OtelTraceMapping
<1> QED BY <1>1, <1>2, <1>4, <1>5, OptTextFits
    DEF Alike, Gone, CoreTypes, OtelTraceMapping, extended__otel_trace_mapping, Schema

LEMMA CompiledFlowAlike ==
  ASSUME NEW formats \in BOOLEAN
  PROVE  Alike(formats, "CompiledFlow", CompiledFlow, extended__compiled_flow(formats))
<1>1. Plain(_SENSITIVITY_LEVELS)  BY VocabularyPlain DEF Vocabulary, _SENSITIVITY_LEVELS
<1>2. /\ Optional(formats, CompiledFlow.sensitivity, Nullable(_SENSITIVITY_LEVELS), {})
      /\ Restored(CompiledFlow.sensitivity, {})
  BY <1>1, OneOfFits DEF CompiledFlow
<1> QED BY <1>2, NamedFits, OptTextFits, CollectionFits, FlagFits
    DEF Alike, Gone, CoreTypes, CompiledFlow, extended__compiled_flow, Schema, Flags

LEMMA ExecutionCandidateAlike ==
  ASSUME NEW formats \in BOOLEAN
  PROVE  Alike(formats, "ExecutionCandidate", ExecutionCandidate,
               extended__execution_candidate(formats))
<1>1. Plain(_CANDIDATE_TYPES)  BY VocabularyPlain DEF Vocabulary, _CANDIDATE_TYPES
<1>2. /\ Mandatory(formats, ExecutionCandidate.candidate_type,
                   {"tool", "flow", "capability", "agent", "workflow"}, {})
      /\ Restored(ExecutionCandidate.candidate_type, {})
  BY <1>1, OneOfFits DEF ExecutionCandidate, _CANDIDATE_TYPES
<1> QED BY <1>2, NamedFits, OptTextFits, PartFits, CollectionFits, SMTT(60)
    DEF Alike, Gone, CoreTypes, ExecutionCandidate, extended__execution_candidate, Schema

LEMMA ExecutionRoutingDecisionAlike ==
  ASSUME NEW formats \in BOOLEAN
  PROVE  Alike(formats, "ExecutionRoutingDecision", ExecutionRoutingDecision,
               extended__execution_routing_decision(formats))
BY NamedFits, PartFits, NumberFits, CollectionFits, OptTextFits, StampFits
DEF Alike, Gone, CoreTypes, ExecutionRoutingDecision, extended__execution_routing_decision,
    Schema

LEMMA ExecutionFeedbackAlike ==
  ASSUME NEW formats \in BOOLEAN
  PROVE  Alike(formats, "ExecutionFeedback", ExecutionFeedback,
               extended__execution_feedback(formats))
BY NamedFits, FlagFits, StampFits, NumberFits, CollectionFits, OptTextFits
DEF Alike, Gone, CoreTypes, ExecutionFeedback, extended__execution_feedback, Schema, Flags

LEMMA TraceBundleAlike ==
  ASSUME NEW formats \in BOOLEAN
  PROVE  Alike(formats, "TraceBundle", TraceBundle, extended__trace_bundle(formats))
<1>1. Plain({"JCS"})  BY VocabularyPlain DEF Vocabulary
<1>2. /\ Optional(formats, TraceBundle.canonicalization, {"JCS"}, {})
      /\ Restored(TraceBundle.canonicalization, {})
  BY <1>1, OneOfFits DEF TraceBundle
<1>3. Optional(formats, TraceBundle.metadata, Dicts, Dicts)
  BY Words DEF Forms, Optional, Fits, Odd, Unconstructible, Broad,
      Marks, Strings, Field, Free, Dict, Dicts, TraceBundle
<1> QED BY <1>2, <1>3, NamedFits, PartFits, StampFits
    DEF Alike, Gone, CoreTypes, Lost, TraceBundle, extended__trace_bundle, Schema

LEMMA FailureCaseArtifactAlike ==
  ASSUME NEW formats \in BOOLEAN
  PROVE  Alike(formats, "FailureCaseArtifact", FailureCaseArtifact,
               extended__failure_case_artifact(formats))
<1>1. Plain({"candidate", "regression", "ignored", "fixed"})  BY VocabularyPlain DEF Vocabulary
<1>2. /\ Mandatory(formats, FailureCaseArtifact.status,
                   {"candidate", "regression", "ignored", "fixed"}, {})
      /\ Restored(FailureCaseArtifact.status, {})
  BY <1>1, OneOfFits DEF FailureCaseArtifact
<1>3. Plain(LEVELS)  BY VocabularyPlain DEF Vocabulary, LEVELS
<1>4. /\ Optional(formats, FailureCaseArtifact.severity,
                  Nullable({"low", "medium", "high", "critical"}), {})
      /\ Restored(FailureCaseArtifact.severity, {})
  BY <1>3, OneOfFits DEF FailureCaseArtifact, LEVELS
<1> QED BY <1>2, <1>4, NamedFits, StampFits, OptTextFits, CollectionFits, FlagFits,
           SharedVocabularyFits
    DEF Alike, Gone, CoreTypes, FailureCaseArtifact, extended__failure_case_artifact, Schema,
        Flags

LEMMA ConformanceResultAlike ==
  ASSUME NEW formats \in BOOLEAN
  PROVE  Alike(formats, "ConformanceResult", ConformanceResult,
               extended__conformance_result(formats))
<1>1. Plain({"1"})  BY VocabularyPlain DEF Vocabulary
<1>2. /\ Mandatory(formats, ConformanceResult.result_version, {"1"}, {})
      /\ Restored(ConformanceResult.result_version, {})
  BY <1>1, OneOfFits DEF ConformanceResult
<1>3. Plain({"corpus", "bundle"})  BY VocabularyPlain DEF Vocabulary
<1>4. /\ Mandatory(formats, ConformanceResult.mode, {"corpus", "bundle"}, {})
      /\ Restored(ConformanceResult.mode, {})
  BY <1>3, OneOfFits DEF ConformanceResult
<1>5. /\ Mandatory(formats, ConformanceResult.target, NullableText, {})
      /\ Restored(ConformanceResult.target, {})
  BY Words DEF Forms, Mandatory, Fits, Odd, Unconstructible, Broad,
      Marks, Strings, Restored, Field, Free, Nullable,
      NullableText, ConformanceResult
<1>6. Plain({"pass", "fail"})  BY VocabularyPlain DEF Vocabulary
<1>7. /\ Mandatory(formats, ConformanceResult.status, {"pass", "fail"}, {})
      /\ Restored(ConformanceResult.status, {})
  BY <1>6, OneOfFits DEF ConformanceResult
<1> QED BY <1>2, <1>4, <1>5, <1>7, NamedFits, NumberFits, StampFits, CollectionFits, PartFits,
           SMTT(60)
    DEF Alike, Gone, CoreTypes, ConformanceResult, extended__conformance_result, Schema

LEMMA CoreAlike ==
  ASSUME NEW formats \in BOOLEAN, NEW c \in CoreTypes
  PROVE  Alike(formats, c, Classes[c], CoreSchemas(formats)[c])
BY SelectableItemAlike, ChoiceCardAlike, RoutingDecisionAlike, CapabilityAlike,
   CapabilityTokenAlike, PolicyDecisionAlike, FrameAlike, HandleAlike, TraceEventAlike
DEF CoreTypes, Classes, CoreSchemas

LEMMA ExtendedAlike ==
  ASSUME NEW formats \in BOOLEAN, NEW c \in DOMAIN Classes \ CoreTypes
  PROVE  Alike(formats, c, Classes[c], ExtendedSchemas(formats)[c])
<1>1. CASE c \in {"TelemetryHint", "SchemaFingerprint", "RedactionPolicy", "UIHint",
      "RiskAssessment", "ExtendedFrameMetadata"}
  BY <1>1, TelemetryHintAlike, SchemaFingerprintAlike, RedactionPolicyAlike, UIHintAlike,
     RiskAssessmentAlike, ExtendedFrameMetadataAlike
  DEF Classes, ExtendedSchemas
<1>2. CASE c \in {"ExtendedSelectableItemMetadata", "ReviewArtifact", "MemoryArtifact",
      "SessionHandoff", "LessonCard", "SkillCard"}
  BY <1>2, ExtendedSelectableItemMetadataAlike, ReviewArtifactAlike, MemoryArtifactAlike,
     SessionHandoffAlike, LessonCardAlike, SkillCardAlike
  DEF Classes, ExtendedSchemas
<1>3. CASE c \in {"EvaluationArtifact", "ArtifactSafetyGateRequest", "ArtifactSafetyReport",
      "CapabilityTokenSignature", "OtelTraceMapping", "CompiledFlow"}
  BY <1>3, EvaluationArtifactAlike, ArtifactSafetyGateRequestAlike, ArtifactSafetyReportAlike,
     CapabilityTokenSignatureAlike, OtelTraceMappingAlike, CompiledFlowAlike
  DEF Classes, ExtendedSchemas
<1>4. CASE c \in {"ExecutionCandidate", "ExecutionRoutingDecision", "ExecutionFeedback",
      "TraceBundle", "FailureCaseArtifact", "ConformanceResult"}
  BY <1>4, ExecutionCandidateAlike, ExecutionRoutingDecisionAlike, ExecutionFeedbackAlike,
     TraceBundleAlike, FailureCaseArtifactAlike, ConformanceResultAlike
  DEF Classes, ExtendedSchemas
<1> QED BY <1>1, <1>2, <1>3, <1>4 DEF Classes, CoreTypes

\* For every class: the class and its schema are two definitions of one type.
THEOREM ClassesAlike ==
  ASSUME NEW formats \in BOOLEAN, NEW c \in DOMAIN Classes
  PROVE  Alike(formats, c, Classes[c], SchemaTable[formats][c])
<1>1. SchemaTable[formats][c] = SchemaOf(formats, c)  BY DEF SchemaTable
<1> QED BY <1>1, CoreAlike, ExtendedAlike DEF SchemaOf

-----------------------------------------------------------------------------
(* What follows, for every class.                                          *)

Typed(c, o) == DOMAIN o = Fields(c) /\ \A f \in Fields(c) : o[f] \in Classes[c][f].values

\* A text stands where a time should.
Untimely(c, w) ==
  \E f \in Fields(c) \cap DOMAIN w : "time" \in Classes[c][f].values /\ w[f] \in Strings

LEMMA FieldAlike ==
  ASSUME NEW formats \in BOOLEAN, NEW c \in DOMAIN Classes, NEW f \in Fields(c)
  PROVE  LET s == SchemaTable[formats][c]
         IN  /\ f \in DOMAIN s.properties
             /\ Fits(formats, Classes[c][f], s.properties[f], Gone(c, f))
             /\ f \in s.required <=> Classes[c][f].default = Required
             /\ Lost(c, f) \/ Restored(Classes[c][f], Gone(c, f))
BY ClassesAlike DEF Alike, Mandatory, Optional, Fields

\* What all classes ask of their fields, three of them ask of several at once.
LEMMA Several ==
  /\ {"single_use", "expires_at"} \subseteq Fields("CapabilityToken")
  /\ Classes["CapabilityToken"].single_use = Flag("no")
  /\ Classes["CapabilityToken"].expires_at = OptTime
  /\ {"support_state", "recommendation_kind"} \subseteq Fields("EvaluationArtifact")
  /\ Classes["EvaluationArtifact"].support_state.default = "ok"
  /\ Classes["EvaluationArtifact"].recommendation_kind.default = None
  /\ {"compiled_flow", "candidate_type"} \subseteq Fields("ExecutionCandidate")
  /\ Classes["ExecutionCandidate"].compiled_flow.default = None
  /\ Classes["ExecutionCandidate"].candidate_type.default = Required
BY DEF Classes, Fields, CapabilityToken, EvaluationArtifact, ExecutionCandidate, OneOf, OptOneOf,
       OptPart, Free, Field

\* Whatever satisfies its schema, whoever made it, is constructed exactly if it
\* has nothing that Unconstructible lists.
THEOREM AcceptedConstructs ==
  ASSUME NEW formats \in BOOLEAN, NEW c \in DOMAIN Classes, NEW w, SchemaAccepts(formats, c, w)
  PROVE  Constructs(c, w)
           <=> \A f \in Fields(c) \cap DOMAIN w : ~Unconstructible(Classes[c][f], w[f])
<1> DEFINE s == SchemaTable[formats][c]
           o == Received(c, w)
           Fine(f) == ~Unconstructible(Classes[c][f], w[f])
<1>1. ASSUME NEW f \in Fields(c), f \in DOMAIN w
      PROVE  w[f] \in s.properties[f] /\ o[f] = w[f] /\ (w[f] \in Classes[c][f].ok <=> Fine(f))
  <2>1. w[f] \in s.properties[f]  BY <1>1, FieldAlike DEF SchemaAccepts
  <2>2. o[f] = w[f]  BY <1>1 DEF Received
  <2> QED BY <2>1, <2>2, FieldAlike DEF Fits
<1>2. ASSUME NEW f \in Fields(c), f \notin DOMAIN w
      PROVE  /\ Classes[c][f].default # Required /\ Classes[c][f].default \in Classes[c][f].ok
             /\ o[f] = Classes[c][f].default
  <2>1. f \notin s.required  BY <1>2 DEF SchemaAccepts
  <2> QED BY <2>1, <1>2, FieldAlike DEF Fits, Received
<1>3. ASSUME Constructs(c, w), NEW f \in Fields(c) \cap DOMAIN w
      PROVE  Fine(f)
  BY <1>1, <1>3 DEF Constructs, __post_init__
<1>4. ASSUME \A f \in Fields(c) \cap DOMAIN w : Fine(f)
      PROVE  Constructs(c, w)
  <2>1. \A f \in Fields(c) \cap DOMAIN w : w[f] \in Classes[c][f].ok  BY <1>1, <1>4
  <2>2. Parses(c, w)  BY <2>1, FieldAlike DEF Parses, Fits
  <2>3. Coherent(c, o)
    <3>1. CASE c = "CapabilityToken"
      <4>1. DateTime(formats) \subseteq Stamps /\ None \notin Stamps
        BY Words DEF DateTime, Stamps, Strings, Forms
      <4> QED BY <3>1, <4>1, <1>1, Several DEF Coherent, SchemaAccepts, Conditions
    <3>2. CASE c = "EvaluationArtifact"
      <4>1. None # "deploy"  BY SentinelAssumption DEF SentinelAssumption, Vocabulary
      <4> QED BY <3>2, <4>1, <1>1, <1>2, Several DEF Coherent, SchemaAccepts, Conditions
    <3>3. CASE c = "ExecutionCandidate"
      BY <3>3, <1>1, <1>2, Several DEF Coherent, SchemaAccepts, Conditions
    <3> QED BY <3>1, <3>2, <3>3 DEF Coherent
  <2> QED BY <1>1, <1>2, <2>1, <2>2, <2>3 DEF Constructs, __post_init__
<1> QED BY <1>3, <1>4

\* The wire form of an object is the object without what Gone names.
LEMMA WireForm ==
  ASSUME NEW c \in DOMAIN Classes, NEW o, Typed(c, o)
  PROVE  /\ DOMAIN Wire(c, o) = {f \in Fields(c) : o[f] \notin Gone(c, f)}
         /\ \A f \in DOMAIN Wire(c, o) : Wire(c, o)[f] = o[f]
<1>1. CASE c \in CoreTypes \cup {"CapabilityTokenSignature"}
  <2>1. Wire(c, o) = _prune(o)  BY <1>1 DEF Wire, CoreTypes
  <2>2. \A f : Gone(c, f) = {None, "[]", "{}"}  BY <1>1 DEF Gone, CoreTypes, Pruned
  <2> QED BY <2>1, <2>2 DEF _prune, Typed
<1>2. CASE c = "TraceBundle"
  <2>1. Wire(c, o) = bundle_to_wire(o)  BY <1>2 DEF Wire, CoreTypes
  <2>2. Classes[c].metadata.values = Dicts /\ "metadata" \in Fields(c) /\ "signature" \in Fields(c)
    BY <1>2 DEF Classes, Fields, TraceBundle, Dict, Free, Field
  <2>3. \A f : Gone(c, f) = IF f = "metadata" THEN Dicts
                            ELSE IF f = "signature" THEN {None} ELSE {}
    BY <1>2 DEF Gone, CoreTypes
  <2> QED BY <2>1, <2>2, <2>3 DEF bundle_to_wire, Typed
<1>3. CASE c \notin CoreTypes \cup {"CapabilityTokenSignature", "TraceBundle"}
  BY <1>3 DEF Wire, Typed, Gone
<1> QED BY <1>1, <1>2, <1>3

\* An object its constructor lets pass satisfies its schema exactly if none of
\* its fields is odd.
THEOREM ConstructedAccepted ==
  ASSUME NEW formats \in BOOLEAN, NEW c \in DOMAIN Classes, NEW o,
         Typed(c, o), __post_init__(c, o)
  PROVE  SchemaAccepts(formats, c, Wire(c, o))
           <=> \A f \in Fields(c) : ~Odd(formats, Classes[c][f], o[f])
<1> DEFINE s == SchemaTable[formats][c]
           w == Wire(c, o)
<1>1. \A f \in Fields(c) : o[f] \in Classes[c][f].ok  BY DEF __post_init__
<1>2. ASSUME NEW f \in Fields(c), f \in DOMAIN w
      PROVE  w[f] \in s.properties[f] <=> ~Odd(formats, Classes[c][f], o[f])
  <2>1. o[f] \notin Gone(c, f) /\ w[f] = o[f]  BY <1>2, WireForm
  <2>2. Fits(formats, Classes[c][f], s.properties[f], Gone(c, f))  BY FieldAlike
  <2> QED BY <1>1, <2>1, <2>2 DEF Fits
<1>3. ASSUME NEW f \in Fields(c), f \notin DOMAIN w
      PROVE  ~Odd(formats, Classes[c][f], o[f]) /\ f \notin s.required
  <2>1. o[f] \in Gone(c, f)  BY <1>3, WireForm
  <2>2. /\ Fits(formats, Classes[c][f], s.properties[f], Gone(c, f))
        /\ f \in s.required => Classes[c][f].default = Required
    BY FieldAlike
  <2> QED BY <1>1, <2>1, <2>2 DEF Fits
<1>4. s.required \subseteq Fields(c) /\ DOMAIN s.properties = Fields(c)
  BY ClassesAlike DEF Alike, Fields
<1>5. ASSUME \A f \in Fields(c) : ~Odd(formats, Classes[c][f], o[f])
      PROVE  Conditions(formats, c, w)
  <2>1. Coherent(c, o)  BY DEF __post_init__
  <2>2. CASE c = "CapabilityToken"
    <3>1. Gone(c, "single_use") = Pruned /\ Gone(c, "expires_at") = Pruned
      BY <2>2 DEF Gone, CoreTypes
    <3>2. "yes" \notin Pruned /\ "time" \notin Pruned /\ "time" \in DateTime(formats)
      BY Words DEF Pruned, Forms, DateTime, Stamps
    <3>3. o.expires_at \in {"time", None}
      BY <2>2, Several DEF Typed, OptTime, Free, Field
    <3>4. /\ o.single_use = "yes" => "single_use" \in DOMAIN w /\ w.single_use = "yes"
          /\ o.expires_at # None => "expires_at" \in DOMAIN w /\ w.expires_at = "time"
      <4>1. DOMAIN w = {f \in Fields(c) : o[f] \notin Gone(c, f)}  BY WireForm
      <4>2. \A f \in DOMAIN w : w[f] = o[f]  BY WireForm
      <4>3. {"single_use", "expires_at"} \subseteq Fields(c)  BY <2>2, Several
      <4> QED BY <3>1, <3>2, <3>3, <4>1, <4>2, <4>3
    <3> QED BY <2>1, <2>2, <3>2, <3>4 DEF Coherent, Conditions
  <2>3. CASE c = "EvaluationArtifact"
    <3>1. \A f \in DOMAIN w : w[f] = o[f]  BY WireForm
    <3> QED BY <2>1, <2>3, <3>1 DEF Coherent, Conditions
  <2>4. CASE c = "ExecutionCandidate"
    <3>1. Gone(c, "candidate_type") = {}  BY <2>4 DEF Gone, CoreTypes
    <3>2. /\ "candidate_type" \in DOMAIN w
          /\ \A f \in DOMAIN w : w[f] = o[f]
      BY <2>4, <3>1, WireForm, Several
    <3> QED BY <2>1, <2>4, <3>2 DEF Coherent, Conditions
  <2> QED BY <2>2, <2>3, <2>4 DEF Conditions
<1>6. DOMAIN w \subseteq Fields(c)  BY WireForm
<1> QED BY <1>2, <1>3, <1>4, <1>5, <1>6 DEF SchemaAccepts

\* What is received is what was sent, but for what is lost.
THEOREM SentArrives ==
  ASSUME NEW formats \in BOOLEAN, NEW c \in DOMAIN Classes, NEW o, Typed(c, o),
         SchemaAccepts(formats, c, Wire(c, o)), NEW f \in Fields(c), ~Lost(c, f)
  PROVE  Received(c, Wire(c, o))[f] = o[f]
<1> DEFINE w == Wire(c, o)
<1>1. CASE f \in DOMAIN w  BY <1>1, WireForm DEF Received
<1>2. CASE f \notin DOMAIN w
  <2>1. o[f] \in Gone(c, f) /\ o[f] \in Classes[c][f].values  BY <1>2, WireForm DEF Typed
  <2>2. Classes[c][f].default # Required  BY <1>2, FieldAlike DEF SchemaAccepts
  <2>3. Classes[c][f].default = o[f]  BY <2>1, <2>2, FieldAlike DEF Restored
  <2> QED BY <1>2, <2>3 DEF Received
<1> QED BY <1>1, <1>2

\* An empty structured_data arrives as none, any other as it is.
LEMMA StructuredDataArrives ==
  ASSUME NEW o, Typed("Frame", o)
  PROVE  \/ Received("Frame", Wire("Frame", o))["structured_data"] = o["structured_data"]
         \/ o["structured_data"] = "{}"
<1> DEFINE f == "structured_data"
           w == Wire("Frame", o)
<1>1. /\ "Frame" \in DOMAIN Classes /\ f \in Fields("Frame")
      /\ Classes["Frame"][f] = Free(Dicts \cup {None}, None)
  BY DEF Classes, Fields, Frame
<1>2. Gone("Frame", f) = Pruned  BY DEF Gone, CoreTypes
<1>3. CASE f \in DOMAIN w  BY <1>1, <1>3, WireForm DEF Received
<1>4. CASE f \notin DOMAIN w
  <2>3. DOMAIN w = {g \in Fields("Frame") : o[g] \notin Gone("Frame", g)}  BY <1>1, WireForm
  <2>1. o[f] \in Pruned /\ o[f] \in Dicts \cup {None}
    BY <1>1, <1>2, <1>4, <2>3 DEF Typed, Free, Field
  <2>2. Received("Frame", w)[f] = None  BY <1>1, <1>4 DEF Received, Free, Field
  <2> QED BY <2>1, <2>2 DEF Pruned, Dicts
<1> QED BY <1>3, <1>4

\* Without a text for a time, it makes no difference who checks times.
THEOREM AcceptedAnywhere ==
  ASSUME NEW c \in DOMAIN Classes, NEW o, Typed(c, o), SchemaAccepts(FALSE, c, Wire(c, o)),
         ~Untimely(c, Wire(c, o))
  PROVE  SchemaAccepts(TRUE, c, Wire(c, o))
<1> DEFINE w == Wire(c, o)
<1>1. DOMAIN w = {f \in Fields(c) : o[f] \notin Gone(c, f)} /\ \A f \in DOMAIN w : w[f] = o[f]
  BY WireForm
<1>2. SchemaTable[TRUE][c].required \subseteq DOMAIN w
  <2>1. SchemaTable[TRUE][c].required \subseteq Fields(c)  BY ClassesAlike DEF Alike, Fields
  <2> QED BY <2>1, FieldAlike DEF SchemaAccepts
<1>3. ASSUME NEW f \in DOMAIN w
      PROVE  w[f] \in SchemaTable[TRUE][c].properties[f]
  <2>1. w[f] \in SchemaTable[FALSE][c].properties[f]  BY <1>1, <1>3, FieldAlike DEF SchemaAccepts
  <2>2. w[f] = o[f] /\ f \in Fields(c) /\ w[f] \in Classes[c][f].values \ Gone(c, f)
    BY <1>1, <1>3 DEF Typed
  <2>3. CASE w[f] \in Classes[c][f].ok
    <3>1. ~Odd(FALSE, Classes[c][f], w[f])  BY <2>1, <2>2, <2>3, FieldAlike DEF Fits
    <3>2. ~Odd(TRUE, Classes[c][f], w[f])  BY <1>1, <2>2, <3>1, <1>3 DEF Odd, Untimely
    <3> QED BY <2>2, <2>3, <3>2, FieldAlike DEF Fits
  <2>4. CASE w[f] \notin Classes[c][f].ok
    <3>1. Unconstructible(Classes[c][f], w[f])  BY <2>1, <2>2, <2>4, FieldAlike DEF Fits
    <3>2. "" \in Strings  BY DEF Strings
    <3>3. w[f] \in Broad
      BY <1>3, <2>2, <3>1, <3>2 DEF Unconstructible, Broad, Untimely
    <3> QED BY <2>2, <3>3, FieldAlike DEF Fits
  <2> QED BY <2>3, <2>4
<1>4. Conditions(TRUE, c, w)
  <2>1. ASSUME c = "CapabilityToken", "expires_at" \in DOMAIN w
        PROVE  w.expires_at = "time"
    <3>1. w.expires_at \in {"time", None} /\ Gone(c, "expires_at") = Pruned
      BY <1>1, <2>1, Several DEF Typed, OptTime, Free, Field, Gone, CoreTypes
    <3> QED BY <1>1, <2>1, <3>1 DEF Pruned
  <2> QED BY <2>1 DEF SchemaAccepts, Conditions, DateTime
<1> QED BY <1>2, <1>3, <1>4 DEF SchemaAccepts

LEMMA SampleTyped ==
  ASSUME NEW c \in DOMAIN Classes
  PROVE  Typed(c, Sample(c))
<1>1. \A f \in Fields(c) : /\ Classes[c][f].ok # {} /\ Classes[c][f].ok \subseteq Classes[c][f].values
                           /\ Classes[c][f].default \in {Required} \cup Classes[c][f].ok
  BY FieldAlike DEF Fits
<1>2. "time" \in Classes["CapabilityToken"].expires_at.values
  BY Several DEF OptTime, Free, Field
<1> QED BY <1>1, <1>2 DEF Typed, Sample, Fields

LEMMA ChangedTyped ==
  ASSUME NEW c \in DOMAIN Classes, NEW o, Typed(c, o), NEW p \in Changed(c, o)
  PROVE  Typed(c, p)
BY DEF Typed, Changed
=============================================================================
