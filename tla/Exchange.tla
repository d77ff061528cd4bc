------------------------------ MODULE Exchange ------------------------------
(***************************************************************************)
(* What is done with a contract object on its way from one Python program  *)
(* to another: __post_init__, the wire form, validation against the        *)
(* schema, and construction from the wire.                                 *)
(***************************************************************************)
EXTENDS Schemas

CONSTANT Absent   \* no such key

CoreTypes == {"SelectableItem", "ChoiceCard", "RoutingDecision", "Capability", "CapabilityToken",
              "PolicyDecision", "Frame", "Handle", "TraceEvent"}

Classes ==
  [SelectableItem |-> SelectableItem, ChoiceCard |-> ChoiceCard,
   RoutingDecision |-> RoutingDecision, Capability |-> Capability,
   CapabilityToken |-> CapabilityToken, PolicyDecision |-> PolicyDecision, Frame |-> Frame,
   Handle |-> Handle, TraceEvent |-> TraceEvent, TelemetryHint |-> TelemetryHint,
   SchemaFingerprint |-> SchemaFingerprint, RedactionPolicy |-> RedactionPolicy,
   UIHint |-> UIHint, RiskAssessment |-> RiskAssessment,
   ExtendedFrameMetadata |-> ExtendedFrameMetadata,
   ExtendedSelectableItemMetadata |-> ExtendedSelectableItemMetadata,
   ReviewArtifact |-> ReviewArtifact, MemoryArtifact |-> MemoryArtifact,
   SessionHandoff |-> SessionHandoff, LessonCard |-> LessonCard, SkillCard |-> SkillCard,
   EvaluationArtifact |-> EvaluationArtifact,
   ArtifactSafetyGateRequest |-> ArtifactSafetyGateRequest,
   ArtifactSafetyReport |-> ArtifactSafetyReport,
   CapabilityTokenSignature |-> CapabilityTokenSignature, OtelTraceMapping |-> OtelTraceMapping,
   CompiledFlow |-> CompiledFlow, ExecutionCandidate |-> ExecutionCandidate,
   ExecutionRoutingDecision |-> ExecutionRoutingDecision, ExecutionFeedback |-> ExecutionFeedback,
   TraceBundle |-> TraceBundle, FailureCaseArtifact |-> FailureCaseArtifact,
   ConformanceResult |-> ConformanceResult]
Fields(c) == DOMAIN Classes[c]

-----------------------------------------------------------------------------
(* Construction.                                                           *)

\* What __post_init__ asks of several fields together.  (AlwaysExpires does
\* not let a single-use token do without expiry, EvidenceOptional lets a
\* high-risk evaluation recommend deployment.)
AlwaysExpires(c, o) ==
  /\ c = "CapabilityToken" => o.expires_at # None
  /\ c = "EvaluationArtifact" =>
       ~(o.support_state = "high_risk" /\ o.recommendation_kind = "deploy")
  /\ c = "ExecutionCandidate" => o.compiled_flow = None \/ o.candidate_type = "flow"
EvidenceOptional(c, o) ==
  /\ c = "CapabilityToken" => o.single_use = "yes" \/ o.expires_at # None
  /\ c = "ExecutionCandidate" => o.compiled_flow = None \/ o.candidate_type = "flow"
Coherent(c, o) ==
  /\ c = "CapabilityToken" => o.single_use = "yes" \/ o.expires_at # None
  /\ c = "EvaluationArtifact" =>
       ~(o.support_state = "high_risk" /\ o.recommendation_kind = "deploy")
  /\ c = "ExecutionCandidate" => o.compiled_flow = None \/ o.candidate_type = "flow"

__post_init__(c, o) == (\A f \in Fields(c) : o[f] \in Classes[c][f].ok) /\ Coherent(c, o)

\* A Core datetime is parsed before the constructor sees it, with
\* datetime.fromisoformat().  A key that the type does not have is not handed on.
Parses(c, w) ==
  \A f \in Fields(c) \cap DOMAIN w : Classes[c][f] \in {Time, OptTime} => w[f] \in Classes[c][f].values
Received(c, w) ==
  [f \in Fields(c) |-> IF f \in DOMAIN w THEN w[f] ELSE Classes[c][f].default]
Constructs(c, w) ==
  /\ \A f \in Fields(c) : f \in DOMAIN w \/ Classes[c][f].default # Required
  /\ Parses(c, w)
  /\ __post_init__(c, Received(c, w))

-----------------------------------------------------------------------------
(* The wire form.                                                          *)

\* _prune drops None and empty collections.  (PruneFalsy drops what is falsy.)
PruneFalsy(o) ==
  [f \in {g \in DOMAIN o : o[g] \notin {None, "[]", "{}", "", "no", "0"}} |-> o[f]]
_prune(o) == [f \in {g \in DOMAIN o : o[g] \notin {None, "[]", "{}"}} |-> o[f]]

\* A bundle leaves its metadata behind, and has no key for a missing signature.
bundle_to_wire(o) ==
  [f \in {g \in DOMAIN o : g # "metadata" /\ (g = "signature" => o[g] # None)} |-> o[f]]

\* Core objects and signatures are pruned, as the example does; other Extended
\* ones go as dataclasses.asdict() has them, as the tests send them, None included.
Wire(c, o) ==
  CASE c \in CoreTypes \cup {"CapabilityTokenSignature"} -> _prune(o)
    [] c = "TraceBundle" -> bundle_to_wire(o)
    [] OTHER -> o

-----------------------------------------------------------------------------
(* Validation.                                                             *)

SchemaOf(formats, c) ==
  IF c \in CoreTypes THEN CoreSchemas(formats)[c] ELSE ExtendedSchemas(formats)[c]
SchemaTable == [formats \in BOOLEAN |-> [c \in DOMAIN Classes |-> SchemaOf(formats, c)]]

\* The anyOf of a token and the if/then of two Extended schemas.
Conditions(formats, c, w) ==
  /\ c = "CapabilityToken" =>
       \/ "single_use" \in DOMAIN w /\ w.single_use = "yes"
       \/ "expires_at" \in DOMAIN w /\ w.expires_at \in DateTime(formats)
  /\ c = "EvaluationArtifact" /\ "support_state" \in DOMAIN w /\ w.support_state = "high_risk" =>
       ~("recommendation_kind" \in DOMAIN w /\ w.recommendation_kind = "deploy")
  /\ c = "ExecutionCandidate" /\ "compiled_flow" \in DOMAIN w /\ w.compiled_flow # None =>
       w.candidate_type = "flow"

\* additionalProperties is true everywhere.
SchemaAccepts(formats, c, w) ==
  LET s == SchemaTable[formats][c]
  IN  /\ s.required \subseteq DOMAIN w
      /\ \A f \in DOMAIN w \cap DOMAIN s.properties : w[f] \in s.properties[f]
      /\ Conditions(formats, c, w)

\* What the schema lets pass and the constructor does not: a line feed after the
\* pattern, nan for a share, what fromisoformat() does not read for a datetime
\* (the fields that hold no string), an empty string for a required one.
Unconstructible(fd, v) ==
  \/ v \in {"86+nl", "hex+nl", "nan"}
  \/ "time" \in fd.values /\ "timez" \notin fd.values /\ v \in Strings \cup {"timez"}
  \/ {"time", "timez"} \subseteq fd.values /\ fd.default = Required /\ v = ""

-----------------------------------------------------------------------------
(* Objects and payloads near a sample.                                     *)

Sample(c) ==
  [f \in Fields(c) |->
     CASE c = "CapabilityToken" /\ f = "expires_at" -> "time"
       [] Classes[c][f].default = Required ->
            (IF "time" \in Classes[c][f].ok THEN "time"
             ELSE IF "[sound]" \in Classes[c][f].ok THEN "[sound]"
             ELSE IF "[text]" \in Classes[c][f].ok THEN "[text]"
             ELSE IF "sound" \in Classes[c][f].ok THEN "sound"
             ELSE CHOOSE v \in Classes[c][f].ok : TRUE)
       [] OTHER -> Classes[c][f].default]

\* An object with one field set to something that its type lets in.
Changed(c, o) == UNION {{[o EXCEPT ![f] = v] : v \in Classes[c][f].values} : f \in Fields(c)}

\* Two fields of whatever anybody may send differ from the sample: they are also
\* null, or no such key, a time is any text, and baggage of other than strings.
Sendable(c, f) ==
  Classes[c][f].values \cup {None, Absent}
    \cup (IF "time" \in Classes[c][f].values THEN Stamps ELSE {})
    \cup (IF f = "baggage" THEN {"{other}"} ELSE {})
Payloads(c) ==
  LET plain == [f \in Fields(c) |-> IF Sample(c)[f] = None THEN Absent ELSE Sample(c)[f]]
      near == UNION {{[plain EXCEPT ![f] = u, ![g] = v] :
                        u \in Sendable(c, f), v \in Sendable(c, g)} :
                     f \in Fields(c), g \in Fields(c)}
  IN  {[f \in {g \in Fields(c) : o[g] # Absent} |-> o[f]] : o \in near}
=============================================================================
