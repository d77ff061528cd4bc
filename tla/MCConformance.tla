---------------------------- MODULE MCConformance ----------------------------
(***************************************************************************)
(* Conformance with three schemas, one of which refers to another, and a   *)
(* corpus of six entries around which edits are made.  The keyring holds   *)
(* one key, under the kid "test".                                          *)
(***************************************************************************)
EXTENDS Conformance

CONSTANTS testKey

MCKeyring == [kid \in {"test", "unknown"} |->
                IF kid = "test" THEN [alg |-> "ed25519", key |-> testKey] ELSE NoEntry]

-----------------------------------------------------------------------------
(* Payloads.                                                               *)

Error(kw, on) == [kw |-> kw, on |-> on]
EmptyId == Error("minLength", "frame_id")
NeverEnds == Error("anyOf", "expiry-or-single-use")
Undated == Error("format", "date-time")
LineFeed == Error("pattern", "sig")

Plain(keys) ==
  [keys |-> [self |-> keys], faults |-> {}, strict |-> {}, json |-> TRUE,
   scoped |-> TRUE, bounded |-> TRUE, bundle |-> NoBundle]
FrameFile == Plain({"frame_id", "summary"})
TokenFile == Plain({"token_id", "scope"})
TokenWithoutEnd == [TokenFile EXCEPT !.faults = {NeverEnds}, !.bounded = FALSE]

Good == [valid |-> TRUE, canonical |-> TRUE, frames |-> {{"frame_id", "summary"}},
         decisions |-> {"d1"}, traced |-> {"d1"}]
Sealed == [alg |-> "ed25519", kid |-> "test", canonicalization |-> "JCS",
             malformed |-> FALSE, key |-> testKey, content |-> Good]
Bundle(c, s) == [valid |-> c.valid, canonical |-> c.canonical, frames |-> c.frames,
                 decisions |-> c.decisions, traced |-> c.traced, signature |-> s]
BundleFile(b) ==
  [Plain({"bundle_id"}) EXCEPT
     !.keys = [self |-> {"bundle_id"}, frames |-> UNION b.frames], !.bundle = b]
Raw == [Good EXCEPT !.frames = {{"frame_id", "summary", "raw"}}]
Untraced == [Good EXCEPT !.traced = {}]

MCPayload ==
  [frame |-> FrameFile,
   frame_without_summary |-> Plain({"frame_id"}),
   frame_with_empty_id |-> [FrameFile EXCEPT !.faults = {EmptyId}],
   frame_undated |-> [FrameFile EXCEPT !.strict = {Undated}],
   frame_nan |-> [FrameFile EXCEPT !.json = FALSE],
   token |-> TokenFile,
   token_without_end |-> TokenWithoutEnd,
   bundle |-> BundleFile(Bundle(Good, Sealed)),
   bundle_raw |-> BundleFile(Bundle(Raw, Unsigned)),
   bundle_untraced |-> BundleFile(Bundle(Untraced, Unsigned)),
   bundle_tampered |-> BundleFile(Bundle(Untraced, [Sealed EXCEPT !.content = Good])),
   bundle_omitted |-> BundleFile(Bundle(Good, [Sealed EXCEPT !.canonicalization = "omitted"])),
   bundle_other_key |-> BundleFile(Bundle(Good, [Sealed EXCEPT !.kid = "unknown"])),
   bundle_big_number |-> BundleFile(Bundle([Good EXCEPT !.canonical = FALSE], Unsigned)),
   bundle_line_feed |-> [BundleFile(Bundle(Good, [Sealed EXCEPT !.kid = "unknown"])) EXCEPT
                           !.strict = {LineFeed}]]

MCWithin == [k \in {"frame_id", "summary", "extra", "token_id", "scope", "bundle_id",
                    "expiry-or-single-use", "date-time", "alg", "canonicalization", "kid", "sig"} |->
               IF k = "frame_id" THEN {"", k, "id"} ELSE {"", k}]

-----------------------------------------------------------------------------
(* Schemas.                                                                *)

Schema(id, required) == [id |-> id, required |-> required, tolerates |-> {}, refs |-> Empty]
FrameSchema == Schema("v0/frame", {"frame_id", "summary"})
TokenSchema == Schema("v0/token", {"token_id", "scope"})
BundleSchema(id, frame) == [Schema(id, {"bundle_id"}) EXCEPT !.refs = [frames |-> frame]]

\* A required key, additive changes, and a new version, done whole and by half; a
\* schema copied with its $id.
MCSchemaDrafts ==
  {[frame |-> Schema("v0/frame", {"frame_id", "summary", "extra"})],
   [frame |-> [FrameSchema EXCEPT !.tolerates = {EmptyId}]],
   [frame |-> Schema("v1/frame", {"frame_id"})],
   [frame |-> Schema("v1/frame", {"frame_id"}),
    trace_bundle |-> BundleSchema("v1/bundle", "v1/frame")],
   [capability_token |-> [TokenSchema EXCEPT !.tolerates = {NeverEnds}]],
   [capability_token |-> Schema("v0/frame", {"token_id", "scope"})]}

-----------------------------------------------------------------------------
(* The corpus and the manifest.                                            *)

Positive(f, s) == [payload |-> f, schema |-> s]
BySchema(f, s, kw, on) == [payload |-> f, schema |-> s, by |-> "schema", violates |-> Error(kw, on)]
ByInvariant(f, id) ==
  [payload |-> f, schema |-> "trace_bundle", by |-> "invariant", violates |-> id]

MCPositives ==
  {Positive("frame_undated", "frame"), Positive("frame", "framme"), Positive("frame_nan", "frame"),
   Positive("bundle_line_feed", "trace_bundle"), Positive("bundle_big_number", "trace_bundle"),
   Positive("token_without_end", "capability_token"), Positive("bundle_omitted", "trace_bundle"),
   Positive("bundle_other_key", "trace_bundle"), Positive("bundle_tampered", "trace_bundle")}
MCNegatives ==
  {BySchema("frame_with_empty_id", "frame", "minLength", "id"),
   BySchema("frame_undated", "frame", "format", ""),
   BySchema("frame_without_summary", "frame", "minLength", "frame_id"),
   ByInvariant("bundle_raw", "I-02"),
   ByInvariant("bundle_raw", "I-04"), ByInvariant("bundle_raw", "I-09")}

Block(id, applies_to, assertion) ==
  [id |-> id, applies_to |-> applies_to, assertion |-> assertion, baseline |-> NoBaseline]
Baseline == [frame |-> {"frame_id", "summary"}, capability_token |-> {"token_id", "scope"}]
I01 == Block("I-01", "trace_bundle", "frames_have_no_raw_output")
I02 == Block("I-02", "trace_bundle", "policy_decisions_are_traced")
I04 == [Block("I-04", "core_schemas", "core_required_surface_stable") EXCEPT !.baseline = Baseline]
I06 == Block("I-06", "capability_token", "capability_token_scoped")

\* Taken out, bound to another check, without a baseline, and new ones.
MCBlocks ==
  {I02,
   [I02 EXCEPT !.assertion = "frames_have_no_raw_output"],
   [I04 EXCEPT !.assertion = "frames_have_no_raw_output"],
   [I04 EXCEPT !.baseline = NoBaseline],
   [I04 EXCEPT !.baseline = [Baseline EXCEPT !.frame = {"frame_id", "summary", "extra"}]],
   Block("I-07", "orchestration", "none")}

MCVersions == {"0.8.0", "1.0.0"}
MCMajor == [v \in MCVersions |-> IF v = "0.8.0" THEN "0" ELSE "1"]

MCInitial ==
  [schemas |-> [frame |-> FrameSchema, capability_token |-> TokenSchema,
                trace_bundle |-> BundleSchema("v0/bundle", "v0/frame")],
   positive |-> {Positive("frame", "frame"), Positive("token", "capability_token"),
                 Positive("bundle", "trace_bundle")},
   negative |-> {BySchema("frame_without_summary", "frame", "required", "summary"),
                 ByInvariant("bundle_raw", "I-01"), ByInvariant("bundle_untraced", "I-02")},
   invariants |-> {I01, I02, I04, I06},
   version |-> "0.8.0"]

MCExternal ==
  [good |-> [problem |-> "none", payload |-> MCPayload["bundle"]],
   untraced |-> [problem |-> "none", payload |-> MCPayload["bundle_untraced"]],
   text |-> [problem |-> "not JSON"],
   latin |-> [problem |-> "not UTF-8"]]
=============================================================================
