---------------------------- MODULE MCScoreboard ----------------------------
(***************************************************************************)
(* Scoreboard with one sibling that may give any response, 60 bundles and  *)
(* every fault, or with several siblings and a few responses of each kind. *)
(* The keyring holds one key, under the kid "test".                        *)
(***************************************************************************)
EXTENDS Scoreboard

CONSTANTS testKey, otherKey

MCKeyring == [kid \in {"test", "unknown", "empty", "wordy"} |->
                IF kid = "test" THEN [alg |-> "ed25519", key |-> testKey] ELSE NoEntry]

Good == [valid |-> TRUE, canonical |-> TRUE, frames |-> {{"summary"}},
         decisions |-> {"d1"}, traced |-> {"d1", "d2"}]
Contents == {Good,
             [Good EXCEPT !.valid = FALSE],
             [Good EXCEPT !.canonical = FALSE],
             [Good EXCEPT !.frames = {{"summary"}, {"summary", "raw"}}],
             [Good EXCEPT !.decisions = {"d1", "d3"}],
             [Good EXCEPT !.traced = {"d1"}]}

\* Each signature is over Good: on any other content it is a stale one.
Envelope == [alg |-> "ed25519", kid |-> "test", canonicalization |-> "JCS",
             malformed |-> FALSE, key |-> testKey, content |-> Good]
Envelopes == {Unsigned,
              Envelope,
              [Envelope EXCEPT !.canonicalization = "omitted"],
              [Envelope EXCEPT !.canonicalization = "other"],
              [Envelope EXCEPT !.alg = "es256"],
              [Envelope EXCEPT !.alg = "rs256"],
              [Envelope EXCEPT !.kid = "unknown"],
              [Envelope EXCEPT !.kid = "empty"],
              [Envelope EXCEPT !.malformed = TRUE],
              [Envelope EXCEPT !.key = otherKey]}

Bundle(c, s) == [valid |-> c.valid, canonical |-> c.canonical, frames |-> c.frames,
                 decisions |-> c.decisions, traced |-> c.traced, signature |-> s]
BundleResponse(b) == [kind |-> "bundle", bundle |-> b]
AllBundles == {BundleResponse(Bundle(c, s)) : c \in Contents, s \in Envelopes}
Faults == {[kind |-> k] : k \in {"other_json", "null", "not_json", "oversized",
                                 "redirect", "unreachable", "broken_off", "not_text",
                                 "extreme"}}
Conforming == BundleResponse(Bundle(Good, Envelope))
Tampered == BundleResponse(Bundle([Good EXCEPT !.traced = {"d1"}], Envelope))

\* Every bundle and every fault.
AllResponses == [s \in Siblings |-> AllBundles \cup Faults]

\* A few responses; what is not fetched does not change.
FewResponses == [s \in Siblings |->
  CASE s = 1 -> {Conforming, Tampered, [kind |-> "unreachable"], [kind |-> "broken_off"]}
    [] s = 2 -> {Conforming, [kind |-> "null"], [kind |-> "broken_off"]}
    [] OTHER -> {Conforming}]

\* A kid that is not in the keyring and has words of another note in it.
WordyResponses == [s \in Siblings |->
  {Conforming, Tampered, BundleResponse(Bundle(Good, [Envelope EXCEPT !.kid = "wordy"]))}]
=============================================================================
