----------------------------- MODULE TraceBundle -----------------------------
(***************************************************************************)
(* What conformance/run.py makes of a TraceBundle: its schema, its         *)
(* canonical form and signature (check_trace_bundle), the two invariants   *)
(* that a bundle can be asked about, and the check of a bundle that comes  *)
(* from outside (verify_external_bundle).                                  *)
(*                                                                         *)
(* A bundle is a record                                                    *)
(*   [valid, canonical, frames, decisions, traced, signature]              *)
(* where valid says that all but the signature satisfies the schema and    *)
(* canonical that JCS can serialise it; a frame is the set of its keys,    *)
(* decisions and traced are the decision ids of its PolicyDecisions and of *)
(* its TraceEvents.  Everything but the signature is the bundle's content. *)
(* A signature is Unsigned or a record                                     *)
(*   [alg, kid, canonicalization, malformed, key, content]                 *)
(* where malformed says that sig is not the 86 characters the schema asks  *)
(* for, as Python reads its pattern, which a line feed at the end passes   *)
(* (what cannot be decoded then is of no key), and key and content are     *)
(* what signed and what was signed.                                        *)
(***************************************************************************)
CONSTANTS
  Keyring,         \* Keyring[kid]: the [alg, key] of a kid, or NoEntry
  NoEntry,
  Unsigned,
  CryptoInstalled  \* can `cryptography` be imported

FORBIDDEN_FRAME_KEYS == {"raw_output", "raw", "raw_result", "tool_output"}
SIGNATURE_ALG_REGISTRY == {"ed25519", "es256"}

Content(b) == [valid |-> b.valid, canonical |-> b.canonical, frames |-> b.frames,
               decisions |-> b.decisions, traced |-> b.traced]

\* I-01 and I-02 as the runner checks them: the offending frames, decisions.
frames_have_no_raw_output(b) == {f \in b.frames : f \cap FORBIDDEN_FRAME_KEYS # {}}
policy_decisions_are_traced(b) == b.decisions \ b.traced

-----------------------------------------------------------------------------
(* The signature.                                                          *)

\* The errors of the envelope, its schema included: `canonicalization` is
\* optional there, and get() has it default to JCS.
EnvelopeErrors(s) ==
     {e \in {"alg"} : s.alg \notin SIGNATURE_ALG_REGISTRY}
  \cup {e \in {"canonicalization"} : s.canonicalization \notin {"JCS", "omitted"}}
  \cup {e \in {"kid"} : s.kid = "empty"}
  \cup {e \in {"sig"} : s.malformed}

\* The key signed the canonical form of the content.  (SignedSomething is the
\* faulty variant that takes the message from the signature, not the bundle.)
SignedSomething(key, b) == b.signature.key = key
SignedContent(key, b) ==
  b.signature.key = key /\ b.signature.content = Content(b)

Passed(note) == [errors |-> {}, note |-> note]
Failed(errors) == [errors |-> errors, note |-> "none"]

\* A signature whose key is not at hand is let through with a note.
CheckSignature(b, s, entry) ==
  CASE EnvelopeErrors(s) # {} -> Failed(EnvelopeErrors(s))
    [] EnvelopeErrors(s) = {} /\ entry = NoEntry -> Passed("unknown kid")
    [] OTHER ->
         IF entry.alg # s.alg THEN Failed({"key alg"})
         ELSE IF ~CryptoInstalled THEN Passed("no crypto")
         ELSE IF SignedContent(entry.key, b) THEN Passed("verified")
         ELSE Failed({"signature"})

check_trace_bundle(b) ==
  CASE ~b.canonical -> Failed({"jcs"})
    [] b.canonical /\ b.signature = Unsigned -> Passed("unsigned")
    [] OTHER -> CheckSignature(b, b.signature, Keyring[b.signature.kid])

-----------------------------------------------------------------------------
(* A bundle from outside.                                                  *)

\* The trace_bundle schema; it refers to the envelope's.
SchemaValid(b) ==
  b.valid /\ (b.signature = Unsigned \/ EnvelopeErrors(b.signature) = {})

\* A schema-invalid bundle is not looked at further.
verify_external_bundle(b) ==
  LET integrity == check_trace_bundle(b)
  IN  IF ~SchemaValid(b)
      THEN [failures |-> {"schema"}, note |-> "none"]
      ELSE [failures |-> integrity.errors
              \cup {e \in {"I-01"} : frames_have_no_raw_output(b) # {}}
              \cup {e \in {"I-02"} : policy_decisions_are_traced(b) # {}},
            note |-> integrity.note]
=============================================================================
