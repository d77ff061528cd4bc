---------------------------- MODULE ReferenceFlow ----------------------------
(***************************************************************************)
(* main() of examples/reference_impl: a request's Core objects are         *)
(* constructed one after the other, gathered into a TraceBundle, put into  *)
(* their wire form, signed, verified, validated and asked for I-01 and     *)
(* I-02.  The example is there to be copied: its build_bundle() is given   *)
(* other arguments, more items, or assigns to what it has constructed,     *)
(* MaxEdits times.                                                         *)
(***************************************************************************)
EXTENDS Exchange, Integers, Sequences

CONSTANTS
  Key,        \* the ephemeral key
  MaxEdits    \* bound on what differs from the example

ASSUME FlowAssumption == MaxEdits \in Nat

VARIABLES
  pc,        \* "build", "bundle", "signed", "verified", "passed", "failed", "raised"
  edits,
  made,      \* the objects constructed so far: a sequence for each class
  bundle,    \* the TraceBundle
  wire,      \* the signed bundle, as it is published
  signer,    \* what signed it, and what was signed
  failures   \* the steps that found something

vars == <<pc, edits, made, bundle, wire, signer, failures>>
NotYet == <<>>

Order == <<"RoutingDecision", "CapabilityToken", "PolicyDecision", "Handle", "Frame", "TraceEvent">>
Listed == {"PolicyDecision", "Frame", "Handle", "TraceEvent"}
ListOf == [PolicyDecision |-> "policy_decisions", Frame |-> "frames", Handle |-> "handles",
           TraceEvent |-> "trace_events"]

-----------------------------------------------------------------------------
(* build_bundle().                                                         *)

SomeText == CHOOSE t \in Texts : TRUE

\* What the example hands to each constructor; ids come from the objects.
Arguments(c) ==
  CASE c = "RoutingDecision" ->
         [Sample(c) EXCEPT !.selected_item_id = SomeText, !.selected_card_id = SomeText,
                           !.context_summary = SomeText]
    [] c = "CapabilityToken" -> [Sample(c) EXCEPT !.issuer = SomeText]
    [] c = "PolicyDecision" ->
         [Sample(c) EXCEPT !.decision = "allow", !.token_id = made.CapabilityToken[1].token_id]
    [] c = "Handle" -> [Sample(c) EXCEPT !.expires_at = "time", !.byte_size = "0"]
    [] c = "Frame" -> [Sample(c) EXCEPT !.handle_refs = "[text]"]
    [] c = "TraceEvent" ->
         [Sample(c) EXCEPT !.event_type = "capability_executed", !.capability_id = SomeText,
                           !.principal = SomeText, !.outcome = "success",
                           !.decision_id = made.PolicyDecision[1].decision_id,
                           !.frame_id = made.Frame[1].frame_id,
                           !.handle_id = made.Handle[1].handle_id]

\* __post_init__ raises, and that is the end of the program.
New(c, o) ==
  IF __post_init__(c, o)
  THEN /\ made' = [d \in DOMAIN made \cup {c} |->
                     IF d # c THEN made[d] ELSE IF c \in DOMAIN made THEN Append(made[c], o) ELSE <<o>>]
       /\ pc' = pc
  ELSE pc' = "raised" /\ made' = made

\* The i-th type is the next one.
Construct(i) ==
  /\ pc = "build" /\ DOMAIN made = {Order[j] : j \in 1..(i - 1)}
  /\ LET c == Order[i]
     IN  \/ New(c, Arguments(c)) /\ edits' = edits
         \/ /\ edits < MaxEdits /\ edits' = edits + 1
            /\ \E o \in Changed(c, Arguments(c)) : New(c, o)
  /\ UNCHANGED <<bundle, wire, signer, failures>>

ConstructAgain(c) ==
  /\ pc = "build" /\ c \in DOMAIN made /\ Len(made[c]) = 1
  /\ edits < MaxEdits /\ edits' = edits + 1
  /\ \E o \in {made[c][1]} \cup Changed(c, made[c][1]) : New(c, o)
  /\ UNCHANGED <<bundle, wire, signer, failures>>

\* Nothing is checked again.
Assign(c) ==
  /\ pc = "build" /\ c \in DOMAIN made
  /\ edits < MaxEdits /\ edits' = edits + 1
  /\ \E i \in DOMAIN made[c] : \E o \in Changed(c, made[c][i]) : made' = [made EXCEPT ![c][i] = o]
  /\ UNCHANGED <<pc, bundle, wire, signer, failures>>

\* What of a TraceBundle is its own: the rest are the lists.
OwnFields == {"bundle_id", "canonicalization", "created_at"}
Own == [bundle_id |-> SomeText, canonicalization |-> "JCS", created_at |-> "time"]
Gathered(own, omitted) ==
  [f \in OwnFields \cup {"routing_decision"} \cup {ListOf[c] : c \in Listed} |->
     IF f \in OwnFields THEN own[f]
     ELSE IF f = "routing_decision" THEN made.RoutingDecision[1]
     ELSE LET c == CHOOSE d \in Listed : ListOf[d] = f
          IN  IF c \in omitted THEN <<>> ELSE made[c]]

Gather ==
  /\ pc = "build" /\ DOMAIN made = {Order[i] : i \in DOMAIN Order}
  /\ pc' = "bundle"
  /\ \/ bundle' = Gathered(Own, {}) /\ edits' = edits
     \/ /\ edits < MaxEdits /\ edits' = edits + 1
        /\ \/ \E c \in Listed : bundle' = Gathered(Own, {c})
           \/ \E f \in OwnFields : \E v \in Classes["TraceBundle"][f].ok :
                bundle' = Gathered([Own EXCEPT ![f] = v], {})
  /\ UNCHANGED <<made, wire, signer, failures>>

AssignBundle ==
  /\ pc = "bundle" /\ edits < MaxEdits /\ edits' = edits + 1
  /\ \E f \in OwnFields : \E v \in Classes["TraceBundle"][f].values :
       bundle' = [bundle EXCEPT ![f] = v]
  /\ UNCHANGED <<pc, made, wire, signer, failures>>

-----------------------------------------------------------------------------
(* The wire form, the signature, and what is validated.                    *)

WireList(c, s) == [i \in DOMAIN s |-> Wire(c, s[i])]
Unsigned(b) ==
  [f \in DOMAIN b |->
     IF f \in OwnFields THEN b[f]
     ELSE IF f = "routing_decision" THEN Wire("RoutingDecision", b[f])
     ELSE WireList(CHOOSE c \in Listed : ListOf[c] = f, b[f])]

Signature(b) ==
  [alg |-> "ed25519", kid |-> SomeText, sig |-> "86", canonicalization |-> "JCS",
   signed_at |-> b.created_at]

Content(w) == [f \in DOMAIN w \ {"signature"} |-> w[f]]
Sign ==
  /\ pc = "bundle"
  /\ pc' = "signed"
  /\ LET w == Unsigned(bundle)
     IN  /\ wire' = [f \in DOMAIN w \cup {"signature"} |->
                       IF f = "signature" THEN Wire("CapabilityTokenSignature", Signature(bundle))
                       ELSE w[f]]
         /\ signer' = [key |-> Key, content |-> w]
  /\ UNCHANGED <<edits, made, bundle, failures>>

verify_signature(w) == signer = [key |-> Key, content |-> Content(w)]
\* (VerifyWhole would take the signature for signed.)
VerifyWhole ==
  /\ pc = "signed"
  /\ pc' = "verified"
  /\ failures' = IF signer = [key |-> Key, content |-> wire] THEN {} ELSE {"signature"}
  /\ UNCHANGED <<edits, made, bundle, wire, signer>>
Verify ==
  /\ pc = "signed"
  /\ pc' = "verified"
  /\ failures' = IF verify_signature(wire) THEN {} ELSE {"signature"}
  /\ UNCHANGED <<edits, made, bundle, wire, signer>>

\* The bundle's schema refers to those of its parts: a part is sound if it
\* satisfies its own.
PartOf(formats, c, w) == IF SchemaAccepts(formats, c, w) THEN "sound" ELSE "broken"
PartsOf(formats, c, s) ==
  CASE s = <<>> -> "[]"
    [] s # <<>> /\ (\A i \in DOMAIN s : SchemaAccepts(formats, c, s[i])) -> "[sound]"
    [] OTHER -> "[broken]"
BundleAccepted(formats, w) ==
  SchemaAccepts(formats, "TraceBundle",
    [f \in DOMAIN w |->
       CASE f \in OwnFields -> w[f]
         [] f = "routing_decision" -> PartOf(formats, "RoutingDecision", w[f])
         [] f = "signature" -> PartOf(formats, "CapabilityTokenSignature", w[f])
         [] OTHER -> PartsOf(formats, CHOOSE c \in Listed : ListOf[c] = f, w[f])])

\* The package that checks date-times is not among the example's.
Formats == FALSE

\* The first item of each list is validated by itself, and what is signed as one
\* whole.  (FirstItems would leave the whole out.)
FirstItems(w) ==
  {c \in Listed : ~SchemaAccepts(Formats, c, w[ListOf[c]][1])}
    \cup {c \in {"RoutingDecision"} : ~SchemaAccepts(Formats, c, w.routing_decision)}
schema_failures(w) ==
  {c \in Listed : ~SchemaAccepts(Formats, c, w[ListOf[c]][1])}
    \cup {c \in {"RoutingDecision"} : ~SchemaAccepts(Formats, c, w.routing_decision)}
    \cup {c \in {"TraceBundle"} : ~BundleAccepted(Formats, w)}

FORBIDDEN_FRAME_KEYS == {"raw_output", "raw", "raw_result", "tool_output"}
Decided(w) == {w.policy_decisions[i].decision_id : i \in DOMAIN w.policy_decisions}
Traced(w) ==
  {w.trace_events[i].decision_id : i \in {j \in DOMAIN w.trace_events :
                                            "decision_id" \in DOMAIN w.trace_events[j]}}
check_invariants(w) ==
  {id \in {"I-01"} : \E i \in DOMAIN w.frames : DOMAIN w.frames[i] \cap FORBIDDEN_FRAME_KEYS # {}}
    \cup {id \in {"I-02"} : ~(Decided(w) \subseteq Traced(w))}

\* An empty list has no first item.  (SchemasOnly would forget the invariants in
\* the exit code.)
SchemasOnly ==
  /\ pc = "verified"
  /\ IF \E c \in Listed : wire[ListOf[c]] = <<>>
     THEN pc' = "raised" /\ failures' = failures
     ELSE /\ failures' = failures \cup schema_failures(wire) \cup check_invariants(wire)
          /\ pc' = (IF failures \cup schema_failures(wire) = {} THEN "passed" ELSE "failed")
  /\ UNCHANGED <<edits, made, bundle, wire, signer>>
Validate ==
  /\ pc = "verified"
  /\ IF \E c \in Listed : wire[ListOf[c]] = <<>>
     THEN pc' = "raised" /\ failures' = failures
     ELSE LET found == failures \cup schema_failures(wire) \cup check_invariants(wire)
          IN  failures' = found /\ pc' = (IF found = {} THEN "passed" ELSE "failed")
  /\ UNCHANGED <<edits, made, bundle, wire, signer>>

Init ==
  /\ pc = "build" /\ edits = 0
  /\ made = NotYet /\ bundle = NotYet /\ wire = NotYet /\ signer = NotYet
  /\ failures = {}

Next ==
  \/ (\E i \in DOMAIN Order : Construct(i)) \/ (\E c \in Listed : ConstructAgain(c))
  \/ (\E c \in {Order[i] : i \in DOMAIN Order} : Assign(c))
  \/ Gather \/ AssignBundle \/ Sign \/ Verify \/ Validate

Spec == Init /\ [][Next]_vars

-----------------------------------------------------------------------------
(* Properties.                                                             *)

TypeOK ==
  /\ pc \in {"build", "bundle", "signed", "verified", "passed", "failed", "raised"}
  /\ edits \in 0..MaxEdits
  /\ \A c \in DOMAIN made : \A i \in DOMAIN made[c] : DOMAIN made[c][i] = Fields(c)
  /\ failures \subseteq {"signature", "I-01", "I-02", "TraceBundle", "RoutingDecision"} \cup Listed
  /\ pc \in {"passed", "failed"} => (pc = "passed" <=> failures = {})

\* What others see of the published bundle, who have the key: it satisfies its
\* schema, its signature is over its content, no Frame has raw output, and every
\* decision has its event.
Conformant(formats, w) ==
  /\ BundleAccepted(formats, w)
  /\ signer = [key |-> Key, content |-> Content(w)]
  /\ \A i \in DOMAIN w.frames : DOMAIN w.frames[i] \cap FORBIDDEN_FRAME_KEYS = {}
  /\ \A i \in DOMAIN w.policy_decisions : \E j \in DOMAIN w.trace_events :
       LET e == w.trace_events[j]
       IN  "decision_id" \in DOMAIN e /\ e.decision_id = w.policy_decisions[i].decision_id

\* Exit code zero means that the bundle is conformant, whatever was changed in
\* build_bundle() and in whichever item of a list; and where others check
\* date-times, too, unless the bundle's own created_at, a string, is none.
PassedIsConformant ==
  pc = "passed" =>
    /\ Conformant(FALSE, wire)
    /\ wire.created_at \in {"time", "timez", None} => Conformant(TRUE, wire)

\* A conformant bundle fails only for an empty list.  (The schema lets lists be
\* empty; main() takes their first items.)
ConformantPasses ==
  /\ pc = "failed" => ~Conformant(FALSE, wire)
  /\ pc = "raised" /\ signer # NotYet => \E c \in Listed : wire[ListOf[c]] = <<>>

\* Whoever receives a bundle that passed can construct every object in it, and
\* has what was sent, but for an empty structured_data.
Arrives(c, o, w) ==
  /\ Constructs(c, w)
  /\ \A f \in Fields(c) :
       Received(c, w)[f] = o[f] \/ (c = "Frame" /\ f = "structured_data" /\ o[f] = "{}")
ReceiverHasTheChain ==
  pc = "passed" =>
    /\ Arrives("RoutingDecision", made.RoutingDecision[1], wire.routing_decision)
    /\ \A c \in Listed :
         /\ Len(wire[ListOf[c]]) = Len(made[c])
         /\ \A i \in DOMAIN made[c] : Arrives(c, made[c][i], wire[ListOf[c]][i])
=============================================================================
