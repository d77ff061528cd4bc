------------------------- MODULE ReferenceFlowProofs -------------------------
(***************************************************************************)
(* What the exit code of the reference flow says, for every set of texts,  *)
(* every key and any number of edits.                                      *)
(***************************************************************************)
EXTENDS ReferenceFlow, ExchangeProofs

-----------------------------------------------------------------------------
(* The inductive invariant.                                                *)

Objects(c) ==
  {o \in [Fields(c) -> UNION {Classes[c][f].values : f \in Fields(c)}] : Typed(c, o)}

\* The first classes of Order have objects, and each object has values of its
\* types, though perhaps not ones that its constructor would let pass.
MadeInv ==
  /\ \E n \in 0..6 : DOMAIN made = {Order[j] : j \in 1..n}
  /\ \A c \in DOMAIN made : made[c] \in Seq(Objects(c)) /\ made[c] # <<>>

\* A bundle holds all that was made, a list that was left out aside, and what is
\* its own has values of its types.
Holds(b) ==
  /\ DOMAIN b = OwnFields \cup {"routing_decision"} \cup {ListOf[c] : c \in Listed}
  /\ \A f \in OwnFields : b[f] \in Classes["TraceBundle"][f].values
  /\ b.routing_decision = made.RoutingDecision[1]
  /\ \A c \in Listed : b[ListOf[c]] \in {made[c], <<>>}
Complete == DOMAIN made = {Order[i] : i \in DOMAIN Order}
GatheredInv ==
  pc \notin {"build", "raised"} \/ signer # NotYet => Complete /\ Holds(bundle)

\* The bundle on the wire is the bundle in memory, and so is what was signed.
Published(b) ==
  [f \in DOMAIN Unsigned(b) \cup {"signature"} |->
     IF f = "signature" THEN Wire("CapabilityTokenSignature", Signature(b)) ELSE Unsigned(b)[f]]
SignedInv ==
  /\ pc \in {"build", "bundle"} => signer = NotYet
  /\ pc \in {"signed", "verified", "passed", "failed"} => signer # NotYet
  /\ signer # NotYet =>
       signer = [key |-> Key, content |-> Unsigned(bundle)] /\ wire = Published(bundle)

\* What was found is what there is.
SomeEmpty(w) == \E c \in Listed : w[ListOf[c]] = <<>>
FailuresInv ==
  /\ pc \notin {"passed", "failed"} => failures = {}
  /\ pc = "raised" /\ signer # NotYet => SomeEmpty(wire)
  /\ pc \in {"passed", "failed"} =>
       /\ ~SomeEmpty(wire)
       /\ failures = schema_failures(wire) \cup check_invariants(wire)
       /\ pc = "passed" <=> failures = {}

FlowInv ==
  /\ pc \in {"build", "bundle", "signed", "verified", "passed", "failed", "raised"}
  /\ edits \in 0..MaxEdits
  /\ MadeInv /\ GatheredInv /\ SignedInv /\ FailuresInv

-----------------------------------------------------------------------------
(* Objects.                                                                *)

LEMMA FlowClasses ==
  /\ {Order[i] : i \in DOMAIN Order} \subseteq CoreTypes /\ CoreTypes \subseteq DOMAIN Classes
  /\ DOMAIN Order = 1..6
  /\ Listed \subseteq {Order[i] : i \in DOMAIN Order}
  /\ {"TraceBundle", "CapabilityTokenSignature"} \subseteq DOMAIN Classes
BY DEF Order, CoreTypes, Classes, Listed

LEMMA ObjectTyped ==
  ASSUME NEW c \in DOMAIN Classes
  PROVE  /\ \A o \in Objects(c) : Typed(c, o)
         /\ \A o : Typed(c, o) /\ o = [f \in Fields(c) |-> o[f]] => o \in Objects(c)
BY DEF Objects, Typed

LEMMA SampleObject ==
  ASSUME NEW c \in DOMAIN Classes
  PROVE  Sample(c) \in Objects(c)
<1>1. Sample(c) = [f \in Fields(c) |-> Sample(c)[f]]  BY DEF Sample
<1> QED BY <1>1, SampleTyped, ObjectTyped

LEMMA ChangedObject ==
  ASSUME NEW c \in DOMAIN Classes, NEW o \in Objects(c), NEW p \in Changed(c, o)
  PROVE  p \in Objects(c)
<1>1. Typed(c, p)  BY ObjectTyped, ChangedTyped
<1>2. p = [f \in Fields(c) |-> p[f]]  BY DEF Objects, Changed
<1> QED BY <1>1, <1>2, ObjectTyped

LEMMA ASomeText == SomeText \in Texts
BY Words DEF SomeText

\* What the example constructs has values of its types.
LEMMA ArgumentsObject ==
  ASSUME MadeInv, NEW i \in 1..6, DOMAIN made = {Order[j] : j \in 1..(i - 1)}
  PROVE  Arguments(Order[i]) \in Objects(Order[i])
<1> DEFINE c == Order[i]
<1>1. c \in DOMAIN Classes  BY FlowClasses
<1>2. Sample(c) \in Objects(c) /\ Typed(c, Sample(c))  BY <1>1, SampleObject, SampleTyped
<1>3. SomeText \in Strings  BY ASomeText DEF Strings
<1>4. CASE i = 1
  <2>1. c = "RoutingDecision"  BY <1>4 DEF Order
  <2>2. /\ {"selected_item_id", "selected_card_id", "context_summary"} \subseteq Fields(c)
        /\ \A f \in {"selected_item_id", "selected_card_id", "context_summary"} :
             SomeText \in Classes[c][f].values
    BY <1>3, <2>1 DEF Classes, Fields, RoutingDecision, OptText, Free, Field
  <2> QED BY <1>2, <2>1, <2>2 DEF Arguments, Objects, Typed
<1>5. CASE i = 2
  <2>1. c = "CapabilityToken"  BY <1>5 DEF Order
  <2>2. "issuer" \in Fields(c) /\ SomeText \in Classes[c].issuer.values
    BY <1>3, <2>1 DEF Classes, Fields, CapabilityToken, OptText, Free, Field
  <2> QED BY <1>2, <2>1, <2>2 DEF Arguments, Objects, Typed
<1>6. CASE i = 3
  <2>1. c = "PolicyDecision" /\ "CapabilityToken" \in DOMAIN made  BY <1>6 DEF Order
  <2>2. made.CapabilityToken[1] \in Objects("CapabilityToken")
    BY <2>1 DEF MadeInv
  <2>3. made.CapabilityToken[1].token_id \in Strings
    BY <2>2 DEF Objects, Typed, Classes, Fields, CapabilityToken, Named, Field
  <2>4. /\ {"decision", "token_id"} \subseteq Fields(c)
        /\ "allow" \in Classes[c].decision.values
        /\ made.CapabilityToken[1].token_id \in Classes[c].token_id.values
    BY <2>1, <2>3 DEF Classes, Fields, PolicyDecision, OptText, OneOf, Free, Field
  <2> QED BY <1>2, <2>1, <2>4 DEF Arguments, Objects, Typed
<1>7. CASE i = 4
  <2>1. c = "Handle"  BY <1>7 DEF Order
  <2>2. /\ {"expires_at", "byte_size"} \subseteq Fields(c)
        /\ "time" \in Classes[c].expires_at.values /\ "0" \in Classes[c].byte_size.values
    <3>1. Classes["Handle"] = Handle  BY DEF Classes
    <3>2. /\ {"expires_at", "byte_size"} \subseteq DOMAIN Handle
          /\ Handle.expires_at = OptTime /\ Handle.byte_size = OptCount
      BY DEF Handle
    <3>3. "time" \in OptTime.values /\ "0" \in OptCount.values
      BY DEF OptTime, OptCount, Free, Field
    <3> QED BY <2>1, <3>1, <3>2, <3>3 DEF Fields
  <2> QED BY <1>2, <2>1, <2>2 DEF Arguments, Objects, Typed
<1>8. CASE i = 5
  <2>1. c = "Frame"  BY <1>8 DEF Order
  <2>2. "handle_refs" \in Fields(c) /\ "[text]" \in Classes[c].handle_refs.values
    BY <2>1 DEF Classes, Fields, Frame, Free, Field
  <2> QED BY <1>2, <2>1, <2>2 DEF Arguments, Objects, Typed
<1>9. CASE i = 6
  <2>1. c = "TraceEvent" /\ {"PolicyDecision", "Frame", "Handle"} \subseteq DOMAIN made
    BY <1>9 DEF Order
  <2>2. /\ made.PolicyDecision[1] \in Objects("PolicyDecision")
        /\ made.Frame[1] \in Objects("Frame") /\ made.Handle[1] \in Objects("Handle")
    BY <2>1 DEF MadeInv
  <2>3. /\ made.PolicyDecision[1].decision_id \in Strings
        /\ made.Frame[1].frame_id \in Strings /\ made.Handle[1].handle_id \in Strings
    BY <2>2
    DEF Objects, Typed, Classes, Fields, PolicyDecision, Frame, Handle, Named, Field
  <2>4. /\ {"event_type", "capability_id", "principal", "outcome", "decision_id", "frame_id",
            "handle_id"} \subseteq Fields(c)
        /\ "capability_executed" \in Classes[c].event_type.values
        /\ "success" \in Classes[c].outcome.values
        /\ \A f \in {"capability_id", "principal", "decision_id", "frame_id", "handle_id"} :
             Strings \subseteq Classes[c][f].values
    BY <2>1 DEF Classes, Fields, TraceEvent, OptText, OneOf, OptOneOf, Free, Field,
                TRACE_EVENT_TYPES, TRACE_EVENT_OUTCOMES
  <2> DEFINE o == Arguments(c)
           given == {"event_type", "capability_id", "principal", "outcome", "decision_id",
                     "frame_id", "handle_id"}
  <2>5. /\ o = [f \in Fields(c) |-> o[f]]
        /\ \A f \in Fields(c) \ given : o[f] = Sample(c)[f]
    BY <1>2, <2>1 DEF Arguments, Typed
  <2>6. /\ o.event_type = "capability_executed" /\ o.outcome = "success"
        /\ o.capability_id = SomeText /\ o.principal = SomeText
        /\ o.decision_id = made.PolicyDecision[1].decision_id
        /\ o.frame_id = made.Frame[1].frame_id /\ o.handle_id = made.Handle[1].handle_id
    BY <1>2, <2>1, <2>4 DEF Arguments, Typed
  <2>7. \A f \in given : o[f] \in Classes[c][f].values
    BY <1>3, <2>3, <2>4, <2>6
  <2>8. Typed(c, o)  BY <1>2, <2>5, <2>7 DEF Typed
  <2> QED BY <1>1, <2>5, <2>8, ObjectTyped
<1> QED BY <1>4, <1>5, <1>6, <1>7, <1>8, <1>9

LEMMA NewMade ==
  ASSUME MadeInv, NEW c \in DOMAIN Classes, NEW o \in Objects(c), New(c, o)
  PROVE  /\ \A d \in DOMAIN made' : made'[d] \in Seq(Objects(d)) /\ made'[d] # <<>>
         /\ DOMAIN made' \in {DOMAIN made, DOMAIN made \cup {c}}
         /\ c \in DOMAIN made => DOMAIN made' = DOMAIN made
         /\ pc' = "raised" \/ (pc' = pc /\ DOMAIN made' = DOMAIN made \cup {c})
<1>1. CASE __post_init__(c, o)
  <2>1. /\ made' = [d \in DOMAIN made \cup {c} |->
                      IF d # c THEN made[d]
                      ELSE IF c \in DOMAIN made THEN Append(made[c], o) ELSE <<o>>]
        /\ pc' = pc
    BY <1>1 DEF New
  <2>2. <<o>> \in Seq(Objects(c)) /\ <<o>> # <<>>  OBVIOUS
  <2>3. ASSUME c \in DOMAIN made
        PROVE  Append(made[c], o) \in Seq(Objects(c)) /\ Append(made[c], o) # <<>>
    <3>1. made[c] \in Seq(Objects(c))  BY <2>3 DEF MadeInv
    <3> QED BY <3>1
  <2> QED BY <2>1, <2>2, <2>3 DEF MadeInv
<1>2. CASE ~__post_init__(c, o)
  BY <1>2 DEF New, MadeInv
<1> QED BY <1>1, <1>2

-----------------------------------------------------------------------------
(* Bundles.                                                                *)

LEMMA ListClass ==
  ASSUME NEW c \in Listed
  PROVE  /\ (CHOOSE d \in Listed : ListOf[d] = ListOf[c]) = c
         /\ ListOf[c] \notin OwnFields \cup {"routing_decision", "signature"}
BY DEF Listed, ListOf, OwnFields

LEMMA OwnTyped ==
  /\ OwnFields \subseteq Fields("TraceBundle")
  /\ DOMAIN Own = OwnFields /\ \A f \in OwnFields : Own[f] \in Classes["TraceBundle"][f].values
  /\ \A f \in OwnFields : Classes["TraceBundle"][f].ok \subseteq Classes["TraceBundle"][f].values
<1>1. Classes["TraceBundle"] = TraceBundle  BY DEF Classes
<1>2. /\ OwnFields \subseteq DOMAIN TraceBundle
      /\ TraceBundle.bundle_id = Named /\ TraceBundle.created_at = OptStamp
      /\ TraceBundle.canonicalization = OneOf({"JCS"}, "JCS")
  BY DEF OwnFields, TraceBundle
<1>3. /\ SomeText \in Named.values /\ "time" \in OptStamp.values
      /\ "JCS" \in OneOf({"JCS"}, "JCS").values
  BY ASomeText DEF Named, OptStamp, OneOf, Free, Field, Strings, Stamps
<1>4. Named.ok \subseteq Named.values /\ OptStamp.ok \subseteq OptStamp.values
  BY DEF Named, OptStamp, Free, Field, Strings
<1>5. OneOf({"JCS"}, "JCS").ok \subseteq OneOf({"JCS"}, "JCS").values
  BY DEF OneOf, Field
<1> QED BY <1>1, <1>2, <1>3, <1>4, <1>5 DEF Fields, OwnFields, Own

LEMMA GatheredHolds ==
  ASSUME NEW own, \A f \in OwnFields : own[f] \in Classes["TraceBundle"][f].values,
         NEW omitted \in SUBSET Listed
  PROVE  Holds(Gathered(own, omitted))
<1> DEFINE b == Gathered(own, omitted)
<1>1. DOMAIN b = OwnFields \cup {"routing_decision"} \cup {ListOf[c] : c \in Listed}
  BY DEF Gathered
<1>2. \A f \in OwnFields : b[f] = own[f]  BY <1>1 DEF Gathered
<1>3. b["routing_decision"] = made.RoutingDecision[1]
  BY <1>1 DEF Gathered, OwnFields
<1>4. ASSUME NEW c \in Listed
      PROVE  b[ListOf[c]] \in {made[c], <<>>}
  BY <1>1, <1>4, ListClass DEF Gathered
<1> QED BY <1>1, <1>2, <1>3, <1>4 DEF Holds

\* What is published of a bundle, key by key.
LEMMA PublishedIs ==
  ASSUME NEW b, DOMAIN b = OwnFields \cup {"routing_decision"} \cup {ListOf[c] : c \in Listed}
  PROVE  LET w == Published(b)
         IN  /\ DOMAIN w = DOMAIN b \cup {"signature"}
             /\ \A f \in OwnFields : w[f] = b[f]
             /\ w.routing_decision = Wire("RoutingDecision", b.routing_decision)
             /\ \A c \in Listed : w[ListOf[c]] = WireList(c, b[ListOf[c]])
             /\ w.signature = Wire("CapabilityTokenSignature", Signature(b))
             /\ Content(w) = Unsigned(b)
<1> DEFINE w == Published(b)
           u == Unsigned(b)
<1>1. DOMAIN u = DOMAIN b /\ "signature" \notin DOMAIN b
  <2>1. DOMAIN u = DOMAIN b  BY DEF Unsigned
  <2>2. "signature" \notin OwnFields \cup {"routing_decision"}  BY DEF OwnFields
  <2> QED BY <2>1, <2>2, ListClass
<1>2. DOMAIN w = DOMAIN b \cup {"signature"} /\ \A f \in DOMAIN b : w[f] = u[f]
  BY <1>1 DEF Published
<1>3. w["signature"] = Wire("CapabilityTokenSignature", Signature(b))
  BY DEF Published
<1>4. \A f \in OwnFields : u[f] = b[f]  BY DEF Unsigned
<1>5. u["routing_decision"] = Wire("RoutingDecision", b["routing_decision"])
  BY DEF Unsigned, OwnFields
<1>6. ASSUME NEW c \in Listed
      PROVE  u[ListOf[c]] = WireList(c, b[ListOf[c]])
  BY <1>6, ListClass DEF Unsigned
<1>7. Content(w) = u
  <2>1. DOMAIN w \ {"signature"} = DOMAIN b  BY <1>1, <1>2
  <2>2. Content(w) = [f \in DOMAIN b |-> u[f]]  BY <1>2, <2>1 DEF Content
  <2>3. u = [f \in DOMAIN b |-> u[f]]  BY DEF Unsigned
  <2> QED BY <2>2, <2>3
<1> QED BY <1>2, <1>3, <1>4, <1>5, <1>6, <1>7

\* The parts of a bundle satisfy their schemas, and so does what is its own.
PartsAccepted(formats, w) ==
  /\ SchemaAccepts(formats, "RoutingDecision", w.routing_decision)
  /\ SchemaAccepts(formats, "CapabilityTokenSignature", w.signature)
  /\ \A c \in Listed : \A i \in DOMAIN w[ListOf[c]] : SchemaAccepts(formats, c, w[ListOf[c]][i])
OwnAccepted(formats, w) ==
  /\ w.bundle_id \in NonEmpty /\ w.canonicalization = "JCS"
  /\ w.created_at \in Nullable(DateTime(formats))

LEMMA PartsAlone ==
  ASSUME NEW formats, NEW c, NEW s
  PROVE  PartsOf(formats, c, s) \in Sound <=> \A i \in DOMAIN s : SchemaAccepts(formats, c, s[i])
<1>1. CASE s = <<>>  BY <1>1 DEF PartsOf, Sound
<1>2. CASE s # <<>> /\ \A i \in DOMAIN s : SchemaAccepts(formats, c, s[i])
  BY <1>2 DEF PartsOf, Sound
<1>3. CASE s # <<>> /\ ~ \A i \in DOMAIN s : SchemaAccepts(formats, c, s[i])
  <2>1. PartsOf(formats, c, s) = "[broken]"  BY <1>3 DEF PartsOf
  <2> QED BY <1>3, <2>1 DEF Sound
<1> QED BY <1>1, <1>2, <1>3

\* A bundle satisfies its schema exactly if all that is in it does.
LEMMA BundleAcceptedIs ==
  ASSUME NEW formats \in BOOLEAN, NEW w,
         DOMAIN w = OwnFields \cup {"routing_decision", "signature"} \cup {ListOf[c] : c \in Listed}
  PROVE  BundleAccepted(formats, w) <=> OwnAccepted(formats, w) /\ PartsAccepted(formats, w)
<1> DEFINE v == [f \in DOMAIN w |->
                   CASE f \in OwnFields -> w[f]
                     [] f = "routing_decision" -> PartOf(formats, "RoutingDecision", w[f])
                     [] f = "signature" -> PartOf(formats, "CapabilityTokenSignature", w[f])
                     [] OTHER -> PartsOf(formats, CHOOSE c \in Listed : ListOf[c] = f, w[f])]
           s == extended__trace_bundle(formats)
<1>1. SchemaTable[formats]["TraceBundle"] = s
  <2>1. "TraceBundle" \notin CoreTypes /\ ExtendedSchemas(formats)["TraceBundle"] = s
    BY DEF CoreTypes, ExtendedSchemas
  <2> QED BY <2>1, FlowClasses DEF SchemaTable, SchemaOf
<1>2. Conditions(formats, "TraceBundle", v)  BY DEF Conditions
<1>3. DOMAIN v = OwnFields \cup {"routing_decision", "signature"} \cup {ListOf[c] : c \in Listed}
  OBVIOUS
<1>4. \A f \in OwnFields : v[f] = w[f]  BY DEF OwnFields
<1>5. /\ v["routing_decision"] = PartOf(formats, "RoutingDecision", w.routing_decision)
      /\ v["signature"] = PartOf(formats, "CapabilityTokenSignature", w.signature)
  BY DEF OwnFields
<1>6. ASSUME NEW c \in Listed
      PROVE  v[ListOf[c]] = PartsOf(formats, c, w[ListOf[c]])
  BY <1>6, ListClass
<1>7. /\ s.required \subseteq DOMAIN v
      /\ DOMAIN v \cap DOMAIN s.properties = DOMAIN v
  BY <1>3 DEF extended__trace_bundle, Schema, OwnFields, Listed, ListOf
<1>8. /\ s.properties.bundle_id = NonEmpty /\ s.properties.canonicalization = {"JCS"}
      /\ s.properties.created_at = Nullable(DateTime(formats))
      /\ s.properties.routing_decision = {"sound"} /\ s.properties.signature = {"sound"}
      /\ \A c \in Listed : s.properties[ListOf[c]] = Sound
  BY DEF extended__trace_bundle, Schema, Listed, ListOf
<1>9. (\A f \in OwnFields : v[f] \in s.properties[f]) <=> OwnAccepted(formats, w)
  BY <1>4, <1>8 DEF OwnFields, OwnAccepted
<1>10. /\ v["routing_decision"] \in {"sound"}
           <=> SchemaAccepts(formats, "RoutingDecision", w.routing_decision)
       /\ v["signature"] \in {"sound"}
           <=> SchemaAccepts(formats, "CapabilityTokenSignature", w.signature)
  BY <1>5 DEF PartOf
<1>11. ASSUME NEW c \in Listed
       PROVE  v[ListOf[c]] \in Sound
                <=> \A i \in DOMAIN w[ListOf[c]] : SchemaAccepts(formats, c, w[ListOf[c]][i])
  BY <1>6, PartsAlone
<1>12. (\A f \in DOMAIN v : v[f] \in s.properties[f])
         <=> /\ \A f \in OwnFields : v[f] \in s.properties[f]
             /\ v["routing_decision"] \in {"sound"} /\ v["signature"] \in {"sound"}
             /\ \A c \in Listed : v[ListOf[c]] \in Sound
  <2> HIDE DEF v, s
  <2> QED BY <1>3, <1>8
<1>13. BundleAccepted(formats, w) <=> \A f \in DOMAIN v : v[f] \in s.properties[f]
  BY <1>1, <1>2, <1>7 DEF BundleAccepted, SchemaAccepts
<1> HIDE DEF v, s
<1> QED BY <1>9, <1>10, <1>11, <1>12, <1>13 DEF PartsAccepted

-----------------------------------------------------------------------------
(* The invariant is inductive.                                             *)

LEMMA FlowInitInv == Init => FlowInv
<1> SUFFICES ASSUME Init PROVE FlowInv
  OBVIOUS
<1>1. MadeInv
  <2>1. DOMAIN made = {Order[j] : j \in 1..0}  BY DEF Init, NotYet
  <2> QED BY <2>1 DEF MadeInv
<1> QED BY <1>1, FlowAssumption
    DEF Init, FlowInv, GatheredInv, SignedInv, FailuresInv, FlowAssumption

\* While objects are made, nothing else is.
LEMMA BuildInv ==
  ASSUME FlowInv, pc = "build", pc' \in {"build", "raised"}, MadeInv', edits' \in 0..MaxEdits,
         UNCHANGED <<bundle, wire, signer, failures>>
  PROVE  FlowInv'
BY DEF FlowInv, GatheredInv, SignedInv, FailuresInv

LEMMA ConstructInv ==
  ASSUME FlowInv, NEW i \in DOMAIN Order, Construct(i)
  PROVE  FlowInv'
<1> DEFINE c == Order[i]
<1>1. /\ i \in 1..6 /\ c \in DOMAIN Classes
      /\ pc = "build" /\ DOMAIN made = {Order[j] : j \in 1..(i - 1)}
      /\ MadeInv /\ edits \in 0..MaxEdits
  BY FlowClasses DEF Construct, FlowInv
<1>2. Arguments(c) \in Objects(c)  BY <1>1, ArgumentsObject
<1>3. PICK o \in Objects(c) : New(c, o)
  BY <1>1, <1>2, ChangedObject DEF Construct
<1>4. edits' \in 0..MaxEdits  BY <1>1, FlowAssumption DEF Construct, FlowAssumption
<1>5. MadeInv' /\ pc' \in {"build", "raised"}
  <2>1. DOMAIN made \cup {c} = {Order[j] : j \in 1..i}  BY <1>1
  <2>2. i \in 0..6 /\ i - 1 \in 0..6  BY <1>1
  <2> QED BY <1>1, <1>3, <2>1, <2>2, NewMade DEF MadeInv
<1> QED BY <1>1, <1>4, <1>5, BuildInv DEF Construct

LEMMA ConstructAgainInv ==
  ASSUME FlowInv, NEW c \in Listed, ConstructAgain(c)
  PROVE  FlowInv'
<1>1. c \in DOMAIN Classes /\ pc = "build" /\ c \in DOMAIN made /\ MadeInv /\ edits \in 0..MaxEdits
  BY FlowClasses DEF ConstructAgain, FlowInv
<1>2. made[c][1] \in Objects(c)  BY <1>1 DEF MadeInv
<1>3. PICK o \in Objects(c) : New(c, o)
  BY <1>1, <1>2, ChangedObject DEF ConstructAgain
<1>4. edits' \in 0..MaxEdits  BY <1>1, FlowAssumption DEF ConstructAgain, FlowAssumption
<1>5. MadeInv' /\ pc' \in {"build", "raised"}
  BY <1>1, <1>3, NewMade DEF MadeInv
<1> QED BY <1>1, <1>4, <1>5, BuildInv DEF ConstructAgain

LEMMA AssignInv ==
  ASSUME FlowInv, NEW c \in {Order[i] : i \in DOMAIN Order}, Assign(c)
  PROVE  FlowInv'
<1>1. c \in DOMAIN Classes /\ pc = "build" /\ c \in DOMAIN made /\ MadeInv /\ edits \in 0..MaxEdits
  BY FlowClasses DEF Assign, FlowInv
<1>2. PICK i \in DOMAIN made[c] :
        \E o \in Changed(c, made[c][i]) : made' = [made EXCEPT ![c][i] = o]
  BY DEF Assign
<1>3. PICK o \in Changed(c, made[c][i]) : made' = [made EXCEPT ![c][i] = o]
  BY <1>2
<1>4. made[c] \in Seq(Objects(c)) /\ made[c] # <<>>  BY <1>1 DEF MadeInv
<1>5. o \in Objects(c)  BY <1>1, <1>3, <1>4, ChangedObject
<1>6. [made[c] EXCEPT ![i] = o] \in Seq(Objects(c)) /\ [made[c] EXCEPT ![i] = o] # <<>>
  <2>1. [made[c] EXCEPT ![i] = o] \in Seq(Objects(c))  BY <1>4, <1>5
  <2>2. DOMAIN [made[c] EXCEPT ![i] = o] # {}  BY <1>2
  <2> QED BY <2>1, <2>2
<1>7. DOMAIN made' = DOMAIN made /\ made'[c] = [made[c] EXCEPT ![i] = o]
  BY <1>1, <1>3
<1>8. \A d \in DOMAIN made : d # c => made'[d] = made[d]
  BY <1>3
<1>9. MadeInv'
  BY <1>1, <1>6, <1>7, <1>8 DEF MadeInv
<1>10. edits' \in 0..MaxEdits  BY <1>1, FlowAssumption DEF Assign, FlowAssumption
<1> QED BY <1>1, <1>9, <1>10, BuildInv DEF Assign

LEMMA GatherInv ==
  ASSUME FlowInv, Gather
  PROVE  FlowInv'
<1>1. Complete /\ pc = "build" /\ pc' = "bundle" /\ edits \in 0..MaxEdits
  BY DEF Gather, Complete, FlowInv
<1>2. edits' \in 0..MaxEdits  BY <1>1, FlowAssumption DEF Gather, FlowAssumption
<1>3. Holds(bundle')
  <2>1. CASE bundle' = Gathered(Own, {})  BY <2>1, OwnTyped, GatheredHolds
  <2>2. ASSUME NEW c \in Listed, bundle' = Gathered(Own, {c})
        PROVE  Holds(bundle')
    BY <2>2, OwnTyped, GatheredHolds
  <2>3. ASSUME NEW f \in OwnFields, NEW v \in Classes["TraceBundle"][f].ok,
               bundle' = Gathered([Own EXCEPT ![f] = v], {})
        PROVE  Holds(bundle')
    <3> DEFINE own == [Own EXCEPT ![f] = v]
    <3>1. \A g \in OwnFields : own[g] \in Classes["TraceBundle"][g].values
      BY OwnTyped
    <3> QED BY <2>3, <3>1, GatheredHolds
  <2> QED BY <2>1, <2>2, <2>3 DEF Gather
<1>5. UNCHANGED <<made, wire, signer, failures>>  BY DEF Gather
<1>6. Holds(bundle)'  BY <1>3, <1>5 DEF Holds
<1> QED BY <1>1, <1>2, <1>5, <1>6
    DEF FlowInv, MadeInv, GatheredInv, SignedInv, FailuresInv, Complete

LEMMA AssignBundleInv ==
  ASSUME FlowInv, AssignBundle
  PROVE  FlowInv'
<1>1. Complete /\ Holds(bundle) /\ pc = "bundle" /\ edits \in 0..MaxEdits
  BY DEF AssignBundle, FlowInv, GatheredInv
<1>2. edits' \in 0..MaxEdits  BY <1>1, FlowAssumption DEF AssignBundle, FlowAssumption
<1>3. UNCHANGED <<pc, made, wire, signer, failures>>  BY DEF AssignBundle
<1>4. PICK f \in OwnFields : \E v \in Classes["TraceBundle"][f].values :
        bundle' = [bundle EXCEPT ![f] = v]
  BY DEF AssignBundle
<1>5. PICK v \in Classes["TraceBundle"][f].values : bundle' = [bundle EXCEPT ![f] = v]
  BY <1>4
<1>6. Holds(bundle')
  <2>1. DOMAIN bundle' = DOMAIN bundle /\ \A g \in DOMAIN bundle : g # f => bundle'[g] = bundle[g]
    BY <1>5
  <2>2. bundle'[f] = v  BY <1>1, <1>5 DEF Holds
  <2>3. "routing_decision" # f /\ \A c \in Listed : ListOf[c] # f
    BY ListClass DEF OwnFields
  <2> QED BY <1>1, <2>1, <2>2, <2>3 DEF Holds
<1>7. Holds(bundle)'  BY <1>3, <1>6 DEF Holds
<1> QED BY <1>1, <1>2, <1>3, <1>7
    DEF FlowInv, MadeInv, GatheredInv, SignedInv, FailuresInv, Complete

LEMMA SignInv ==
  ASSUME FlowInv, Sign
  PROVE  FlowInv'
<1>1. pc = "bundle" /\ pc' = "signed" /\ UNCHANGED <<edits, made, bundle, failures>>
  BY DEF Sign
<1>2. signer' = [key |-> Key, content |-> Unsigned(bundle)] /\ wire' = Published(bundle)
  BY DEF Sign, Published
<1>3. signer' # NotYet
  <2>1. DOMAIN signer' = {"key", "content"} /\ DOMAIN NotYet = {}  BY <1>2 DEF NotYet
  <2> QED BY <2>1
<1>4. MadeInv' /\ (Complete /\ Holds(bundle))'
  BY <1>1 DEF FlowInv, MadeInv, GatheredInv, Complete, Holds
<1>5. (signer = [key |-> Key, content |-> Unsigned(bundle)] /\ wire = Published(bundle))'
  <2>1. bundle' = bundle  BY <1>1
  <2> QED BY <1>2, <2>1
<1> QED BY <1>1, <1>3, <1>4, <1>5 DEF FlowInv, GatheredInv, SignedInv, FailuresInv

\* After signing, only the verdict changes.
LEMMA SignedStays ==
  ASSUME FlowInv, pc \in {"signed", "verified"}, UNCHANGED <<edits, made, bundle, wire, signer>>,
         pc' \in {"verified", "passed", "failed", "raised"}
  PROVE  edits' \in 0..MaxEdits /\ MadeInv' /\ GatheredInv' /\ SignedInv'
<1>1. (Complete /\ Holds(bundle))'
  BY DEF FlowInv, GatheredInv, Complete, Holds
<1>2. signer' # NotYet  BY DEF FlowInv, SignedInv
<1>3. (signer = [key |-> Key, content |-> Unsigned(bundle)] /\ wire = Published(bundle))'
  BY <1>2 DEF FlowInv, SignedInv
<1> QED BY <1>1, <1>2, <1>3 DEF FlowInv, MadeInv, GatheredInv, SignedInv

LEMMA VerifyInv ==
  ASSUME FlowInv, Verify
  PROVE  FlowInv'
<1>1. verify_signature(wire)
  <2>1. /\ signer = [key |-> Key, content |-> Unsigned(bundle)] /\ wire = Published(bundle)
        /\ Holds(bundle)
    BY DEF Verify, FlowInv, SignedInv, GatheredInv
  <2>2. Content(wire) = Unsigned(bundle)  BY <2>1, PublishedIs DEF Holds
  <2> QED BY <2>1, <2>2 DEF verify_signature
<1>2. failures' = {}  BY <1>1 DEF Verify
<1>3. edits' \in 0..MaxEdits /\ MadeInv' /\ GatheredInv' /\ SignedInv'
  BY SignedStays DEF Verify
<1> QED BY <1>2, <1>3 DEF Verify, FlowInv, FailuresInv

LEMMA ValidateInv ==
  ASSUME FlowInv, Validate
  PROVE  FlowInv'
<1>1. pc = "verified" /\ failures = {} /\ UNCHANGED <<edits, made, bundle, wire, signer>>
  BY DEF Validate, FlowInv, FailuresInv
<1>2. CASE SomeEmpty(wire)
  <2>1. pc' = "raised" /\ failures' = {}  BY <1>1, <1>2 DEF Validate, SomeEmpty
  <2>2. SomeEmpty(wire)'  BY <1>1, <1>2 DEF SomeEmpty
  <2> QED BY <1>1, <2>1, <2>2, SignedStays DEF FlowInv, FailuresInv
<1>3. CASE ~SomeEmpty(wire)
  <2>1. /\ failures' = schema_failures(wire) \cup check_invariants(wire)
        /\ pc' = IF failures' = {} THEN "passed" ELSE "failed"
    BY <1>1, <1>3 DEF Validate, SomeEmpty
  <2>2. ~SomeEmpty(wire)'  BY <1>1, <1>3 DEF SomeEmpty
  <2>3. wire' = wire /\ pc' \in {"passed", "failed"} /\ (pc' = "passed" <=> failures' = {})
    BY <1>1, <2>1
  <2>4. failures' = schema_failures(wire') \cup check_invariants(wire')
    BY <2>1, <2>3
  <2> QED BY <1>1, <2>2, <2>3, <2>4, SignedStays
      DEF FlowInv, FailuresInv, schema_failures, check_invariants
<1> QED BY <1>2, <1>3

LEMMA FlowNextInv == FlowInv /\ [Next]_vars => FlowInv'
<1> SUFFICES ASSUME FlowInv, [Next]_vars PROVE FlowInv'
  OBVIOUS
<1>1. CASE UNCHANGED vars
  <2>1. UNCHANGED <<pc, edits, made, bundle, wire, signer, failures>>  BY <1>1 DEF vars
  <2>2. MadeInv' /\ GatheredInv'  BY <2>1 DEF FlowInv, MadeInv, GatheredInv, Complete, Holds
  <2>3. SignedInv' /\ FailuresInv'  BY <2>1 DEF FlowInv, SignedInv, FailuresInv
  <2> QED BY <2>1, <2>2, <2>3 DEF FlowInv
<1> QED BY <1>1, ConstructInv, ConstructAgainInv, AssignInv, GatherInv, AssignBundleInv, SignInv,
           VerifyInv, ValidateInv
    DEF Next

LEMMA FlowInvariant == Spec => []FlowInv
BY FlowInitInv, FlowNextInv, PTL DEF Spec

-----------------------------------------------------------------------------
(* The properties.                                                         *)

\* Whatever is constructed, changed or assigned, an object keeps the fields of
\* its class, and the exit code is what was found.
THEOREM FlowTyped == Spec => []TypeOK
<1>1. FlowInv => TypeOK
  <2> SUFFICES ASSUME FlowInv PROVE TypeOK
    OBVIOUS
  <2>1. ASSUME NEW c \in DOMAIN made, NEW i \in DOMAIN made[c]
        PROVE  DOMAIN made[c][i] = Fields(c)
    <3>1. made[c][i] \in Objects(c)  BY <2>1 DEF FlowInv, MadeInv
    <3> QED BY <3>1 DEF Objects
  <2>2. failures \subseteq {"I-01", "I-02", "TraceBundle", "RoutingDecision"} \cup Listed
    BY DEF FlowInv, FailuresInv, schema_failures, check_invariants
  <2> QED BY <2>1, <2>2 DEF TypeOK, FlowInv, FailuresInv
<1> QED BY <1>1, FlowInvariant, PTL

\* A bundle that has been signed, and what is in it.
LEMMA OnTheWire ==
  ASSUME FlowInv, signer # NotYet
  PROVE  /\ DOMAIN wire =
              OwnFields \cup {"routing_decision", "signature"} \cup {ListOf[c] : c \in Listed}
         /\ wire.created_at = bundle.created_at
         /\ bundle.created_at \in Stamps \cup {None}
         /\ wire.routing_decision = Wire("RoutingDecision", made.RoutingDecision[1])
         /\ Typed("RoutingDecision", made.RoutingDecision[1])
         /\ wire.signature = Wire("CapabilityTokenSignature", Signature(bundle))
         /\ \A c \in Listed :
              /\ wire[ListOf[c]] \in {WireList(c, made[c]), <<>>}
              /\ made[c] \in Seq(Objects(c))
              /\ \A i \in DOMAIN made[c] : Typed(c, made[c][i])
         /\ signer = [key |-> Key, content |-> Content(wire)]
<1>1. /\ Complete /\ Holds(bundle) /\ wire = Published(bundle)
      /\ signer = [key |-> Key, content |-> Unsigned(bundle)] /\ MadeInv
  BY DEF FlowInv, GatheredInv, SignedInv
<1>2. \A c \in {"RoutingDecision"} \cup Listed :
        /\ c \in DOMAIN Classes /\ made[c] \in Seq(Objects(c)) /\ made[c] # <<>>
        /\ \A i \in DOMAIN made[c] : Typed(c, made[c][i])
  <2>1. {"RoutingDecision"} \cup Listed \subseteq DOMAIN made
    BY <1>1 DEF Complete, Order, Listed
  <2>2. {"RoutingDecision"} \cup Listed \subseteq DOMAIN Classes
    BY DEF Classes, Listed
  <2>3. ASSUME NEW c \in {"RoutingDecision"} \cup Listed, NEW i \in DOMAIN made[c]
        PROVE  Typed(c, made[c][i])
    <3>1. made[c][i] \in Objects(c)  BY <1>1, <2>1, <2>3 DEF MadeInv
    <3> QED BY <3>1 DEF Objects
  <2> QED BY <1>1, <2>1, <2>2, <2>3 DEF MadeInv
<1>3. made["RoutingDecision"] \in Seq(Objects("RoutingDecision")) /\ made["RoutingDecision"] # <<>>
  BY <1>2
<1>4. Typed("RoutingDecision", made.RoutingDecision[1])  BY <1>2, <1>3
<1>5. bundle.created_at \in Stamps \cup {None}
  <2>1. Classes["TraceBundle"].created_at = OptStamp  BY DEF Classes, TraceBundle
  <2> QED BY <1>1, <2>1 DEF Holds, OwnFields, OptStamp, Free, Field
<1>6. /\ DOMAIN wire = DOMAIN bundle \cup {"signature"}
      /\ \A f \in OwnFields : wire[f] = bundle[f]
      /\ wire.routing_decision = Wire("RoutingDecision", bundle.routing_decision)
      /\ \A c \in Listed : wire[ListOf[c]] = WireList(c, bundle[ListOf[c]])
      /\ wire.signature = Wire("CapabilityTokenSignature", Signature(bundle))
      /\ Content(wire) = Unsigned(bundle)
  BY <1>1, PublishedIs DEF Holds
<1>7. "created_at" \in OwnFields  BY DEF OwnFields
<1>8. ASSUME NEW c \in Listed
      PROVE  wire[ListOf[c]] \in {WireList(c, made[c]), <<>>}
  <2>1. WireList(c, <<>>) = <<>>  BY DEF WireList
  <2> QED BY <1>1, <1>6, <2>1 DEF Holds
<1> QED BY <1>1, <1>2, <1>4, <1>5, <1>6, <1>7, <1>8 DEF Holds

\* What a field of these classes holds, if it has a value of its type: no text
\* where a time should be, and nothing that could not be constructed.
Timely(fd) ==
  /\ "time" \in fd.values => fd.values \cap Strings = {}
  /\ \A v \in fd.values : ~Unconstructible(fd, v)

LEMMA TimelyKinds ==
  /\ \A fd \in {Named, OptText, Time, OptTime, Dict, OptCount, SomeParts} : Timely(fd)
  /\ Timely(Free(Dicts \cup {None}, None)) /\ Timely(Free({"[]", "[text]", "[empty]"}, "[]"))
  /\ \A S, d : S \cap (Broad \cup {"time", "timez"}) = {} =>
       Timely(OneOf(S, d)) /\ Timely(OptOneOf(S))
<1>1. "time" \notin Strings  BY Words DEF Forms, Strings
<1>2. Timely(Named) /\ Timely(OptText)  BY <1>1, Words DEF Forms, Timely, Unconstructible,
      Named, OptText, Strings, Free, Field
<1>3. Timely(Time) /\ Timely(OptTime)
  BY <1>1, Words DEF Forms, Timely, Unconstructible, Time, OptTime, Free, Field, Strings
<1>4. Timely(Dict) /\ Timely(Free(Dicts \cup {None}, None))
  BY Words DEF Forms, Timely, Unconstructible, Dict, Dicts, Free, Field
<1>5. Timely(OptCount) /\ Timely(SomeParts)
  BY Words DEF Forms, Timely, Unconstructible, OptCount, SomeParts, Field
<1>6. Timely(Free({"[]", "[text]", "[empty]"}, "[]"))  BY DEF Timely, Unconstructible, Free, Field
<1>7. \A S, d : S \cap (Broad \cup {"time", "timez"}) = {} =>
        Timely(OneOf(S, d)) /\ Timely(OptOneOf(S))
  BY Words DEF Forms, Timely, Unconstructible, Broad, OneOf, OptOneOf, Field
<1> QED BY <1>2, <1>3, <1>4, <1>5, <1>6, <1>7

\* In what goes into a bundle, no text stands where a time should, and nothing
\* that could not be constructed.
LEMMA CoreTimely ==
  ASSUME NEW c \in {"RoutingDecision"} \cup Listed, NEW o, Typed(c, o)
  PROVE  /\ ~Untimely(c, Wire(c, o))
         /\ \A f \in Fields(c) \cap DOMAIN Wire(c, o) :
              ~Unconstructible(Classes[c][f], Wire(c, o)[f])
<1>1. c \in DOMAIN Classes  BY DEF Classes, Listed
<1>2. \A f \in Fields(c) : Timely(Classes[c][f])
  <2>1. CASE c = "RoutingDecision"
    BY <2>1, TimelyKinds DEF Fields, Classes, RoutingDecision
  <2>2. CASE c = "PolicyDecision"
    BY <2>2, TimelyKinds DEF Fields, Classes, PolicyDecision, Broad
  <2>3. CASE c = "Frame"
    BY <2>3, TimelyKinds DEF Fields, Classes, Frame
  <2>4. CASE c = "Handle"
    BY <2>4, TimelyKinds DEF Fields, Classes, Handle
  <2>5. CASE c = "TraceEvent"
    BY <2>5, TimelyKinds
    DEF Fields, Classes, TraceEvent, TRACE_EVENT_TYPES, TRACE_EVENT_OUTCOMES, Broad
  <2> QED BY <2>1, <2>2, <2>3, <2>4, <2>5 DEF Listed
<1>3. DOMAIN Wire(c, o) \subseteq Fields(c)  BY <1>1, WireForm
<1>4. \A f \in DOMAIN Wire(c, o) : Wire(c, o)[f] = o[f]  BY <1>1, WireForm
<1> QED BY <1>2, <1>3, <1>4 DEF Typed, Untimely, Timely

LEMMA SignatureTyped ==
  ASSUME NEW b, b.created_at \in Stamps \cup {None}
  PROVE  /\ Typed("CapabilityTokenSignature", Signature(b))
         /\ b.created_at \in {"time", "timez", None} =>
              ~Untimely("CapabilityTokenSignature",
                        Wire("CapabilityTokenSignature", Signature(b)))
<1> DEFINE c == "CapabilityTokenSignature"
           o == Signature(b)
<1>1. /\ c \in DOMAIN Classes /\ Classes[c] = CapabilityTokenSignature
      /\ Fields(c) = {"alg", "kid", "sig", "canonicalization", "signed_at"}
  BY DEF Classes, Fields, CapabilityTokenSignature
<1>2. \A f \in Fields(c) \ {"signed_at"} :
        o[f] \in Classes[c][f].values /\ "time" \notin Classes[c][f].values
  <2>1. "time" \notin Strings /\ SomeText \in Strings  BY Words, ASomeText DEF Forms, Strings
  <2>2. o.alg \in Classes[c].alg.values /\ "time" \notin Classes[c].alg.values
    BY <1>1 DEF Signature, CapabilityTokenSignature, OneOf, Field
  <2>3. o.kid \in Classes[c].kid.values /\ "time" \notin Classes[c].kid.values
    BY <1>1, <2>1 DEF Signature, CapabilityTokenSignature, Named, Field
  <2>4. o.sig \in Classes[c].sig.values /\ "time" \notin Classes[c].sig.values
    BY <1>1, <2>1 DEF Signature, CapabilityTokenSignature, Field
  <2>5. /\ o.canonicalization \in Classes[c].canonicalization.values
        /\ "time" \notin Classes[c].canonicalization.values
    BY <1>1 DEF Signature, CapabilityTokenSignature, OneOf, Field
  <2> QED BY <1>1, <2>2, <2>3, <2>4, <2>5
<1>3. Classes[c].signed_at.values = Stamps \cup {None} /\ o.signed_at = b.created_at
  BY <1>1 DEF CapabilityTokenSignature, OptStamp, Free, Field, Signature
<1>4. Typed(c, o)
  <2>1. DOMAIN o = Fields(c)  BY <1>1 DEF Signature
  <2> QED BY <1>2, <1>3, <2>1 DEF Typed
<1>5. ASSUME b.created_at \in {"time", "timez", None}
      PROVE  ~Untimely(c, Wire(c, o))
  <2> HIDE DEF c, o
  <2>1. DOMAIN Wire(c, o) \subseteq Fields(c)
    <3>1. c \in DOMAIN Classes  BY <1>1
    <3> QED BY <3>1, <1>4, WireForm
  <2>2. \A f \in DOMAIN Wire(c, o) : Wire(c, o)[f] = o[f]  BY <1>1, <1>4, WireForm
  <2>3. {"time", "timez", None} \cap Strings = {}  BY Words DEF Forms, Strings
  <2> QED BY <1>2, <1>3, <1>5, <2>1, <2>2, <2>3 DEF Untimely
<1> QED BY <1>4, <1>5

\* A bundle that satisfies its schema where date-times are not checked does so
\* where they are, if its created_at is a date-time or null.
LEMMA AcceptedEverywhere ==
  ASSUME FlowInv, signer # NotYet, BundleAccepted(FALSE, wire),
         wire.created_at \in {"time", "timez", None}
  PROVE  BundleAccepted(TRUE, wire)
<1>1. OwnAccepted(FALSE, wire) /\ PartsAccepted(FALSE, wire)
  BY OnTheWire, BundleAcceptedIs
<1>2. OwnAccepted(TRUE, wire)
  BY <1>1 DEF OwnAccepted, Nullable, DateTime
<1>3. SchemaAccepts(TRUE, "RoutingDecision", wire.routing_decision)
  <2> DEFINE o == made.RoutingDecision[1]
  <2>1. /\ Typed("RoutingDecision", o) /\ wire.routing_decision = Wire("RoutingDecision", o)
        /\ SchemaAccepts(FALSE, "RoutingDecision", wire.routing_decision)
    BY <1>1, OnTheWire DEF PartsAccepted
  <2>2. ~Untimely("RoutingDecision", Wire("RoutingDecision", o))  BY <2>1, CoreTimely
  <2>3. "RoutingDecision" \in DOMAIN Classes  BY DEF Classes
  <2> QED BY <2>1, <2>2, <2>3, AcceptedAnywhere
<1>4. SchemaAccepts(TRUE, "CapabilityTokenSignature", wire.signature)
  <2> DEFINE o == Signature(bundle)
             w == Wire("CapabilityTokenSignature", o)
  <2>1. /\ wire.signature = w /\ bundle.created_at \in {"time", "timez", None}
        /\ SchemaAccepts(FALSE, "CapabilityTokenSignature", w)
    BY <1>1, OnTheWire DEF PartsAccepted
  <2>2. Typed("CapabilityTokenSignature", o) /\ ~Untimely("CapabilityTokenSignature", w)
    BY <2>1, OnTheWire, SignatureTyped
  <2> HIDE DEF o
  <2> QED BY <2>1, <2>2, FlowClasses, AcceptedAnywhere
<1>5. ASSUME NEW c \in Listed, NEW i \in DOMAIN wire[ListOf[c]]
      PROVE  SchemaAccepts(TRUE, c, wire[ListOf[c]][i])
  <2> DEFINE o == made[c][i]
  <2>1. SchemaAccepts(FALSE, c, wire[ListOf[c]][i])  BY <1>1, <1>5 DEF PartsAccepted
  <2>2. i \in DOMAIN made[c] /\ wire[ListOf[c]][i] = Wire(c, o)
    <3>1. wire[ListOf[c]] = WireList(c, made[c])  BY <1>5, OnTheWire
    <3> QED BY <1>5, <3>1 DEF WireList
  <2>3. Typed(c, o)  BY <1>5, <2>2, OnTheWire
  <2>4. ~Untimely(c, Wire(c, o))  BY <2>3, CoreTimely
  <2>5. c \in DOMAIN Classes  BY FlowClasses
  <2> QED BY <2>1, <2>2, <2>3, <2>4, <2>5, AcceptedAnywhere
<1>6. PartsAccepted(TRUE, wire)  BY <1>3, <1>4, <1>5 DEF PartsAccepted
<1> QED BY <1>2, <1>6, OnTheWire, BundleAcceptedIs

\* Exit code zero means that the bundle is conformant, however it was made.
THEOREM PassedConforms == Spec => []PassedIsConformant
<1>1. FlowInv => PassedIsConformant
  <2> SUFFICES ASSUME FlowInv, pc = "passed"
               PROVE  /\ Conformant(FALSE, wire)
                      /\ wire.created_at \in {"time", "timez", None} => Conformant(TRUE, wire)
    BY DEF PassedIsConformant
  <2>1. /\ signer # NotYet
        /\ schema_failures(wire) = {} /\ check_invariants(wire) = {}
    BY DEF FlowInv, SignedInv, FailuresInv
  <2>2. BundleAccepted(FALSE, wire)  BY <2>1 DEF schema_failures, Formats
  <2>3. signer = [key |-> Key, content |-> Content(wire)]  BY <2>1, OnTheWire
  <2>4. \A i \in DOMAIN wire.frames : DOMAIN wire.frames[i] \cap FORBIDDEN_FRAME_KEYS = {}
    BY <2>1 DEF check_invariants
  <2>5. Decided(wire) \subseteq Traced(wire)  BY <2>1 DEF check_invariants
  <2>6. \A i \in DOMAIN wire.policy_decisions : \E j \in DOMAIN wire.trace_events :
          LET e == wire.trace_events[j]
          IN  "decision_id" \in DOMAIN e /\ e.decision_id = wire.policy_decisions[i].decision_id
    BY <2>5 DEF Decided, Traced
  <2>7. wire.created_at \in {"time", "timez", None} => BundleAccepted(TRUE, wire)
    BY <2>1, <2>2, AcceptedEverywhere
  <2> QED BY <2>2, <2>3, <2>4, <2>6, <2>7 DEF Conformant
<1> QED BY <1>1, FlowInvariant, PTL

\* A conformant bundle fails only for an empty list.
THEOREM ConformantIsPassed == Spec => []ConformantPasses
<1>1. FlowInv => ConformantPasses
  <2> SUFFICES ASSUME FlowInv
               PROVE  /\ pc = "failed" => ~Conformant(FALSE, wire)
                      /\ pc = "raised" /\ signer # NotYet => \E c \in Listed : wire[ListOf[c]] = <<>>
    BY DEF ConformantPasses
  <2>1. ASSUME pc = "failed", Conformant(FALSE, wire)
        PROVE  FALSE
    <3>1. /\ signer # NotYet /\ ~SomeEmpty(wire)
          /\ schema_failures(wire) \cup check_invariants(wire) # {}
      BY <2>1 DEF FlowInv, SignedInv, FailuresInv
    <3>2. PartsAccepted(FALSE, wire) /\ BundleAccepted(FALSE, wire)
      BY <2>1, <3>1, OnTheWire, BundleAcceptedIs DEF Conformant
    <3>3. \A c \in Listed : SchemaAccepts(FALSE, c, wire[ListOf[c]][1])
      <4> TAKE c \in Listed
      <4>1. wire[ListOf[c]] = WireList(c, made[c]) /\ made[c] \in Seq(Objects(c))
        BY <3>1, OnTheWire DEF SomeEmpty
      <4>2. 1 \in DOMAIN wire[ListOf[c]]
        <5>1. made[c] # <<>>  BY <3>1, <4>1 DEF SomeEmpty, WireList
        <5> QED BY <4>1, <5>1 DEF WireList
      <4> QED BY <3>2, <4>2 DEF PartsAccepted
    <3>4. schema_failures(wire) = {}
      BY <3>2, <3>3 DEF schema_failures, PartsAccepted, Formats
    <3>5. Decided(wire) \subseteq Traced(wire)
      BY <2>1 DEF Conformant, Decided, Traced
    <3>6. check_invariants(wire) = {}
      BY <2>1, <3>5 DEF Conformant, check_invariants
    <3> QED BY <3>1, <3>4, <3>6
  <2>2. ASSUME pc = "raised", signer # NotYet
        PROVE  \E c \in Listed : wire[ListOf[c]] = <<>>
    BY <2>2 DEF FlowInv, FailuresInv, SomeEmpty
  <2> QED BY <2>1, <2>2
<1> QED BY <1>1, FlowInvariant, PTL

\* What an object of these classes is validated as, it arrives as.
LEMMA ObjectArrives ==
  ASSUME NEW c \in {"RoutingDecision"} \cup Listed, NEW o, Typed(c, o),
         SchemaAccepts(FALSE, c, Wire(c, o))
  PROVE  Arrives(c, o, Wire(c, o))
<1>1. c \in DOMAIN Classes /\ c # "TraceBundle"  BY DEF Classes, Listed
<1>2. Constructs(c, Wire(c, o))  BY <1>1, CoreTimely, AcceptedConstructs
<1>3. ASSUME NEW f \in Fields(c), ~Lost(c, f)
      PROVE  Received(c, Wire(c, o))[f] = o[f]
  BY <1>1, <1>3, SentArrives
<1>4. ASSUME c = "Frame"
      PROVE  \/ Received(c, Wire(c, o))["structured_data"] = o["structured_data"]
             \/ o["structured_data"] = "{}"
  BY <1>4, StructuredDataArrives
<1> QED BY <1>1, <1>2, <1>3, <1>4 DEF Arrives, Lost

\* Whoever receives a bundle that passed has the whole chain that was built.
THEOREM ChainIsReceived == Spec => []ReceiverHasTheChain
<1>1. FlowInv => ReceiverHasTheChain
  <2> SUFFICES ASSUME FlowInv, pc = "passed"
               PROVE  /\ Arrives("RoutingDecision", made.RoutingDecision[1], wire.routing_decision)
                      /\ \A c \in Listed :
                           /\ Len(wire[ListOf[c]]) = Len(made[c])
                           /\ \A i \in DOMAIN made[c] : Arrives(c, made[c][i], wire[ListOf[c]][i])
    BY DEF ReceiverHasTheChain
  <2>1. signer # NotYet /\ ~SomeEmpty(wire) /\ schema_failures(wire) = {}
    BY DEF FlowInv, SignedInv, FailuresInv
  <2>2. PartsAccepted(FALSE, wire)
    <3>1. BundleAccepted(FALSE, wire)  BY <2>1 DEF schema_failures, Formats
    <3> QED BY <2>1, <3>1, OnTheWire, BundleAcceptedIs
  <2>3. Arrives("RoutingDecision", made.RoutingDecision[1], wire.routing_decision)
    <3> DEFINE o == made.RoutingDecision[1]
    <3>1. wire.routing_decision = Wire("RoutingDecision", o) /\ Typed("RoutingDecision", o)
      BY <2>1, OnTheWire
    <3>2. SchemaAccepts(FALSE, "RoutingDecision", Wire("RoutingDecision", o))
      BY <2>2, <3>1 DEF PartsAccepted
    <3>3. Arrives("RoutingDecision", o, Wire("RoutingDecision", o))
      BY <3>1, <3>2, ObjectArrives
    <3> QED BY <3>1, <3>3
  <2>4. ASSUME NEW c \in Listed
        PROVE  /\ wire[ListOf[c]] = WireList(c, made[c]) /\ made[c] \in Seq(Objects(c))
               /\ \A i \in DOMAIN made[c] : Typed(c, made[c][i])
    BY <2>1, <2>4, OnTheWire DEF SomeEmpty
  <2>5. ASSUME NEW c \in Listed
        PROVE  Len(wire[ListOf[c]]) = Len(made[c])
    <3>1. DOMAIN WireList(c, made[c]) = 1..Len(made[c])  BY <2>4 DEF WireList
    <3>2. WireList(c, made[c]) = [i \in 1..Len(made[c]) |-> Wire(c, made[c][i])]
      BY <2>4, <3>1 DEF WireList
    <3>3. Len(made[c]) \in Nat  BY <2>4
    <3> QED BY <2>4, <3>2, <3>3
  <2>6. ASSUME NEW c \in Listed, NEW i \in DOMAIN made[c]
        PROVE  Arrives(c, made[c][i], wire[ListOf[c]][i])
    <3>1. wire[ListOf[c]][i] = Wire(c, made[c][i]) /\ i \in DOMAIN wire[ListOf[c]]
      BY <2>4, <2>6 DEF WireList
    <3>2. SchemaAccepts(FALSE, c, Wire(c, made[c][i]))
      BY <2>2, <2>6, <3>1 DEF PartsAccepted
    <3>3. Typed(c, made[c][i])  BY <2>4, <2>6
    <3> QED BY <2>6, <3>1, <3>2, <3>3, ObjectArrives
  <2> QED BY <2>3, <2>5, <2>6
<1> QED BY <1>1, FlowInvariant, PTL
=============================================================================
