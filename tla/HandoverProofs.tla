--------------------------- MODULE HandoverProofs ---------------------------
(***************************************************************************)
(* What becomes of a contract object between two Python programs, for      *)
(* every class, text, assignment and foreign payload.                      *)
(***************************************************************************)
EXTENDS Handover, ExchangeProofs

-----------------------------------------------------------------------------
(* The inductive invariant.                                                *)

\* An object has the fields of its class, each with a value of its type, though
\* perhaps not one that the constructor would let pass; its wire form is its own;
\* and how it arrived is what validation and construction make of the wire form.
Stages == {"none", "held", "assigned", "sent", "refused", "received", "raised"}
HandoverInv ==
  /\ message.stage \in Stages
  /\ message.stage # "none" => message.class \in DOMAIN Classes
  /\ message.stage \in {"held", "assigned"} =>
       /\ DOMAIN message = {"stage", "class", "object"}
       /\ Typed(message.class, message.object)
  /\ (message.stage = "sent" \/ Arrived) /\ message.object # Absent =>
       /\ Typed(message.class, message.object)
       /\ message.wire = Wire(message.class, message.object)
  /\ Arrived =>
       /\ message.formats \in BOOLEAN
       /\ message.stage = Outcome(message.formats, message.class, message.wire)

LEMMA HandoverInitInv == HandoverInit => HandoverInv
BY DEF HandoverInit, HandoverInv, Nothing, Stages, Arrived

LEMMA HandoverNextInv == HandoverInv /\ [HandoverNext]_message => HandoverInv'
<1> SUFFICES ASSUME HandoverInv, [HandoverNext]_message PROVE HandoverInv'
  OBVIOUS
<1>1. ASSUME NEW c \in DOMAIN Classes, Make(c)
      PROVE  HandoverInv'
  <2>1. PICK o \in Changed(c, Sample(c)) : message' = [stage |-> "held", class |-> c, object |-> o]
    BY <1>1 DEF Make
  <2>2. Typed(c, o)  BY SampleTyped, ChangedTyped
  <2> QED BY <2>1, <2>2 DEF HandoverInv, Stages, Arrived
<1>2. ASSUME NEW c \in DOMAIN Classes, Foreign(c)
      PROVE  HandoverInv'
  BY <1>2 DEF Foreign, HandoverInv, Stages, Arrived
<1>3. CASE AssignTo
  <2>1. PICK o \in Changed(message.class, message.object) :
               message' = [message EXCEPT !.stage = "assigned", !.object = o]
    BY <1>3 DEF AssignTo
  <2>2. message.class \in DOMAIN Classes /\ Typed(message.class, message.object)
    BY <1>3 DEF AssignTo, HandoverInv
  <2>3. Typed(message.class, o)  BY <2>2, ChangedTyped
  <2>4. message' = [stage |-> "assigned", class |-> message.class, object |-> o]
    BY <1>3, <2>1 DEF AssignTo, HandoverInv
  <2> QED BY <2>2, <2>3, <2>4 DEF HandoverInv, Stages, Arrived
<1>4. CASE Send
  BY <1>4 DEF Send, HandoverInv, Stages, Arrived
<1>5. ASSUME NEW formats \in BOOLEAN, Receive(formats)
      PROVE  HandoverInv'
  <2>1. Outcome(formats, message.class, message.wire) \in {"refused", "received", "raised"}
    BY DEF Outcome
  <2> QED BY <1>5, <2>1 DEF Receive, HandoverInv, Stages, Arrived
<1>6. CASE UNCHANGED message
  BY <1>6 DEF HandoverInv, Stages, Arrived
<1> QED BY <1>1, <1>2, <1>3, <1>4, <1>5, <1>6 DEF HandoverNext

LEMMA HandoverInvariant == HandoverSpec => []HandoverInv
BY HandoverInitInv, HandoverNextInv, PTL DEF HandoverSpec

-----------------------------------------------------------------------------
(* The properties.                                                         *)

\* Who validates before constructing has to expect an error exactly for what
\* Unconstructible lists, whoever sent it.
THEOREM AcceptedIsConstructed == HandoverSpec => []ReceiverConstructs
<1>1. HandoverInv => ReceiverConstructs
  <2> SUFFICES ASSUME HandoverInv, Arrived, message.stage # "refused"
               PROVE  message.stage = "raised" <=>
                        \E f \in Fields(message.class) \cap DOMAIN message.wire :
                          Unconstructible(Classes[message.class][f], message.wire[f])
    BY DEF ReceiverConstructs
  <2> DEFINE c == message.class
             w == message.wire
  <2>1. c \in DOMAIN Classes /\ message.formats \in BOOLEAN
    BY DEF HandoverInv, Arrived
  <2>2. /\ SchemaAccepts(message.formats, c, w)
        /\ message.stage = "raised" <=> ~Constructs(c, w)
    BY DEF HandoverInv, Arrived, Outcome
  <2> QED BY <2>1, <2>2, AcceptedConstructs
<1> QED BY <1>1, HandoverInvariant, PTL

\* An object that is as its constructor wants it is refused exactly if it has
\* what only the schema looks at.
THEOREM ConstructedIsPublished == HandoverSpec => []ConstructedIsPublishable
<1>1. HandoverInv => ConstructedIsPublishable
  <2> SUFFICES ASSUME HandoverInv, Ours, __post_init__(message.class, message.object)
               PROVE  message.stage = "refused"
                        <=> Unschematic(message.formats, message.class, message.object)
    BY DEF ConstructedIsPublishable
  <2> DEFINE c == message.class
             o == message.object
  <2>1. /\ c \in DOMAIN Classes /\ message.formats \in BOOLEAN
        /\ Typed(c, o) /\ message.wire = Wire(c, o)
    BY DEF HandoverInv, Ours, Arrived
  <2>2. message.stage = "refused" <=> ~SchemaAccepts(message.formats, c, message.wire)
    BY DEF HandoverInv, Ours, Arrived, Outcome
  <2>3. SchemaAccepts(message.formats, c, Wire(c, o))
          <=> \A f \in Fields(c) : ~Odd(message.formats, Classes[c][f], o[f])
    BY <2>1, ConstructedAccepted
  <2> QED BY <2>1, <2>2, <2>3 DEF Unschematic, Odd, Marks
<1> QED BY <1>1, HandoverInvariant, PTL

\* What is received is what was sent, whatever was assigned to it on the way.
THEOREM SentIsReceived == HandoverSpec => []ArrivesAsSent
<1>1. HandoverInv => ArrivesAsSent
  <2> SUFFICES ASSUME HandoverInv, Ours, message.stage = "received",
                      NEW f \in Fields(message.class)
               PROVE  \/ Received(message.class, message.wire)[f] = message.object[f]
                      \/ /\ message.class = "Frame" /\ f = "structured_data"
                         /\ message.object[f] = "{}"
                      \/ message.class = "TraceBundle" /\ f = "metadata"
    BY DEF ArrivesAsSent
  <2> DEFINE c == message.class
             o == message.object
  <2>1. /\ c \in DOMAIN Classes /\ message.formats \in BOOLEAN
        /\ Typed(c, o) /\ message.wire = Wire(c, o)
    BY DEF HandoverInv, Ours, Arrived
  <2>2. SchemaAccepts(message.formats, c, Wire(c, o))
    BY <2>1 DEF HandoverInv, Ours, Arrived, Outcome
  <2>3. CASE ~Lost(c, f)
    <3>1. Received(c, Wire(c, o))[f] = o[f]  BY <2>1, <2>2, <2>3, SentArrives
    <3> QED BY <2>1, <3>1
  <2>4. CASE c = "Frame" /\ f = "structured_data"
    <3>1. Typed("Frame", o)  BY <2>1, <2>4
    <3>2. Received("Frame", Wire("Frame", o))["structured_data"] = o["structured_data"]
            \/ o["structured_data"] = "{}"
      BY <3>1, StructuredDataArrives
    <3> QED BY <2>1, <2>4, <3>2
  <2> QED BY <2>3, <2>4 DEF Lost
<1> QED BY <1>1, HandoverInvariant, PTL
=============================================================================
