------------------------------- MODULE Handover -------------------------------
(***************************************************************************)
(* One contract object on its way from one Python program to another: it   *)
(* is constructed, perhaps assigned to (no dataclass is frozen, and        *)
(* __post_init__ does not run again), serialised, validated against its    *)
(* schema and constructed again.  Or the other program is none of ours and *)
(* sends anything near.                                                    *)
(***************************************************************************)
EXTENDS Exchange

VARIABLE message   \* the object in its class, or its wire form, and how far it has come

Nothing == [stage |-> "none"]
HandoverInit == message = Nothing

\* One argument differs from the sample.
Make(c) ==
  /\ message.stage = "none"
  /\ \E o \in Changed(c, Sample(c)) :
       __post_init__(c, o) /\ message' = [stage |-> "held", class |-> c, object |-> o]

AssignTo ==
  /\ message.stage = "held"
  /\ \E o \in Changed(message.class, message.object) :
       message' = [message EXCEPT !.stage = "assigned", !.object = o]

Send ==
  /\ message.stage \in {"held", "assigned"}
  /\ message' = [stage |-> "sent", class |-> message.class, object |-> message.object,
                 wire |-> Wire(message.class, message.object)]

\* No object of ours was sent.
Foreign(c) ==
  /\ message.stage = "none"
  /\ \E w \in Payloads(c) :
       message' = [stage |-> "sent", class |-> c, object |-> Absent, wire |-> w]

\* What validation lets pass is constructed.
Outcome(formats, c, w) ==
  CASE ~SchemaAccepts(formats, c, w) -> "refused"
    [] SchemaAccepts(formats, c, w) /\ Constructs(c, w) -> "received"
    [] OTHER -> "raised"
Receive(formats) ==
  /\ message.stage = "sent"
  /\ message' = [stage |-> Outcome(formats, message.class, message.wire), formats |-> formats,
                 class |-> message.class, object |-> message.object, wire |-> message.wire]

HandoverNext ==
  \/ (\E c \in DOMAIN Classes : Make(c) \/ Foreign(c))
  \/ AssignTo \/ Send \/ (\E formats \in BOOLEAN : Receive(formats))

HandoverSpec == HandoverInit /\ [][HandoverNext]_message

Arrived == message.stage \in {"refused", "received", "raised"}
Ours == Arrived /\ message.object # Absent

-----------------------------------------------------------------------------
(* Properties.                                                             *)

\* Who has validated a payload, whoever made it, and constructs the object, has
\* to expect an error exactly for what Unconstructible lists, and so does who
\* sends an object that was assigned to after its construction; everything else
\* that satisfies the schema is constructed, each field and the fields together.
ReceiverConstructs ==
  Arrived /\ message.stage # "refused" =>
    (message.stage = "raised" <=>
       \E f \in Fields(message.class) \cap DOMAIN message.wire :
         Unconstructible(Classes[message.class][f], message.wire[f]))

\* What the constructor does not look at and the schema does: more than 20
\* items, empty names in a list, records and nested objects that are not whole,
\* and a text for a date-time where date-times are checked.
Unschematic(formats, c, o) ==
  \E f \in Fields(c) :
    \/ o[f] \in {"[21]", "[empty]", "[broken]", "broken"}
    \/ formats /\ "time" \in Classes[c][f].values /\ o[f] \in Strings

\* An object that is as its constructor wants it satisfies its schema exactly if
\* it has none of these: the two definitions of a type disagree nowhere else.
ConstructedIsPublishable ==
  Ours /\ __post_init__(message.class, message.object) =>
    (message.stage = "refused" <=> Unschematic(message.formats, message.class, message.object))

\* What arrives is what was sent, but for an empty structured_data, which
\* arrives as none, and a bundle's metadata, which stays behind.
ArrivesAsSent ==
  Ours /\ message.stage = "received" =>
    \A f \in Fields(message.class) :
      \/ Received(message.class, message.wire)[f] = message.object[f]
      \/ message.class = "Frame" /\ f = "structured_data" /\ message.object[f] = "{}"
      \/ message.class = "TraceBundle" /\ f = "metadata"
=============================================================================
