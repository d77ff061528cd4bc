--------------------------- MODULE MCReferenceFlow ---------------------------
(***************************************************************************)
(* A behaviour is one of the reference flow, with two edits, or of one     *)
(* object of any type on its way to somebody else, with one assignment.    *)
(* There are two texts.                                                    *)
(***************************************************************************)
EXTENDS ReferenceFlow, Handover

MCInit == Init /\ HandoverInit
MCNext ==
  \/ message = Nothing /\ Next /\ UNCHANGED message
  \/ made = NotYet /\ pc = "build" /\ edits = 0 /\ HandoverNext /\ UNCHANGED vars
MCSpec == MCInit /\ [][MCNext]_<<vars, message>>
=============================================================================
