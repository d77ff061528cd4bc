--------------------------- MODULE ScoreboardReport ---------------------------
(***************************************************************************)
(* What the scoreboard promises of the report it publishes: every sibling  *)
(* is shown with the verdict on something it served while the report was   *)
(* made, whatever the other siblings serve and whatever becomes of earlier *)
(* jobs.  Scoreboard implements it.                                        *)
(***************************************************************************)
CONSTANTS
  Siblings,
  Responses,     \* Responses[s]: what sibling s may serve
  Verdict(_, _), \* Verdict(s, x): what a report says when s gives response x
  NoReport

VARIABLES
  served,   \* served[s]: what sibling s serves now
  seen,     \* seen[s]: what s has served since the last Begin
  report    \* report[s]: the published verdict on s, or NoReport

vars == <<served, seen, report>>

Init ==
  /\ DOMAIN served = Siblings
  /\ \A s \in Siblings : served[s] \in Responses[s]
  /\ seen = [s \in Siblings |-> {served[s]}]
  /\ report = [s \in Siblings |-> NoReport]

Serve(s, x) ==
  /\ served' = [served EXCEPT ![s] = x]
  /\ seen' = [seen EXCEPT ![s] = @ \cup {x}]
  /\ UNCHANGED report

Begin ==
  /\ seen' = [s \in Siblings |-> {served[s]}]
  /\ UNCHANGED <<served, report>>

Publish ==
  /\ DOMAIN report' = Siblings
  /\ \A s \in Siblings : \E x \in seen[s] : report'[s] = Verdict(s, x)
  /\ UNCHANGED <<served, seen>>

Next == Begin \/ Publish \/ \E s \in Siblings : \E x \in Responses[s] : Serve(s, x)

Spec == Init /\ [][Next]_vars
=============================================================================
