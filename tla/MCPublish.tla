------------------------------ MODULE MCPublish ------------------------------
(***************************************************************************)
(* Publish on three commits and three tags.  v1 and s1 name version 1 of   *)
(* the contracts and of the stack; other is of another release family.     *)
(* Commits c1 and c2 are both fit to be v1; c2 declares another version of *)
(* the stack; c3 is fit for nothing, and its stack pins are invalid.       *)
(***************************************************************************)
EXTENDS Publish, TLC

CONSTANTS r1, r2, c1, c2, c3, v1, s1, other

MCPrefix == [t \in Tags |-> CASE t = s1 -> "stack"
                              [] t = other -> "none"
                              [] OTHER -> "contracts"]
MCNames == [t \in Tags |-> CASE t = v1 -> [pkg |-> "contracts", version |-> 1]
                             [] t = s1 -> [pkg |-> "stack", version |-> 1]
                             [] OTHER -> Unbound]
MCPkgVersion == [c \in Commits |-> [contracts |-> 1,
                                    stack |-> IF c = c2 THEN 2 ELSE 1]]
RunSymmetry == Permutations(Runs)
=============================================================================
