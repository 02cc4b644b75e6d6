---------------------------- MODULE MCGroupCommit ----------------------------
(* TLC instance of GroupCommit: two normal members, one of them a second      *)
(* submit of the priority member's command. All carry the same digest.         *)
EXTENDS GroupCommit

CONSTANTS n1, n2, p1
MCMember == {n1, n2, p1}
MCPriority == {p1}
MCCommand == [m \in MCMember |-> IF m = n1 THEN 1 ELSE 2]
MCDigest == [m \in MCMember |-> 1]
=============================================================================
