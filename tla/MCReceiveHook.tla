---------------------------- MODULE MCReceiveHook ----------------------------
(* Two pushes of one repository, the first with a branch and a tag.        *)
EXTENDS ReceiveHook, TLC

CONSTANTS p1, p2

BranchAndTag == (p1 :> {"heads", "tags"}) @@ (p2 :> {"tags"})
=============================================================================
