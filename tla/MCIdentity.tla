---------------------------- MODULE MCIdentity ----------------------------
(***************************************************************************)
(* Instances of Identity for TLC.                                          *)
(***************************************************************************)
EXTENDS Identity, TLC

Symmetry == Permutations(Users) \cup Permutations(Invitations) \cup Permutations(Requests)

\* Bound: one user is invited, as the rows of two users never stand in each other's way.
OneInvitee ==
    Cardinality({invitations[i].user : i \in {j \in Invitations : invitations[j].state # "none"}}
                \cup {request[r].target : r \in {q \in Requests : request[q].op = "invite"}}) <= 1
=============================================================================
