---------------------------- MODULE MCProvisioning ----------------------------
(* Two creations of one slug, in one process or in two.                     *)
EXTENDS Provisioning

CONSTANT s1

OneSlug == [c \in Creators |-> s1]
=============================================================================
