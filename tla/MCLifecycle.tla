----------------------------- MODULE MCLifecycle -----------------------------
(* Two servers of one database, each with one request.                      *)
EXTENDS Lifecycle

CONSTANTS s1, s2, r1
=============================================================================
