----------------------------- MODULE MCEffectLock -----------------------------
(* Three callers of two Plugins' locks; three entries, as each caller can   *)
(* hold on to one; two connections, so that two holders have them all, and  *)
(* one caller without a deadline.  No symmetry: the refinement mapping      *)
(* names a caller.                                                          *)
EXTENDS DatabaseEffectLocker

CONSTANT c1
=============================================================================
