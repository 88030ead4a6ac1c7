------------------------------ MODULE PluginLock ------------------------------
(***************************************************************************)
(* What EffectLocker promises its callers: at most one of them holds the   *)
(* effect lock of a Plugin.  Nothing is said of who gets it next.          *)
(***************************************************************************)
CONSTANTS
    Callers,  \* calls of LockPlugin
    Plugins,  \* Plugin ids, the keys of the lock
    Nobody    \* the lock is free

VARIABLE holder  \* Plugin -> the caller that holds its lock

Init == holder = [k \in Plugins |-> Nobody]

Take(c, k) == holder[k] = Nobody /\ holder' = [holder EXCEPT ![k] = c]
GiveBack(c, k) == holder[k] = c /\ holder' = [holder EXCEPT ![k] = Nobody]

Next == \E c \in Callers, k \in Plugins : Take(c, k) \/ GiveBack(c, k)

Spec == Init /\ [][Next]_holder
=============================================================================
