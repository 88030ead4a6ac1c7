------------------------------ MODULE EffectLock ------------------------------
(***************************************************************************)
(* The process-local Plugin effect lock (SQLite): a map from Plugin ids to *)
(* entries, each a one-token semaphore with a count of its users.  The map *)
(* and the counts are changed under a mutex, the semaphore is waited for   *)
(* outside it, so an entry may be shared, dropped and made anew while      *)
(* others come and go.                                                     *)
(*                                                                         *)
(* Code: mod/backend/domain/plugin/effect_lock.go, effectKeyedLocks.       *)
(***************************************************************************)
EXTENDS Naturals, FiniteSets

CONSTANTS
    Callers,  \* goroutines that call LockPlugin, again and again
    Plugins,  \* Plugin ids
    Entries,  \* effectKeyedLock values; one that nothing refers to is garbage
    NoEntry,  \* nil
    Nobody    \* nobody holds the lock

ASSUME CallerAssumption == IsFiniteSet(Callers) /\ Nobody \notin Callers
ASSUME EntryAssumption == NoEntry \notin Entries

VARIABLES
    locks,  \* Plugin -> its entry in the map, or NoEntry
    users,  \* entry -> its count of users
    token,  \* entry -> whether its semaphore holds the token
    pc,     \* caller -> where it stands
    key,    \* caller -> the Plugin it asked for last
    entry   \* caller -> the entry it refers to

vars == <<locks, users, token, pc, key, entry>>

\* "leaving" lies between the semaphore and releaseReference.
CallerStates == {"idle", "waiting", "holding", "leaving"}

TypeOK ==
    /\ locks \in [Plugins -> Entries \cup {NoEntry}]
    /\ users \in [Entries -> Nat]
    /\ token \in [Entries -> BOOLEAN]
    /\ pc \in [Callers -> CallerStates]
    /\ key \in [Callers -> Plugins]
    /\ entry \in [Callers -> Entries \cup {NoEntry}]

Init ==
    /\ locks = [k \in Plugins |-> NoEntry]
    /\ users = [e \in Entries |-> 0]
    /\ token = [e \in Entries |-> TRUE]
    /\ pc = [c \in Callers |-> "idle"]
    /\ key \in [Callers -> Plugins]
    /\ entry = [c \in Callers |-> NoEntry]

Garbage == {e \in Entries : (\A c \in Callers : entry[c] # e) /\ (\A k \in Plugins : locks[k] # e)}

\* The entry a caller of k finds or makes.
EntriesFor(k) == IF locks[k] = NoEntry THEN Garbage ELSE {locks[k]}

\* lock up to the release of the mutex: find or make the entry, count the user.
Register(c, k) ==
    /\ pc[c] = "idle"
    /\ \E e \in EntriesFor(k) :
         /\ locks' = [locks EXCEPT ![k] = e]
         /\ users' = [users EXCEPT ![e] = IF locks[k] = NoEntry THEN 1 ELSE @ + 1]
         /\ token' = [token EXCEPT ![e] = locks[k] = NoEntry \/ @]
         /\ entry' = [entry EXCEPT ![c] = e]
    /\ pc' = [pc EXCEPT ![c] = "waiting"]
    /\ key' = [key EXCEPT ![c] = k]

\* lock: the token is received from the semaphore.
Acquire(c) ==
    /\ pc[c] = "waiting"
    /\ token[entry[c]]
    /\ token' = [token EXCEPT ![entry[c]] = FALSE]
    /\ pc' = [pc EXCEPT ![c] = "holding"]
    /\ UNCHANGED <<locks, users, key, entry>>

\* lock: the caller's context is done first.
Cancel(c) ==
    /\ pc[c] = "waiting"
    /\ pc' = [pc EXCEPT ![c] = "leaving"]
    /\ UNCHANGED <<locks, users, token, key, entry>>

\* unlock, called once: the token goes back into the semaphore, which has room.
Unlock(c) ==
    /\ pc[c] = "holding"
    /\ ~token[entry[c]]
    /\ token' = [token EXCEPT ![entry[c]] = TRUE]
    /\ pc' = [pc EXCEPT ![c] = "leaving"]
    /\ UNCHANGED <<locks, users, key, entry>>

\* Fault: the entry is dropped although somebody still refers to it.
LastUserOffByOne(e) == users[e] <= 2
LastUser(e) == users[e] = 1

\* releaseReference: the last user takes the entry out of the map.
ReleaseReference(c) ==
    /\ pc[c] = "leaving"
    /\ users' = [users EXCEPT ![entry[c]] = @ - 1]
    /\ locks' = IF LastUser(entry[c]) THEN [locks EXCEPT ![key[c]] = NoEntry] ELSE locks
    /\ pc' = [pc EXCEPT ![c] = "idle"]
    /\ entry' = [entry EXCEPT ![c] = NoEntry]
    /\ UNCHANGED <<token, key>>

Step(c) == Acquire(c) \/ Cancel(c) \/ Unlock(c) \/ ReleaseReference(c)
Next == \E c \in Callers : (\E k \in Plugins : Register(c, k)) \/ Step(c)

Spec == Init /\ [][Next]_vars

-----------------------------------------------------------------------------
(* Safety.                                                                 *)

\* Two callers never hold the lock of one Plugin at a time, whatever entries
\* were dropped and made anew in between.
MutualExclusion ==
    \A c1, c2 \in Callers :
        pc[c1] = "holding" /\ pc[c2] = "holding" /\ key[c1] = key[c2] => c1 = c2

\* The map holds an entry exactly as long as somebody uses it: none is leaked,
\* none is dropped under a caller.
EntryHasUsers ==
    /\ \A c \in Callers : entry[c] # NoEntry => locks[key[c]] = entry[c]
    /\ \A k \in Plugins : locks[k] # NoEntry =>
          \E c \in Callers : entry[c] = locks[k] /\ key[c] = k

-----------------------------------------------------------------------------
(* The inductive invariant behind them.                                    *)

Users(e) == {c \in Callers : entry[c] = e}

\* A caller refers to an entry while it is inside lock or unlock, and the map
\* has that entry under its key, and under no other.
EntryInv ==
    /\ \A c \in Callers : pc[c] = "idle" <=> entry[c] = NoEntry
    /\ \A c \in Callers : entry[c] # NoEntry => locks[key[c]] = entry[c]
    /\ \A k1, k2 \in Plugins : locks[k1] # NoEntry /\ locks[k1] = locks[k2] => k1 = k2

\* The count of a mapped entry is the number of callers that refer to it.
CountInv ==
    \A k \in Plugins : locks[k] # NoEntry =>
        /\ users[locks[k]] = Cardinality(Users(locks[k]))
        /\ users[locks[k]] > 0

\* The token is with the semaphore or with one holder.
TokenInv ==
    /\ \A c \in Callers : pc[c] = "holding" => ~token[entry[c]]
    /\ \A c1, c2 \in Callers :
         pc[c1] = "holding" /\ pc[c2] = "holding" /\ entry[c1] = entry[c2] => c1 = c2

Inv == TypeOK /\ EntryInv /\ CountInv /\ TokenInv

-----------------------------------------------------------------------------
(* The map of semaphores implements the lock its callers rely on.          *)

Holders(k) == {c \in Callers : pc[c] = "holding" /\ key[c] = k}
Holder == [k \in Plugins |-> IF Holders(k) = {} THEN Nobody ELSE CHOOSE c \in Holders(k) : TRUE]

Lock == INSTANCE PluginLock WITH holder <- Holder

\* Every step takes a free lock, gives a held one back, or changes nobody's
\* claim: what Receive assumes of its variable lock.
ImplementsPluginLock == Lock!Spec

-----------------------------------------------------------------------------
(* Liveness.  Holders give the lock back (every caller defers unlock) and   *)
(* the semaphore is a Go channel, which serves its receivers in turn.       *)

Fairness ==
    \A c \in Callers : /\ WF_vars(Unlock(c))
                       /\ WF_vars(ReleaseReference(c))
                       /\ SF_vars(Acquire(c))
=============================================================================
