--------------------------- MODULE EffectLockProofs ---------------------------
(***************************************************************************)
(* The map of semaphores excludes, counts its users exactly, and implements*)
(* the abstract lock; LockPlugin excludes on either database, whenever     *)
(* sessions are lost; for any number of callers, Plugins and connections.  *)
(***************************************************************************)
EXTENDS DatabaseEffectLocker, FiniteSetTheorems, TLAPS

-----------------------------------------------------------------------------
(* The keyed semaphores (EffectLock).                                      *)

\* A count is of a finite set: Users(e) is part of Callers.
LEMMA UsersFinite ==
    ASSUME NEW e PROVE IsFiniteSet(Users(e)) /\ Cardinality(Users(e)) \in Nat
  BY CallerAssumption, FS_Subset, FS_CardinalityType DEF Users

LEMMA InitInv == Init => Inv
<1> SUFFICES ASSUME Init PROVE Inv
    OBVIOUS
<1> USE DEF Init
<1>1. TypeOK
    BY DEF TypeOK, CallerStates
<1>2. EntryInv
    BY EntryAssumption DEF EntryInv
<1>3. CountInv /\ TokenInv
    BY DEF CountInv, TokenInv
<1> QED
    BY <1>1, <1>2, <1>3 DEF Inv

\* A caller that joins: a new entry counts one user, a shared one counts one more.
LEMMA RegisterInv ==
    ASSUME Inv, NEW c \in Callers, NEW k \in Plugins, Register(c, k)
    PROVE  Inv'
<1> USE EntryAssumption
<1>1. PICK e \in EntriesFor(k) :
        /\ locks' = [locks EXCEPT ![k] = e]
        /\ users' = [users EXCEPT ![e] = IF locks[k] = NoEntry THEN 1 ELSE @ + 1]
        /\ token' = [token EXCEPT ![e] = locks[k] = NoEntry \/ @]
        /\ entry' = [entry EXCEPT ![c] = e]
    BY DEF Register
<1>2. /\ pc[c] = "idle" /\ entry[c] = NoEntry
      /\ pc' = [pc EXCEPT ![c] = "waiting"]
      /\ key' = [key EXCEPT ![c] = k]
    BY DEF Register, Inv, EntryInv
<1>3. e \in Entries /\ e # NoEntry
    BY DEF EntriesFor, Garbage, Inv, TypeOK
<1>4. TypeOK'
    BY <1>1, <1>2, <1>3 DEF Inv, TypeOK, CallerStates
<1>5. \A f \in Entries : f # e => Users(f)' = Users(f)
    BY <1>1, <1>2, <1>3 DEF Users, Inv, TypeOK
<1>6. Users(e)' = Users(e) \cup {c} /\ c \notin Users(e)
    BY <1>1, <1>2, <1>3 DEF Users, Inv, TypeOK
<1>7. locks[k] # NoEntry => locks[k] = e
    BY DEF EntriesFor
<1>8. locks[k] = NoEntry => Users(e) = {} /\ \A k1 \in Plugins : locks[k1] # e
    BY DEF EntriesFor, Garbage, Users
<1>9. EntryInv'
  <2>1. (\A d \in Callers : pc[d] = "idle" <=> entry[d] = NoEntry)'
      BY <1>1, <1>2, <1>3 DEF Inv, TypeOK, EntryInv
  <2>2. (\A d \in Callers : entry[d] # NoEntry => locks[key[d]] = entry[d])'
      BY <1>1, <1>2, <1>3, <1>7 DEF Inv, TypeOK, EntryInv
  <2>3. (\A k1, k2 \in Plugins : locks[k1] # NoEntry /\ locks[k1] = locks[k2] => k1 = k2)'
      BY <1>1, <1>3, <1>7, <1>8 DEF Inv, TypeOK, EntryInv
  <2> QED
      BY <2>1, <2>2, <2>3 DEF EntryInv
<1>10. users'[e] = Cardinality(Users(e)') /\ users'[e] > 0
  <2>1. Cardinality(Users(e)') = Cardinality(Users(e)) + 1
      BY <1>6, UsersFinite, FS_AddElement
  <2>2. CASE locks[k] = NoEntry
    <3>1. Cardinality(Users(e)) = 0
        BY <2>2, <1>8, FS_EmptySet
    <3> QED
        BY <2>1, <2>2, <3>1, <1>1, <1>3 DEF Inv, TypeOK
  <2>3. CASE locks[k] # NoEntry
    <3>1. users[e] = Cardinality(Users(e)) /\ users'[e] = users[e] + 1
        BY <2>3, <1>1, <1>3, <1>7 DEF Inv, TypeOK, CountInv
    <3> QED
        BY <2>1, <3>1, UsersFinite DEF Inv, TypeOK
  <2> QED
      BY <2>2, <2>3
<1>11. CountInv'
  <2> SUFFICES ASSUME NEW k1 \in Plugins, locks'[k1] # NoEntry
               PROVE  /\ users'[locks'[k1]] = Cardinality(Users(locks[k1])')
                      /\ users'[locks'[k1]] > 0
      BY DEF CountInv
  <2>1. CASE locks'[k1] = e
      BY <2>1, <1>10, Zenon DEF Users
  <2>2. CASE locks'[k1] # e
    <3>1. locks'[k1] = locks[k1] /\ locks[k1] \in Entries
        BY <2>2, <1>1 DEF Inv, TypeOK
    <3>2. users'[locks[k1]] = users[locks[k1]]
        BY <3>1, <2>2, <1>1 DEF Inv, TypeOK
    <3>3. Users(locks[k1])' = Users(locks[k1])
        BY <3>1, <2>2, <1>5, Zenon DEF Users
    <3> QED
        BY <3>1, <3>2, <3>3 DEF Inv, CountInv
  <2> QED
      BY <2>1, <2>2
<1>12. TokenInv'
  <2>1. \A d \in Callers : pc'[d] = "holding" => d # c /\ pc[d] = "holding" /\ entry'[d] = entry[d]
      BY <1>1, <1>2 DEF Inv, TypeOK
  <2>2. \A d \in Callers : pc[d] = "holding" /\ entry[d] = e => locks[k] # NoEntry
      BY <1>8 DEF Users
  <2>3. \A d \in Callers : pc[d] = "holding" => entry[d] \in Entries
      BY DEF Inv, TypeOK, EntryInv
  <2>4. (\A d \in Callers : pc[d] = "holding" => ~token[entry[d]])'
      BY <2>1, <2>2, <2>3, <1>1, <1>3 DEF Inv, TypeOK, TokenInv
  <2> QED
      BY <2>1, <2>4 DEF Inv, TokenInv
<1> QED
    BY <1>4, <1>9, <1>11, <1>12 DEF Inv

\* Between Register and ReleaseReference only the token changes hands.
LEMMA TokenStepInv ==
    ASSUME Inv, NEW c \in Callers, Acquire(c) \/ Cancel(c) \/ Unlock(c)
    PROVE  Inv'
<1>1. entry[c] \in Entries /\ entry[c] # NoEntry
    BY EntryAssumption DEF Acquire, Cancel, Unlock, Inv, TypeOK, EntryInv
<1>2. UNCHANGED <<locks, users, key, entry>>
    BY DEF Acquire, Cancel, Unlock
<1>3. pc[c] # "idle" /\ \E s \in CallerStates \ {"idle"} : pc' = [pc EXCEPT ![c] = s]
    BY DEF Acquire, Cancel, Unlock, CallerStates
<1>4. TypeOK'
  <2>1. pc' \in [Callers -> CallerStates]
      BY <1>3 DEF Inv, TypeOK
  <2>2. token' \in [Entries -> BOOLEAN]
      BY <1>1 DEF Acquire, Cancel, Unlock, Inv, TypeOK
  <2> QED
      BY <2>1, <2>2, <1>2 DEF Inv, TypeOK
<1>5. EntryInv'
    BY <1>2, <1>3 DEF Inv, TypeOK, EntryInv
<1>6. CountInv'
    BY <1>2 DEF Inv, CountInv, Users
<1>7. TokenInv'
  <2>1. CASE Acquire(c)
      BY <2>1, <1>1, <1>2 DEF Acquire, Inv, TypeOK, EntryInv, TokenInv
  <2>2. CASE Cancel(c)
      BY <2>2 DEF Cancel, Inv, TypeOK, TokenInv
  <2>3. CASE Unlock(c)
      BY <2>3, <1>1, <1>2 DEF Unlock, Inv, TypeOK, EntryInv, TokenInv
  <2> QED
      BY <2>1, <2>2, <2>3
<1> QED
    BY <1>4, <1>5, <1>6, <1>7 DEF Inv

\* A caller that leaves: the count falls by one, and the entry is dropped only
\* when nobody else refers to it.
LEMMA ReleaseInv ==
    ASSUME Inv, NEW c \in Callers, ReleaseReference(c)
    PROVE  Inv'
<1> USE EntryAssumption
<1>0. PICK e, k : e = entry[c] /\ k = key[c]
    OBVIOUS
<1>1. /\ pc[c] = "leaving" /\ e \in Entries /\ e # NoEntry
      /\ k \in Plugins /\ locks[k] = e
    BY <1>0 DEF ReleaseReference, Inv, TypeOK, EntryInv
<1>2. /\ users' = [users EXCEPT ![e] = @ - 1]
      /\ locks' = IF users[e] = 1 THEN [locks EXCEPT ![k] = NoEntry] ELSE locks
      /\ pc' = [pc EXCEPT ![c] = "idle"]
      /\ entry' = [entry EXCEPT ![c] = NoEntry]
      /\ UNCHANGED <<token, key>>
    BY <1>0 DEF ReleaseReference, LastUser
<1>3. users[e] = Cardinality(Users(e)) /\ users[e] > 0
    BY <1>1 DEF Inv, CountInv
<1>4. users[e] = 1 => \A d \in Callers : entry[d] = e => d = c
  <2> SUFFICES ASSUME users[e] = 1, NEW d \in Callers, entry[d] = e PROVE d = c
      OBVIOUS
  <2>1. IsFiniteSet(Users(e))
      BY UsersFinite
  <2>2. PICK x : Users(e) = {x}
      BY <1>3, <2>1, FS_Singleton
  <2> QED
      BY <1>0, <2>2 DEF Users
<1>5. TypeOK'
    BY <1>1, <1>2, <1>3 DEF Inv, TypeOK, CallerStates
<1>6. EntryInv'
  <2>1. (\A d \in Callers : pc[d] = "idle" <=> entry[d] = NoEntry)'
      BY <1>0, <1>2 DEF Inv, TypeOK, EntryInv
  <2>2. (\A d \in Callers : entry[d] # NoEntry => locks[key[d]] = entry[d])'
      BY <1>0, <1>1, <1>2, <1>4 DEF Inv, TypeOK, EntryInv
  <2>3. (\A k1, k2 \in Plugins : locks[k1] # NoEntry /\ locks[k1] = locks[k2] => k1 = k2)'
      BY <1>1, <1>2 DEF Inv, TypeOK, EntryInv
  <2> QED
      BY <2>1, <2>2, <2>3 DEF EntryInv
<1>7. Users(e)' = Users(e) \ {c} /\ c \in Users(e)
    BY <1>0, <1>1, <1>2 DEF Users, Inv, TypeOK
<1>8. CountInv'
  <2> SUFFICES ASSUME NEW k1 \in Plugins, locks'[k1] # NoEntry
               PROVE  /\ users'[locks'[k1]] = Cardinality(Users(locks[k1])')
                      /\ users'[locks'[k1]] > 0
      BY DEF CountInv
  <2>1. locks'[k1] = locks[k1] /\ locks[k1] \in Entries
      BY <1>1, <1>2 DEF Inv, TypeOK
  <2>2. CASE locks[k1] = e
    <3>1. users[e] # 1
        BY <1>1, <1>2, <2>1, <2>2 DEF Inv, TypeOK, EntryInv
    <3>2. Cardinality(Users(e)') = Cardinality(Users(e)) - 1
        BY <1>7, UsersFinite, FS_RemoveElement
    <3>3. users'[e] = users[e] - 1 /\ users[e] \in Nat
        BY <1>1, <1>2 DEF Inv, TypeOK
    <3>4. users'[e] = Cardinality(Users(e)') /\ users'[e] > 0
        BY <3>1, <3>2, <3>3, <1>3
    <3>5. Users(locks[k1])' = Users(e)'
        BY <2>1, <2>2 DEF Users
    <3> QED
        BY <3>4, <3>5, <2>1, <2>2
  <2>3. CASE locks[k1] # e
    <3>1. Users(locks[k1])' = Users(locks[k1])
        BY <1>0, <2>1, <2>3, <1>1, <1>2 DEF Users, Inv, TypeOK
    <3>2. users'[locks[k1]] = users[locks[k1]]
        BY <2>1, <2>3, <1>2 DEF Inv, TypeOK
    <3> QED
        BY <2>1, <3>1, <3>2 DEF Inv, CountInv
  <2> QED
      BY <2>2, <2>3
<1>9. TokenInv'
    BY <1>1, <1>2 DEF Inv, TypeOK, TokenInv
<1> QED
    BY <1>5, <1>6, <1>8, <1>9 DEF Inv

LEMMA NextInv == Inv /\ [Next]_vars => Inv'
<1> SUFFICES ASSUME Inv, [Next]_vars PROVE Inv'
    OBVIOUS
<1>1. CASE UNCHANGED vars
    BY <1>1 DEF vars, Inv, TypeOK, EntryInv, CountInv, TokenInv, Users
<1>2. ASSUME NEW c \in Callers, NEW k \in Plugins, Register(c, k) PROVE Inv'
    BY <1>2, RegisterInv
<1>3. ASSUME NEW c \in Callers, Step(c) PROVE Inv'
    BY <1>3, TokenStepInv, ReleaseInv DEF Step
<1> QED
    BY <1>1, <1>2, <1>3 DEF Next

\* The inductive invariant: entries, counts and tokens of effectKeyedLocks agree
\* after every step of every caller.
THEOREM Invariance == Spec => []Inv
<1> QED
    BY InitInv, NextInv, PTL DEF Spec

\* effectKeyedLocks.lock never lets two callers into one Plugin's effects.
THEOREM ExclusionCorrect == Spec => []MutualExclusion
<1>1. Inv => MutualExclusion
    BY DEF Inv, TypeOK, EntryInv, TokenInv, MutualExclusion
<1> QED
    BY <1>1, Invariance, PTL

\* No caller is left with an entry that releaseReference has dropped, and no
\* entry outlives its users.
THEOREM EntriesCorrect == Spec => []EntryHasUsers
<1>1. ASSUME Inv PROVE EntryHasUsers
  <2>1. ASSUME NEW k \in Plugins, locks[k] # NoEntry
        PROVE  \E c \in Callers : entry[c] = locks[k] /\ key[c] = k
    <3>1. Cardinality(Users(locks[k])) > 0
        BY <1>1, <2>1 DEF Inv, CountInv
    <3>2. Users(locks[k]) # {}
        BY <3>1, FS_EmptySet
    <3>3. PICK c \in Callers : entry[c] = locks[k]
        BY <3>2 DEF Users
    <3>4. locks[key[c]] = locks[k] /\ key[c] \in Plugins
        BY <1>1, <2>1, <3>3 DEF Inv, TypeOK, EntryInv
    <3> QED
        BY <1>1, <2>1, <3>3, <3>4 DEF Inv, EntryInv
  <2> QED
      BY <1>1, <2>1 DEF EntryHasUsers, Inv, EntryInv
<1> QED
    BY <1>1, Invariance, PTL

-----------------------------------------------------------------------------
(* Refinement.                                                             *)

\* The refinement mapping is determined: no holder, or the only one.
HolderDetermined ==
    \A k \in Plugins : \/ Holders(k) = {} /\ Holder[k] = Nobody
                       \/ \E c \in Callers : Holders(k) = {c} /\ Holder[k] = c

LEMMA HolderNow == Inv => HolderDetermined
<1> SUFFICES ASSUME Inv, NEW k \in Plugins, Holders(k) # {}
             PROVE  \E c \in Callers : Holders(k) = {c} /\ Holder[k] = c
    BY DEF HolderDetermined, Holder
<1>1. PICK c \in Callers : pc[c] = "holding" /\ key[c] = k
    BY DEF Holders
<1>2. \A d \in Callers : pc[d] = "holding" /\ key[d] = k => d = c
    BY <1>1 DEF Inv, TypeOK, EntryInv, TokenInv
<1>3. Holders(k) = {c}
    BY <1>1, <1>2 DEF Holders
<1> QED
    BY <1>3 DEF Holder

LEMMA HolderNext == Inv' => HolderDetermined'
  BY HolderNow, PTL

\* Who holds what changes only as pc does.
LEMMA HolderFrame ==
    ASSUME UNCHANGED <<pc, key>> PROVE UNCHANGED Holder
  BY DEF Holder, Holders

\* Register, Cancel and ReleaseReference concern no holder.
LEMMA OutsideStep ==
    ASSUME Inv, Inv', NEW c \in Callers, pc[c] # "holding", pc'[c] # "holding",
           \A d \in Callers : d # c => pc'[d] = pc[d] /\ key'[d] = key[d]
    PROVE  UNCHANGED Holder
<1>1. \A k \in Plugins : Holders(k)' = Holders(k)
    BY DEF Holders
<1>2. \A k \in Plugins : Holder'[k] = Holder[k]
    BY <1>1, HolderNow, HolderNext DEF HolderDetermined
<1> QED
    BY <1>2 DEF Holder

LEMMA TakeStep ==
    ASSUME Inv, Inv', NEW c \in Callers, Acquire(c)
    PROVE  Lock!Take(c, key[c])
<1>1. /\ pc[c] = "waiting" /\ token[entry[c]] /\ key[c] \in Plugins /\ key' = key
      /\ pc' = [pc EXCEPT ![c] = "holding"]
    BY DEF Acquire, Inv, TypeOK
<1>2. Holders(key[c]) = {}
    BY <1>1, EntryAssumption DEF Holders, Inv, TypeOK, EntryInv, TokenInv
<1>3. \A k \in Plugins : Holders(k)' = IF k = key[c] THEN {c} ELSE Holders(k)
    BY <1>1, <1>2 DEF Holders, Inv, TypeOK
<1>4. Holder[key[c]] = Nobody
    BY <1>1, <1>2, HolderNow DEF HolderDetermined
<1>5. \A k \in Plugins : Holder'[k] = IF k = key[c] THEN c ELSE Holder[k]
    BY <1>3, HolderNow, HolderNext DEF HolderDetermined
<1>6. Holder = [k \in Plugins |-> Holder[k]] /\ Holder' = [k \in Plugins |-> Holder'[k]]
    BY DEF Holder
<1>7. Holder' = [Holder EXCEPT ![key[c]] = c]
    BY <1>1, <1>5, <1>6
<1> QED
    BY <1>4, <1>7 DEF Lock!Take

LEMMA GiveBackStep ==
    ASSUME Inv, Inv', NEW c \in Callers, Unlock(c)
    PROVE  Lock!GiveBack(c, key[c])
<1>1. /\ pc[c] = "holding" /\ key[c] \in Plugins /\ key' = key
      /\ pc' = [pc EXCEPT ![c] = "leaving"]
    BY DEF Unlock, Inv, TypeOK
<1>2. Holders(key[c]) = {c} /\ Holder[key[c]] = c
    BY <1>1, HolderNow DEF HolderDetermined, Holders
<1>3. \A k \in Plugins : Holders(k)' = IF k = key[c] THEN {} ELSE Holders(k)
    BY <1>1, <1>2 DEF Holders, Inv, TypeOK
<1>4. \A k \in Plugins : Holder'[k] = IF k = key[c] THEN Nobody ELSE Holder[k]
    BY <1>3, HolderNow, HolderNext DEF HolderDetermined
<1>5. Holder' = [Holder EXCEPT ![key[c]] = Nobody]
    BY <1>1, <1>4 DEF Holder
<1> QED
    BY <1>2, <1>5 DEF Lock!GiveBack

LEMMA StepRefines == Inv /\ Inv' /\ [Next]_vars => [Lock!Next]_Holder
<1> SUFFICES ASSUME Inv, Inv', [Next]_vars PROVE Lock!Next \/ UNCHANGED Holder
    OBVIOUS
<1>1. CASE UNCHANGED vars
    BY <1>1, HolderFrame DEF vars
<1>2. ASSUME NEW c \in Callers, NEW k \in Plugins, Register(c, k) PROVE UNCHANGED Holder
  <2>1. pc[c] # "holding" /\ pc'[c] # "holding"
      BY <1>2 DEF Register, Inv, TypeOK
  <2>2. \A d \in Callers : d # c => pc'[d] = pc[d] /\ key'[d] = key[d]
      BY <1>2 DEF Register, Inv, TypeOK
  <2> QED
      BY <2>1, <2>2, OutsideStep
<1>3. ASSUME NEW c \in Callers, Cancel(c) \/ ReleaseReference(c) PROVE UNCHANGED Holder
  <2>1. pc[c] # "holding" /\ pc'[c] # "holding"
      BY <1>3 DEF Cancel, ReleaseReference, Inv, TypeOK
  <2>2. \A d \in Callers : d # c => pc'[d] = pc[d] /\ key'[d] = key[d]
      BY <1>3 DEF Cancel, ReleaseReference, Inv, TypeOK
  <2> QED
      BY <2>1, <2>2, OutsideStep
<1>4. ASSUME NEW c \in Callers, Acquire(c) \/ Unlock(c) PROVE Lock!Next
  <2>1. key[c] \in Plugins
      BY DEF Inv, TypeOK
  <2> QED
      BY <1>4, <2>1, TakeStep, GiveBackStep DEF Lock!Next
<1> QED
    BY <1>1, <1>2, <1>3, <1>4 DEF Next, Step

\* effectKeyedLocks implements EffectLocker: what callers see of the map of
\* semaphores is a lock that is taken when free and given back by its holder.
THEOREM Refinement == Spec => ImplementsPluginLock
<1>1. Init => Lock!Init
    BY DEF Init, Lock!Init, Holder, Holders
<1>2. Inv /\ Inv' /\ [Next]_vars => [Lock!Next]_Holder
    BY StepRefines
<1> QED
    BY <1>1, <1>2, Invariance, PTL DEF Spec, ImplementsPluginLock, Lock!Spec

-----------------------------------------------------------------------------
(* The inductive invariant of LockPlugin (DatabaseEffectLocker).           *)

WithConnection == {"trying", "waiting", "holding", "querying", "unlocking"}
WithLock == {"holding", "querying", "unlocking"}

\* Callers use the map of semaphores or sessions of PostgreSQL, never both.
OneDriver ==
    /\ driver = "postgres" => \A c \in Callers : pc[c] = "idle"
    /\ driver = "sqlite" => \A c \in Callers : state[c] = "idle"

\* A connection has one user at a time, and who has which is told by where the
\* callers stand.
ConnectionsExclusive ==
    /\ \A c \in Callers : lockConn[c] # NoConnection <=> state[c] \in WithConnection
    /\ \A c \in Callers : queryConn[c] # NoConnection <=> state[c] = "querying"
    /\ \A c, d \in Callers : lockConn[c] = lockConn[d] /\ lockConn[c] # NoConnection => c = d
    /\ \A c, d \in Callers : lockConn[c] = queryConn[d] => lockConn[c] = NoConnection

LockerInv ==
    /\ LockerTypeOK /\ Inv /\ OneDriver
    /\ ConnectionsExclusive /\ SessionLocksHeld

LEMMA LockerInitInv == LockerInit => LockerInv
<1> SUFFICES ASSUME LockerInit PROVE LockerInv
    OBVIOUS
<1>1. Inv
    BY InitInv DEF LockerInit
<1>2. LockerTypeOK
    BY <1>1 DEF LockerInit, LockerTypeOK, PostgresStates, Inv
<1>3. OneDriver
    BY DEF LockerInit, Init, OneDriver
<1>4. ConnectionsExclusive
    BY DEF LockerInit, ConnectionsExclusive, WithConnection
<1>5. SessionLocksHeld
    BY ConnectionAssumption DEF LockerInit, SessionLocksHeld
<1> QED
    BY <1>1, <1>2, <1>3, <1>4, <1>5 DEF LockerInv

\* What a step of PostgreSQL leaves of the semaphores, whose users are none.
LEMMA SemaphoresKeep ==
    ASSUME LockerInv, driver = "postgres", driver' = driver,
           UNCHANGED <<locks, users, token, pc, entry>>,
           key' \in [Callers -> Plugins]
    PROVE  Inv' /\ OneDriver' /\ TypeOK'
<1>1. \A c \in Callers : pc[c] = "idle" /\ entry[c] = NoEntry
    BY DEF LockerInv, OneDriver, Inv, EntryInv
<1>2. TypeOK' /\ EntryInv'
    BY <1>1 DEF LockerInv, Inv, TypeOK, EntryInv
<1>3. CountInv'
    BY DEF LockerInv, Inv, CountInv, Users
<1>4. TokenInv'
    BY <1>1 DEF LockerInv, Inv, TokenInv
<1> QED
    BY <1>1, <1>2, <1>3, <1>4 DEF Inv, OneDriver

-----------------------------------------------------------------------------
(* The steps of a caller.                                                  *)

\* A caller that has no lock, and takes none, moves between states, with a
\* connection that nobody else has.
LEMMA WithoutLockInv ==
    ASSUME LockerInv, driver = "postgres", driver' = driver,
           UNCHANGED <<locks, users, token, pc, entry, queryConn, live, session>>,
           NEW c \in Callers, NEW from \in PostgresStates \ WithLock, NEW to \in PostgresStates \ WithLock,
           Moves(c, from, to),
           NEW k \in Plugins, key' = [key EXCEPT ![c] = k],
           NEW x \in Connections \cup {NoConnection}, lockConn' = [lockConn EXCEPT ![c] = x],
           x # NoConnection <=> to \in WithConnection,
           x \in Free \cup {lockConn[c], NoConnection}
    PROVE  LockerInv'
<1> USE ConnectionAssumption
<1>1. Inv' /\ OneDriver' /\ TypeOK'
  <2>1. key' \in [Callers -> Plugins]
      BY DEF LockerInv, LockerTypeOK, TypeOK
  <2> QED
      BY <2>1, SemaphoresKeep
<1>2. LockerTypeOK'
    BY <1>1 DEF LockerInv, LockerTypeOK, Moves
<1>3. ConnectionsExclusive'
    BY DEF LockerInv, LockerTypeOK, ConnectionsExclusive, Moves, WithConnection, WithLock, Free
<1>4. SessionLocksHeld'
    BY DEF LockerInv, LockerTypeOK, SessionLocksHeld, TypeOK, Moves, WithLock
<1> QED
    BY <1>1, <1>2, <1>3, <1>4 DEF LockerInv

LEMMA PollInv ==
    ASSUME LockerInv, driver = "postgres", driver' = driver,
           UNCHANGED <<locks, users, token, pc, entry>>,
           NEW c \in Callers,
           \/ \E k \in Plugins : LockPostgres(c, k)
           \/ TakeConnection(c)
           \/ Retry(c) \/ (TryLock(c) /\ session' = session)
    PROVE  LockerInv'
<1> USE ConnectionAssumption DEF PostgresStates, WithLock, WithConnection
<1>0. /\ key \in [Callers -> Plugins] /\ lockConn \in [Callers -> Connections \cup {NoConnection}]
      /\ state \in [Callers -> PostgresStates] /\ session \in [Plugins -> Connections \cup {Nobody, Abandoned}]
      /\ lockConn[c] # NoConnection <=> state[c] \in WithConnection
    BY DEF LockerInv, LockerTypeOK, TypeOK, ConnectionsExclusive
<1>1. ASSUME NEW k \in Plugins, LockPostgres(c, k) PROVE LockerInv'
  <2>1. Moves(c, "idle", "asking") /\ lockConn[c] = NoConnection /\ key' = [key EXCEPT ![c] = k]
      BY <1>0, <1>1 DEF LockPostgres, Moves
  <2>2. lockConn' = [lockConn EXCEPT ![c] = NoConnection] /\ UNCHANGED <<queryConn, live, session>>
      BY <1>0, <1>1, <2>1 DEF LockPostgres
  <2>3. "idle" \in PostgresStates \ WithLock /\ "asking" \in PostgresStates \ WithLock /\ "asking" \notin WithConnection
      OBVIOUS
  <2> QED
      BY <2>1, <2>2, <2>3, WithoutLockInv
<1>2. CASE TakeConnection(c)
  <2>1. Moves(c, "asking", "trying") /\ key' = [key EXCEPT ![c] = key[c]] /\ key[c] \in Plugins
      BY <1>0, <1>2 DEF TakeConnection
  <2>2. PICK x \in Free : lockConn' = [lockConn EXCEPT ![c] = x]
      BY <1>2 DEF TakeConnection
  <2>3. x \in Connections \cup {NoConnection} /\ x # NoConnection /\ x \in Free \cup {lockConn[c], NoConnection}
      BY <2>2 DEF Free
  <2>4. UNCHANGED <<queryConn, live, session>>
      BY <1>2 DEF TakeConnection
  <2>5. "asking" \in PostgresStates \ WithLock /\ "trying" \in PostgresStates \ WithLock /\ "trying" \in WithConnection
      OBVIOUS
  <2> QED
      BY <2>1, <2>2, <2>3, <2>4, <2>5, WithoutLockInv
<1>3. CASE Retry(c) \/ (TryLock(c) /\ session' = session)
  <2>1. PICK from, to \in {"trying", "waiting"} : Moves(c, from, to)
      BY <1>0, <1>3 DEF Retry, TryLock, LockerInv, LockerTypeOK, Moves
  <2>2. /\ key' = [key EXCEPT ![c] = key[c]] /\ key[c] \in Plugins
        /\ lockConn' = [lockConn EXCEPT ![c] = lockConn[c]] /\ lockConn[c] \in Connections \cup {NoConnection}
        /\ UNCHANGED <<queryConn, live, session>> /\ lockConn[c] # NoConnection
      BY <1>0, <1>3, <2>1 DEF Retry, TryLock, Moves
  <2>3. from \in PostgresStates \ WithLock /\ to \in PostgresStates \ WithLock /\ to \in WithConnection
      BY <2>1
  <2> QED
      BY <2>1, <2>2, <2>3, WithoutLockInv
<1>4. CASE \E k \in Plugins : LockPostgres(c, k)
    BY <1>1, <1>4
<1> QED
    BY <1>2, <1>3, <1>4

\* A caller goes, its connection returns to the pool, and no session of that
\* connection has a lock.
LEMMA LeaveInv ==
    ASSUME LockerInv, driver = "postgres", driver' = driver,
           UNCHANGED <<locks, users, token, pc, key, entry>>,
           NEW c \in Callers, NEW from \in PostgresStates \ {"idle", "querying"}, Moves(c, from, "idle"),
           CloseLockConn(c),
           session' \in [Plugins -> Connections \cup {Nobody, Abandoned}],
           \A k \in Plugins, x \in Connections :
               session'[k] = x <=> session[k] = x /\ x # lockConn[c]
    PROVE  LockerInv'
<1> USE ConnectionAssumption
<1>1. Inv' /\ OneDriver' /\ TypeOK'
  <2>1. key' \in [Callers -> Plugins]
      BY DEF LockerInv, LockerTypeOK, TypeOK
  <2> QED
      BY <2>1, SemaphoresKeep
<1>2. LockerTypeOK'
    BY <1>1 DEF LockerInv, LockerTypeOK, Moves, CloseLockConn, PostgresStates
<1>3. ConnectionsExclusive'
    BY DEF LockerInv, LockerTypeOK, ConnectionsExclusive, Moves, WithConnection, CloseLockConn, PostgresStates
<1>4. SessionLocksHeld'
  <2> SUFFICES ASSUME NEW k \in Plugins, NEW x \in Connections
               PROVE  session'[k] = x <=>
                        /\ live'[x]
                        /\ \E d \in Callers : /\ lockConn'[d] = x /\ key'[d] = k
                                              /\ state'[d] \in {"holding", "querying", "unlocking"}
      BY DEF SessionLocksHeld
  <2>1. \A d \in Callers : d # c => lockConn'[d] = lockConn[d] /\ state'[d] = state[d]
      BY DEF LockerInv, LockerTypeOK, Moves, CloseLockConn
  <2>2. lockConn'[c] = NoConnection /\ x # lockConn[c] => live'[x] = live[x]
      BY DEF LockerInv, LockerTypeOK, CloseLockConn
  <2>3. lockConn'[c] = NoConnection
      BY DEF LockerInv, LockerTypeOK, CloseLockConn
  <2>4. CASE x = lockConn[c]
    <3>1. \A d \in Callers : lockConn'[d] # x
        BY <2>1, <2>3, <2>4 DEF LockerInv, ConnectionsExclusive
    <3> QED
        BY <2>4, <3>1
  <2>5. CASE x # lockConn[c]
    <3>1. session[k] = x <=>
            /\ live[x]
            /\ \E d \in Callers : /\ lockConn[d] = x /\ key[d] = k
                                  /\ state[d] \in {"holding", "querying", "unlocking"}
        BY DEF LockerInv, SessionLocksHeld
    <3>2. \A d \in Callers : lockConn'[d] = x <=> lockConn[d] = x /\ d # c
        BY <2>1, <2>3, <2>5
    <3>3. live'[x] <=> live[x]
        BY <2>2, <2>3, <2>5
    <3> QED
        BY <2>1, <2>5, <3>1, <3>2, <3>3
  <2> QED
      BY <2>4, <2>5
<1> QED
    BY <1>1, <1>2, <1>3, <1>4 DEF LockerInv

\* The four ways out of lockPostgres and of unlock.
LEMMA LeavesInv ==
    ASSUME LockerInv, driver = "postgres", driver' = driver,
           UNCHANGED <<locks, users, token, pc, entry>>,
           NEW c \in Callers,
           Timeout(c) \/ TryFails(c) \/ AdvisoryUnlock(c) \/ AdvisoryUnlockFails(c)
    PROVE  LockerInv'
<1> USE ConnectionAssumption
<1>1. PICK from \in PostgresStates \ {"idle", "querying"} : Moves(c, from, "idle")
    BY DEF Timeout, TryFails, AdvisoryUnlock, AdvisoryUnlockFails, PostgresStates
<1>2. CloseLockConn(c) /\ UNCHANGED key
    BY DEF Timeout, TryFails, AdvisoryUnlock, AdvisoryUnlockFails
<1>3. \A x \in Connections, k \in Plugins : session[k] = x =>
        /\ live[x]
        /\ x = lockConn[c] => k = key[c] /\ state[c] \in {"holding", "querying", "unlocking"}
    BY DEF LockerInv, ConnectionsExclusive, SessionLocksHeld
<1>4. /\ key[c] \in Plugins /\ lockConn[c] \in Connections \cup {NoConnection}
      /\ session \in [Plugins -> Connections \cup {Nobody, Abandoned}]
      /\ state[c] = "unlocking" => lockConn[c] \in Connections
      /\ state[c] = "unlocking" /\ live[lockConn[c]] => session[key[c]] = lockConn[c]
    BY DEF LockerInv, LockerTypeOK, TypeOK, ConnectionsExclusive, WithConnection, SessionLocksHeld
<1>5. session' \in [Plugins -> Connections \cup {Nobody, Abandoned}]
    BY <1>4 DEF Timeout, TryFails, AdvisoryUnlock, AdvisoryUnlockFails
<1>6. \A k \in Plugins, x \in Connections : session'[k] = x <=> session[k] = x /\ x # lockConn[c]
  <2>1. CASE Timeout(c)
      BY <2>1, <1>3 DEF Timeout, Moves
  <2>2. CASE TryFails(c)
      BY <2>2, <1>3, <1>4 DEF TryFails, Moves
  <2>3. CASE AdvisoryUnlock(c)
      BY <2>3, <1>3, <1>4 DEF AdvisoryUnlock, Moves
  <2>4. CASE AdvisoryUnlockFails(c)
      BY <2>4, <1>3, <1>4 DEF AdvisoryUnlockFails, Moves
  <2> QED
      BY <2>1, <2>2, <2>3, <2>4
<1> QED
    BY <1>1, <1>2, <1>5, <1>6, LeaveInv

\* The lock is taken, on a connection that nobody else has.
LEMMA TryLockInv ==
    ASSUME LockerInv, driver = "postgres", driver' = driver,
           UNCHANGED <<locks, users, token, pc, entry>>,
           NEW c \in Callers, TryLock(c), session' # session
    PROVE  LockerInv'
<1> USE ConnectionAssumption
<1>1. /\ Moves(c, "trying", "holding") /\ session[key[c]] = Nobody /\ live[lockConn[c]]
      /\ session' = [session EXCEPT ![key[c]] = lockConn[c]]
      /\ UNCHANGED <<key, lockConn, queryConn, live>>
    BY DEF TryLock
<1>2. key[c] \in Plugins /\ lockConn[c] \in Connections
    BY <1>1 DEF LockerInv, LockerTypeOK, TypeOK, ConnectionsExclusive, WithConnection, Moves
<1>3. Inv' /\ OneDriver' /\ TypeOK'
  <2>1. key' \in [Callers -> Plugins]
      BY <1>1 DEF LockerInv, LockerTypeOK, TypeOK
  <2> QED
      BY <2>1, SemaphoresKeep
<1>4. LockerTypeOK'
    BY <1>1, <1>2, <1>3 DEF LockerInv, LockerTypeOK, Moves, PostgresStates
<1>5. ConnectionsExclusive'
    BY <1>1 DEF LockerInv, LockerTypeOK, ConnectionsExclusive, Moves, WithConnection
<1>6. SessionLocksHeld'
  <2> SUFFICES ASSUME NEW k \in Plugins, NEW x \in Connections
               PROVE  session'[k] = x <=>
                        /\ live[x]
                        /\ \E d \in Callers : /\ lockConn[d] = x /\ key[d] = k
                                              /\ state'[d] \in {"holding", "querying", "unlocking"}
      BY <1>1 DEF SessionLocksHeld
  <2>1. \A d \in Callers : state'[d] = IF d = c THEN "holding" ELSE state[d]
      BY <1>1 DEF LockerInv, LockerTypeOK, Moves
  <2>2. session'[k] = IF k = key[c] THEN lockConn[c] ELSE session[k]
      BY <1>1 DEF LockerInv, LockerTypeOK
  <2>3. session[k] = x <=>
            /\ live[x]
            /\ \E d \in Callers : /\ lockConn[d] = x /\ key[d] = k
                                  /\ state[d] \in {"holding", "querying", "unlocking"}
      BY DEF LockerInv, SessionLocksHeld
  <2>4. \A d \in Callers : lockConn[d] = lockConn[c] => d = c
      BY <1>2 DEF LockerInv, ConnectionsExclusive
  <2>5. state[c] = "trying"
      BY <1>1 DEF Moves
  <2>6. CASE x = lockConn[c]
      BY <2>6, <1>1, <2>1, <2>2, <2>3, <2>4, <2>5
  <2>7. CASE x # lockConn[c]
      BY <2>7, <1>1, <2>1, <2>2, <2>3, <2>4, <2>5
  <2> QED
      BY <2>6, <2>7
<1> QED
    BY <1>3, <1>4, <1>5, <1>6 DEF LockerInv

\* A holder's queries leave its lock where it is.
LEMMA HolderStepInv ==
    ASSUME LockerInv, driver = "postgres", driver' = driver,
           UNCHANGED <<locks, users, token, pc, entry>>,
           NEW c \in Callers, Query(c) \/ QueryEnds(c) \/ GiveUp(c)
    PROVE  LockerInv'
<1> USE ConnectionAssumption
<1>1. UNCHANGED <<key, lockConn, session>>
    BY DEF Query, QueryEnds, GiveUp
<1>2. PICK from, to \in {"holding", "querying", "unlocking"} : Moves(c, from, to)
    BY DEF Query, QueryEnds, GiveUp
<1>3. Inv' /\ OneDriver' /\ TypeOK'
  <2>1. key' \in [Callers -> Plugins]
      BY <1>1 DEF LockerInv, LockerTypeOK, TypeOK
  <2> QED
      BY <2>1, SemaphoresKeep
<1>4. LockerTypeOK'
  <2>1. state' \in [Callers -> PostgresStates]
      BY <1>2 DEF LockerInv, LockerTypeOK, Moves, PostgresStates
  <2>2. queryConn' \in [Callers -> Connections \cup {NoConnection}] /\ live' \in [Connections -> BOOLEAN]
      BY ZenonT(60) DEF Query, QueryEnds, GiveUp, Free, LockerInv, LockerTypeOK
  <2> QED
      BY <1>1, <1>3, <2>1, <2>2 DEF LockerInv, LockerTypeOK
<1>5. ConnectionsExclusive'
    BY <1>1 DEF LockerInv, LockerTypeOK, ConnectionsExclusive, Query, QueryEnds, GiveUp, Free, Moves, WithConnection
<1>6. \A x \in Connections : (\E d \in Callers : lockConn[d] = x) => live'[x] = live[x]
    BY DEF LockerInv, LockerTypeOK, ConnectionsExclusive, Query, QueryEnds, GiveUp, Moves
<1>7. \A d \in Callers : state'[d] \in {"holding", "querying", "unlocking"}
                           <=> state[d] \in {"holding", "querying", "unlocking"}
    BY <1>2 DEF LockerInv, LockerTypeOK, Moves
<1>8. SessionLocksHeld'
    BY <1>1, <1>6, <1>7 DEF LockerInv, SessionLocksHeld
<1> QED
    BY <1>3, <1>4, <1>5, <1>8 DEF LockerInv

-----------------------------------------------------------------------------
(* The steps of the server, and the theorems.                              *)

LEMMA ServerInv ==
    ASSUME LockerInv, driver = "postgres", driver' = driver,
           UNCHANGED <<locks, users, token, pc, entry>>,
           (\E x \in Connections : LoseSession(x)) \/ (\E k \in Plugins : EndAbandoned(k))
    PROVE  LockerInv'
<1> USE ConnectionAssumption
<1>1. UNCHANGED <<key, state, lockConn, queryConn>>
    BY DEF LoseSession, EndAbandoned
<1>2. Inv' /\ OneDriver' /\ TypeOK'
  <2>1. key' \in [Callers -> Plugins]
      BY <1>1 DEF LockerInv, LockerTypeOK, TypeOK
  <2> QED
      BY <2>1, SemaphoresKeep
<1>3. ConnectionsExclusive'
    BY <1>1 DEF LockerInv, ConnectionsExclusive
<1>4. ASSUME NEW x \in Connections, LoseSession(x) PROVE LockerTypeOK' /\ SessionLocksHeld'
  <2>1. LockerTypeOK'
      BY <1>1, <1>2, <1>4 DEF LoseSession, LockerInv, LockerTypeOK
  <2>2. SessionLocksHeld'
      BY <1>1, <1>4 DEF LoseSession, LockerInv, LockerTypeOK, SessionLocksHeld
  <2> QED
      BY <2>1, <2>2
<1>5. ASSUME NEW k \in Plugins, EndAbandoned(k) PROVE LockerTypeOK' /\ SessionLocksHeld'
  <2>1. LockerTypeOK'
      BY <1>1, <1>2, <1>5 DEF EndAbandoned, LockerInv, LockerTypeOK
  <2>2. SessionLocksHeld'
      BY <1>1, <1>5 DEF EndAbandoned, LockerInv, LockerTypeOK, SessionLocksHeld
  <2> QED
      BY <2>1, <2>2
<1> QED
    BY <1>2, <1>3, <1>4, <1>5 DEF LockerInv

LEMMA SqliteInv ==
    ASSUME LockerInv, driver = "sqlite" \/ UNCHANGED vars, driver' = driver, [Next]_vars, UNCHANGED pgVars
    PROVE  LockerInv'
<1>1. Inv' /\ TypeOK'
    BY NextInv DEF LockerInv, Inv
<1>2. LockerTypeOK'
    BY <1>1 DEF LockerInv, LockerTypeOK, pgVars
<1>3. OneDriver'
    BY DEF LockerInv, LockerTypeOK, OneDriver, vars, pgVars
<1>4. ConnectionsExclusive'
    BY DEF LockerInv, ConnectionsExclusive, pgVars
<1>5. SessionLocksHeld'
  <2>1. CASE driver = "sqlite"
      BY <2>1 DEF LockerInv, OneDriver, SessionLocksHeld, pgVars
  <2>2. CASE UNCHANGED vars
      BY <2>2 DEF LockerInv, SessionLocksHeld, pgVars, vars
  <2> QED
      BY <2>1, <2>2
<1> QED
    BY <1>1, <1>2, <1>3, <1>4, <1>5 DEF LockerInv

LEMMA LockerNextInv == LockerInv /\ [LockerNext]_lockerVars => LockerInv'
<1> SUFFICES ASSUME LockerInv, [LockerNext]_lockerVars PROVE LockerInv'
    OBVIOUS
<1>1. CASE UNCHANGED lockerVars
    BY <1>1, SqliteInv DEF lockerVars
<1>2. CASE driver = "sqlite" /\ Next /\ UNCHANGED pgVars /\ UNCHANGED driver
    BY <1>2, SqliteInv
<1>3. CASE driver = "postgres" /\ Postgres /\ UNCHANGED driver
  <2> USE <1>3
  <2>1. driver = "postgres" /\ driver' = driver /\ UNCHANGED <<locks, users, token, pc, entry>>
      BY DEF Postgres
  <2>2. ASSUME NEW c \in Callers, PostgresStep(c) \/ \E k \in Plugins : LockPostgres(c, k)
        PROVE  LockerInv'
    <3>1. CASE (\E k \in Plugins : LockPostgres(c, k)) \/ TakeConnection(c) \/ Retry(c)
        BY <2>1, <3>1, PollInv
    <3>2. CASE TryLock(c)
        BY <2>1, <3>2, PollInv, TryLockInv
    <3>3. CASE Timeout(c) \/ TryFails(c) \/ AdvisoryUnlock(c) \/ AdvisoryUnlockFails(c)
        BY <2>1, <3>3, LeavesInv
    <3>4. CASE Query(c) \/ QueryEnds(c) \/ GiveUp(c)
        BY <2>1, <3>4, HolderStepInv
    <3> QED
        BY <2>2, <3>1, <3>2, <3>3, <3>4 DEF PostgresStep
  <2>3. CASE (\E x \in Connections : LoseSession(x)) \/ (\E k \in Plugins : EndAbandoned(k))
      BY <2>1, <2>3, ServerInv
  <2> QED
      BY <2>2, <2>3 DEF Postgres
<1> QED
    BY <1>1, <1>2, <1>3 DEF LockerNext

\* The inductive invariant: connections and sessions of lockPostgres and
\* postgresUnlock agree with where the callers stand, after every step.
THEOREM LockerInvariance == LockerSpec => []LockerInv
<1> QED
    BY LockerInitInv, LockerNextInv, PTL DEF LockerSpec

\* databaseEffectLocker keeps the types of its state, on either database.
THEOREM LockerTypeCorrect == LockerSpec => []LockerTypeOK
<1>1. LockerInv => LockerTypeOK
    BY DEF LockerInv
<1> QED
    BY <1>1, LockerInvariance, PTL

\* postgresUnlock leaves no lock with a pooled connection, and a lock of
\* lockPostgres is its caller's for as long as its session lives.
THEOREM SessionsCorrect == LockerSpec => []SessionLocksHeld
<1>1. LockerInv => SessionLocksHeld
    BY DEF LockerInv
<1> QED
    BY <1>1, LockerInvariance, PTL

\* Two callers that both stand between lockPostgres and the end of postgresUnlock
\* for one Plugin are one, unless a session of theirs is lost.
LiveHoldersExclude ==
    \A c, d \in Callers :
        /\ state[c] \in WithLock /\ state[d] \in WithLock /\ key[c] = key[d]
        /\ live[lockConn[c]] /\ live[lockConn[d]]
        => c = d

\* LockPlugin excludes on either database, a lost session of PostgreSQL aside.
THEOREM LockerExclusion == LockerSpec => [](MutualExclusion /\ LiveHoldersExclude)
<1>1. LockerInv => MutualExclusion
    BY DEF LockerInv, Inv, TypeOK, EntryInv, TokenInv, MutualExclusion
<1>2. ASSUME LockerInv PROVE LiveHoldersExclude
  <2> SUFFICES ASSUME NEW c \in Callers, NEW d \in Callers,
                      state[c] \in WithLock, state[d] \in WithLock, key[c] = key[d],
                      live[lockConn[c]], live[lockConn[d]]
               PROVE  c = d
      BY DEF LiveHoldersExclude
  <2>1. lockConn[c] \in Connections /\ lockConn[d] \in Connections /\ key[c] \in Plugins
      BY <1>2 DEF LockerInv, LockerTypeOK, TypeOK, ConnectionsExclusive, WithLock, WithConnection
  <2>2. session[key[c]] = lockConn[c] /\ session[key[c]] = lockConn[d]
      BY <1>2, <2>1 DEF LockerInv, SessionLocksHeld, WithLock
  <2> QED
      BY ZenonT(60), <1>2, <2>1, <2>2, ConnectionAssumption DEF LockerInv, ConnectionsExclusive
<1>3. LockerInv => MutualExclusion /\ LiveHoldersExclude
    BY <1>1, <1>2
<1> QED
    BY <1>3, LockerInvariance, PTL
=============================================================================
