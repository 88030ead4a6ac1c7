------------------------- MODULE DatabaseEffectLocker -------------------------
(***************************************************************************)
(* LockPlugin for either database.  With SQLite it is EffectLock.  With    *)
(* PostgreSQL a caller takes a connection out of the pool, polls           *)
(* pg_try_advisory_lock on it, and keeps it for as long as it holds the    *)
(* lock, which belongs to the connection's session; the caller's own       *)
(* queries need a second connection of the same pool.                      *)
(*                                                                         *)
(* Code: mod/backend/domain/plugin/effect_lock.go; the pool is that of     *)
(* database/sql with the limit that mod/sql/mod.go sets.                   *)
(***************************************************************************)
EXTENDS EffectLock

CONSTANTS
    Connections,   \* as many as maxOpenConns
    NoConnection,
    Patient,       \* callers whose own context has no deadline
    Abandoned      \* a session whose client is gone, which the server may not know

ASSUME ConnectionAssumption ==
    /\ NoConnection \notin Connections /\ Patient \subseteq Callers
    /\ Nobody \notin Connections /\ Abandoned \notin Connections \cup {Nobody}

VARIABLES
    driver,      \* the dialect of the database
    state,       \* caller -> where it stands in lockPostgres or after it
    lockConn,    \* caller -> the connection its lock is taken on
    queryConn,   \* caller -> the connection of its query
    live,        \* connection -> whether its session is
    session      \* Plugin -> the connection whose session has its lock

pgVars == <<state, lockConn, queryConn, live, session>>
lockerVars == <<vars, driver, pgVars>>

PostgresStates == {"idle", "asking", "trying", "waiting", "holding", "querying", "unlocking"}

LockerTypeOK ==
    /\ TypeOK
    /\ driver \in {"sqlite", "postgres"}
    /\ state \in [Callers -> PostgresStates]
    /\ lockConn \in [Callers -> Connections \cup {NoConnection}]
    /\ queryConn \in [Callers -> Connections \cup {NoConnection}]
    /\ live \in [Connections -> BOOLEAN]
    /\ session \in [Plugins -> Connections \cup {Nobody, Abandoned}]

LockerInit ==
    /\ Init
    /\ driver \in {"sqlite", "postgres"}
    /\ state = [c \in Callers |-> "idle"]
    /\ lockConn = [c \in Callers |-> NoConnection]
    /\ queryConn = [c \in Callers |-> NoConnection]
    /\ live = [x \in Connections |-> TRUE]
    /\ session = [k \in Plugins |-> Nobody]

\* What the pool can give out.
Free == {x \in Connections : \A c \in Callers : x \notin {lockConn[c], queryConn[c]}}

Moves(c, from, to) == state[c] = from /\ state' = [state EXCEPT ![c] = to]

\* connection.Close gives the connection back; the pool replaces a broken one.
CloseLockConn(c) ==
    /\ lockConn' = [lockConn EXCEPT ![c] = NoConnection]
    /\ live' = IF lockConn[c] = NoConnection THEN live ELSE [live EXCEPT ![lockConn[c]] = TRUE]
    /\ UNCHANGED queryConn

-----------------------------------------------------------------------------
(* lockPostgres                                                            *)

LockPostgres(c, k) ==
    /\ Moves(c, "idle", "asking")
    /\ key' = [key EXCEPT ![c] = k]
    /\ UNCHANGED <<lockConn, queryConn, live, session>>

TakeConnection(c) ==
    /\ Moves(c, "asking", "trying")
    /\ \E x \in Free : lockConn' = [lockConn EXCEPT ![c] = x]
    /\ UNCHANGED <<key, queryConn, live, session>>

TryLock(c) ==
    /\ \/ /\ Moves(c, "trying", "holding")
          /\ session[key[c]] = Nobody
          /\ session' = [session EXCEPT ![key[c]] = lockConn[c]]
       \/ /\ Moves(c, "trying", "waiting")
          /\ session[key[c]] # Nobody
          /\ UNCHANGED session
    /\ live[lockConn[c]]
    /\ UNCHANGED <<key, lockConn, queryConn, live>>

\* The connection is broken, or breaks as the context ends during the query,
\* which the server may carry out all the same.
TryFails(c) ==
    /\ Moves(c, "trying", "idle")
    /\ \/ UNCHANGED session
       \/ /\ live[lockConn[c]] /\ session[key[c]] = Nobody
          /\ session' = [session EXCEPT ![key[c]] = Abandoned]
    /\ CloseLockConn(c) /\ UNCHANGED key

Retry(c) ==
    Moves(c, "waiting", "trying") /\ UNCHANGED <<key, lockConn, queryConn, live, session>>

\* Fault: the wait for a connection has no limit.
TimeoutWaiting(c) ==
    /\ Moves(c, "waiting", "idle")
    /\ CloseLockConn(c) /\ UNCHANGED <<key, session>>

\* lockTimeout covers the wait for a connection and the wait for the lock.
Timeout(c) ==
    /\ Moves(c, "asking", "idle") \/ Moves(c, "waiting", "idle")
    /\ CloseLockConn(c) /\ UNCHANGED <<key, session>>

-----------------------------------------------------------------------------
(* The holder, and postgresUnlock.                                         *)

\* A transaction of the holder; before the next one it stands here again.
Query(c) ==
    /\ Moves(c, "holding", "querying")
    /\ \E x \in Free : queryConn' = [queryConn EXCEPT ![c] = x]
    /\ UNCHANGED <<key, lockConn, live, session>>

QueryEnds(c) ==
    /\ Moves(c, "querying", "unlocking")
    /\ queryConn' = [queryConn EXCEPT ![c] = NoConnection]
    /\ live' = [live EXCEPT ![queryConn[c]] = TRUE]
    /\ UNCHANGED <<key, lockConn, session>>

\* Its context ends while it waits for a connection.
GiveUp(c) ==
    /\ c \notin Patient
    /\ Moves(c, "holding", "unlocking")
    /\ UNCHANGED <<key, lockConn, queryConn, live, session>>

\* Fault: the connection is closed and the session keeps the lock.
CloseOnly(c) ==
    /\ Moves(c, "unlocking", "idle")
    /\ CloseLockConn(c) /\ UNCHANGED <<key, session>>

\* pg_advisory_unlock; on a session that was lost it finds no lock, or fails.
AdvisoryUnlock(c) ==
    /\ Moves(c, "unlocking", "idle")
    /\ session' = IF live[lockConn[c]] THEN [session EXCEPT ![key[c]] = Nobody] ELSE session
    /\ CloseLockConn(c) /\ UNCHANGED key

\* Its query times out and the connection breaks before the server has unlocked.
AdvisoryUnlockFails(c) ==
    /\ Moves(c, "unlocking", "idle") /\ live[lockConn[c]]
    /\ session' = [session EXCEPT ![key[c]] = Abandoned]
    /\ CloseLockConn(c) /\ UNCHANGED key

-----------------------------------------------------------------------------
(* The server.                                                             *)

\* A session ends with all its locks, and its client does not know.
LoseSession(x) ==
    /\ live[x] /\ live' = [live EXCEPT ![x] = FALSE]
    /\ session' = [k \in Plugins |-> IF session[k] = x THEN Nobody ELSE session[k]]
    /\ UNCHANGED <<key, state, lockConn, queryConn>>

\* The server finds that a client is gone.
EndAbandoned(k) ==
    /\ session[k] = Abandoned /\ session' = [session EXCEPT ![k] = Nobody]
    /\ UNCHANGED <<key, state, lockConn, queryConn, live>>

PostgresStep(c) ==
    \/ TakeConnection(c) \/ TryLock(c) \/ TryFails(c) \/ Retry(c) \/ Timeout(c)
    \/ Query(c) \/ QueryEnds(c) \/ GiveUp(c) \/ AdvisoryUnlock(c) \/ AdvisoryUnlockFails(c)

Postgres ==
    /\ \/ \E c \in Callers : PostgresStep(c) \/ \E k \in Plugins : LockPostgres(c, k)
       \/ \E x \in Connections : LoseSession(x)
       \/ \E k \in Plugins : EndAbandoned(k)
    /\ UNCHANGED <<locks, users, token, pc, entry>>

LockerNext ==
    /\ \/ driver = "sqlite" /\ Next /\ UNCHANGED pgVars
       \/ driver = "postgres" /\ Postgres
    /\ UNCHANGED driver

LockerSpec == LockerInit /\ [][LockerNext]_lockerVars

\* Queries end, and timers fire between two polls as well; a connection that is
\* given back goes to one of those that wait for it.
PostgresFairness ==
    \A c \in Callers :
        /\ WF_pgVars(\/ TryLock(c) \/ TryFails(c) \/ Retry(c)
                     \/ QueryEnds(c) \/ GiveUp(c) \/ AdvisoryUnlock(c))
        /\ SF_pgVars(Timeout(c) \/ Query(c))

LockerFairSpec == LockerSpec /\ Fairness /\ PostgresFairness

-----------------------------------------------------------------------------
\* A session that is live has a Plugin's lock exactly as long as its caller holds
\* it: no connection goes back to the pool with a lock, and two callers hold one
\* lock only when the first has lost its session (lockPostgres, postgresUnlock).
SessionLocksHeld ==
    \A k \in Plugins, x \in Connections :
        session[k] = x <=>
            /\ live[x]
            /\ \E c \in Callers : /\ lockConn[c] = x /\ key[c] = k
                                  /\ state[c] \in {"holding", "querying", "unlocking"}

\* Every call of LockPlugin ends, and so does whoever holds the lock, although
\* each holder keeps a connection and needs a second one, as long as fewer of
\* them than there are connections would wait without end (LockPlugin).
EveryCallEnds ==
    \A c \in Callers : pc[c] = "waiting" \/ state[c] # "idle" ~>
                       pc[c] # "waiting" /\ state[c] = "idle"
=============================================================================
