-------------------------- MODULE ReceiveHookProofs --------------------------
(* Theorems about ReceiveHook, for any number of pushes of one repository, *)
(* whatever their commands are and whatever fails or is killed first.      *)
EXTENDS ReceiveHook, TLAPS

-----------------------------------------------------------------------------
(* The inductive invariant, one part for each pair of actors.              *)

\* Before the session is started there is no socket and no process.
NotStarted(p) ==
    push[p].handler \in {"replace", "add", "listen"} =>
        /\ push[p].git = "none" /\ push[p].serve = "none" /\ push[p].listener = "none"

\* The handler and the socket.
ListenerOf(p) ==
    /\ push[p].handler \in {"running", "close"} => push[p].listener = "open"
    /\ push[p].handler \in {"closeConnection", "join"} => push[p].listener = "closed"
    /\ push[p].handler = "ended" => push[p].listener \in {"none", "removed"}

\* The handler waits for git, and for the goroutine.
Waits(p) ==
    /\ GitRuns(p) => push[p].handler = "running"
    /\ push[p].handler = "ended" => push[p].serve \in {"none", "returned"}

\* Only an open socket has connections to accept, and only the one that was
\* accepted last is not closed while the goroutine works on it.
Connections(p) ==
    \A m \in Modes :
        /\ push[p].conn[m] = "queued" => push[p].listener = "open"
        /\ push[p].conn[m] = "accepted" =>
             push[p].serving = m /\ push[p].serve \notin {"none", "accept", "returned"}

\* Until git has read the config nothing was asked and nothing answered.
NothingAsked(p) ==
    push[p].git \in {"none", "started"} =>
        /\ push[p].serve \in {"none", "accept", "returned"}
        /\ push[p].current = "none" /\ push[p].results = "none"
        /\ \A m \in Modes : push[p].conn[m] = "none"
        /\ \A k \in Kinds : push[p].told[k] = "none"

Moved(p) == push[p].outcome = "completed" /\ Routes(p) \subseteq push[p].moved

\* An answer is given once, after the batch of all routed refs completed.
Answered(p) ==
    /\ push[p].serve = "ok" => Moved(p)
    /\ push[p].results = "ok" => push[p].serve = "returned" /\ Moved(p)
    /\ \A k \in Kinds : push[p].told[k] = "ok" /\ k \in push[p].seen =>
                            push[p].results = "ok" /\ k \in Routes(p)

PushInv(p) == /\ NotStarted(p) /\ ListenerOf(p) /\ Waits(p)
              /\ Connections(p) /\ NothingAsked(p) /\ Answered(p)

HookInv == TypeOK /\ \A p \in Pushes : PushInv(p)

\* The lock is held from Open to Finalize, when every early return gives it up.
LockInv == \A p \in Pushes : holder = p => push[p].serve \in {"prepare", "update", "finalize"}

-----------------------------------------------------------------------------
(* Types.                                                                  *)

LEMMA SetStep ==
    ASSUME TypeOK, NEW p \in Pushes, NEW r, Set(p, r)
    PROVE  /\ push'[p] = r
           /\ \A q \in Pushes \ {p} : push'[q] = push[q]
           /\ r \in PushStates => push' \in [Pushes -> PushStates]
BY DEF TypeOK, Set

LEMMA FieldTypes ==
    ASSUME TypeOK, NEW p \in Pushes
    PROVE  /\ push[p] \in PushStates
           /\ push[p].conn \in [Modes -> {"none", "queued", "accepted", "closed"}]
           /\ push[p].client \in [Modes -> {"none", "connected", "sent", "cut", "failed"}]
           /\ push[p].told \in [Kinds -> {"none", "ok", "ng"}]
           /\ push[p].seen \subseteq Kinds /\ push[p].moved \subseteq Kinds
           /\ Routes(p) \subseteq Kinds /\ Own(p) \subseteq Kinds
           /\ Commands[p] \subseteq Kinds
BY PushAssumption DEF TypeOK, PushStates, Routes, Own

\* The fields that git and its hooks, or the goroutine, may change.
ConnStates == [Modes -> {"none", "queued", "accepted", "closed"}]
ClientStates == [Modes -> {"none", "connected", "sent", "cut", "failed"}]
Reports == [Kinds -> {"none", "ok", "ng"}]
ServeStates == {"none", "accept", "accepted", "check", "discard", "request", "open",
                "prepare", "update", "finalize", "ok", "ng", "broken", "returned"}

LEMMA StartedType ==
    ASSUME NEW q \in PushStates
    PROVE  /\ [q EXCEPT !.handler = "running", !.git = "started"] \in PushStates
           /\ [q EXCEPT !.handler = "close", !.expired = TRUE] \in PushStates
<1>1. [q EXCEPT !.handler = "running", !.git = "started"] \in PushStates
    BY ZenonT(60) DEF PushStates
<1>2. [q EXCEPT !.handler = "close", !.expired = TRUE] \in PushStates
    BY ZenonT(60) DEF PushStates
<1> QED
    BY <1>1, <1>2

LEMMA HandleType ==
    ASSUME TypeOK, NEW p \in Pushes, Handle(p) \/ InstallFails(p) \/ Expire(p)
    PROVE  TypeOK'
<1> DEFINE r == push[p]
<1>0. r \in PushStates /\ push[p].conn \in ConnStates
    BY FieldTypes DEF ConnStates
<1> HIDE DEF r
<1>a. ASSUME NEW q \in PushStates, Set(p, q), routed' \subseteq Kinds,
             holder' \in Pushes \cup {Nobody}
      PROVE  TypeOK'
    BY <1>a, SetStep DEF TypeOK
<1>b. routed \subseteq Kinds /\ holder \in Pushes \cup {Nobody}
    BY DEF TypeOK
<1>1. CASE ReplaceAll(p) \/ AddTags(p) \/ InstallFails(p)
  <2>1. \A h \in {"add", "listen", "ended"} : [r EXCEPT !.handler = h] \in PushStates
      BY <1>0, ZenonT(60) DEF PushStates
  <2> QED
      BY <1>1, <1>a, <1>b, <2>1 DEF ReplaceAll, AddTags, InstallFails, HandlerAt, Kinds, r
<1>2. CASE StartSession(p)
  <2> DEFINE started == [r EXCEPT !.listener = "open", !.serve = "accept"]
  <2>1. started \in PushStates
      BY <1>0, ZenonT(60) DEF PushStates
  <2> QED
      BY <1>2, <1>a, <1>b, <2>1, StartedType DEF StartSession, HandlerAt, r
<1>3. CASE Expire(p) \/ CommandWait(p)
  <2>1. [r EXCEPT !.expired = TRUE] \in PushStates
      BY <1>0, ZenonT(60) DEF PushStates
  <2> QED
      BY <1>0, <1>3, <1>a, <1>b, <2>1, StartedType DEF Expire, CommandWait, HandlerAt, r
<1>4. CASE CloseListener(p)
  <2>1. \A c \in ConnStates :
          [r EXCEPT !.handler = "closeConnection", !.listener = "closed", !.conn = c] \in PushStates
      BY <1>0, ZenonT(60) DEF PushStates, ConnStates
  <2>2. [m \in Modes |-> IF r.conn[m] = "queued" THEN "closed" ELSE r.conn[m]] \in ConnStates
      BY <1>0 DEF ConnStates, r
  <2> QED
      BY <1>4, <1>a, <1>b, <2>1, <2>2 DEF CloseListener, HandlerAt, r
<1>5. CASE CloseConnection(p)
  <2>1. \A c \in ConnStates : [r EXCEPT !.handler = "join", !.conn = c] \in PushStates
      BY <1>0, ZenonT(60) DEF PushStates, ConnStates
  <2>2. \A m : (IF m \in Modes THEN Closed(p, m) ELSE r.conn) \in ConnStates
      BY <1>0 DEF ConnStates, Closed, r
  <2> QED
      BY <1>5, <1>a, <1>b, <2>1, <2>2 DEF CloseConnection, HandlerAt, r
<1>6. CASE Join(p)
  <2>1. [r EXCEPT !.handler = "ended", !.listener = "removed"] \in PushStates
      BY <1>0, ZenonT(60) DEF PushStates
  <2> QED
      BY <1>6, <1>a, <1>b, <2>1 DEF Join, HandlerAt, r
<1> QED
    BY <1>1, <1>2, <1>3, <1>4, <1>5, <1>6 DEF Handle

LEMMA GitType ==
    ASSUME TypeOK, NEW p \in Pushes, Git(p)
    PROVE  TypeOK'
<1> DEFINE r == push[p]
<1>0. r \in PushStates /\ push[p].conn \in ConnStates /\ push[p].client \in ClientStates
    BY FieldTypes DEF ConnStates, ClientStates
<1> HIDE DEF r
<1>a. ASSUME NEW q \in PushStates, Set(p, q), UNCHANGED <<routed, holder>>
      PROVE  TypeOK'
    BY <1>a, SetStep DEF TypeOK
<1>b. /\ routed \subseteq Kinds /\ push[p].moved \subseteq Kinds
      /\ Routes(p) \subseteq Kinds /\ Own(p) \subseteq Kinds
    BY FieldTypes DEF TypeOK
<1>c. \A K, M : Report(p, K, M) \in Reports
    BY FieldTypes DEF Report, Reports
<1>d. \A m \in Modes : \A state \in {"connected", "sent", "cut", "failed"} :
        Client(p, m, state) \in ClientStates
    BY <1>0 DEF Client, ClientStates
<1>1. CASE ReadConfig(p) \/ GitFails(p)
  <2>1. /\ \A K \in SUBSET Kinds : [r EXCEPT !.git = "pre", !.seen = K] \in PushStates
        /\ [r EXCEPT !.git = "exited"] \in PushStates
      BY <1>0, ZenonT(60) DEF PushStates
  <2> QED
      BY <1>1, <1>a, <1>b, <2>1 DEF ReadConfig, GitFails, GitAt, r
<1>2. CASE AfterPre(p)
  <2>1. \A g \in {"proc", "own"} : [r EXCEPT !.git = g] \in PushStates
      BY <1>0, ZenonT(60) DEF PushStates
  <2>4. \A t \in Reports : [r EXCEPT !.git = "exited", !.told = t] \in PushStates
      BY <1>0, ZenonT(60) DEF PushStates, Reports
  <2>2. PICK g \in {"proc", "own"} : g = IF Routes(p) # {} THEN "proc" ELSE "own"
      OBVIOUS
  <2>3. \/ Set(p, [r EXCEPT !.git = g])
        \/ Set(p, [r EXCEPT !.git = "exited", !.told = Report(p, Commands[p], {})])
      BY <1>2, <2>2, Zenon DEF AfterPre, r
  <2> QED
      BY <1>2, <1>a, <1>c, <2>1, <2>3, <2>4 DEF AfterPre, GitAt
<1>3. CASE AfterProc(p)
  <2>1. \A t \in Reports : [r EXCEPT !.git = "own", !.told = t] \in PushStates
      BY <1>0, ZenonT(60) DEF PushStates, Reports
  <2> QED
      BY <1>3, <1>a, <1>c, <2>1 DEF AfterProc, GitAt, r
<1>4. CASE MoveOwn(p)
  <2>1. \A t \in Reports : \A M \in SUBSET Kinds :
          [r EXCEPT !.git = "exited", !.moved = M, !.told = t] \in PushStates
      BY <1>0, ZenonT(60) DEF PushStates, Reports
  <2>2. PICK M \in SUBSET Own(p) :
          Set(p, [r EXCEPT !.git = "exited", !.moved = @ \cup M, !.told = Report(p, Own(p), M)])
      BY <1>4 DEF MoveOwn, r
  <2>3. r.moved \cup M \in SUBSET Kinds
      BY <1>b DEF r
  <2> QED
      BY <1>4, <1>a, <1>c, <2>1, <2>2, <2>3 DEF MoveOwn, GitAt
<1>5. CASE Kill(p)
  <2>1. \A M \in SUBSET Kinds : [r EXCEPT !.git = "killed", !.moved = M] \in PushStates
      BY <1>0, ZenonT(60) DEF PushStates
  <2>2. PICK M \in SUBSET Own(p) : Set(p, [r EXCEPT !.git = "killed", !.moved = @ \cup M])
      BY <1>5 DEF Kill, r
  <2>3. r.moved \cup M \in SUBSET Kinds
      BY <1>b DEF r
  <2> QED
      BY <1>5, <1>a, <2>1, <2>2, <2>3 DEF Kill
<1>6. ASSUME NEW m \in Modes, HookConnects(p, m) \/ HookSends(p, m) \/ HookCut(p, m)
      PROVE  TypeOK'
  <2>1. /\ \A c \in ClientStates : [r EXCEPT !.client = c] \in PushStates
        /\ \A c \in ClientStates : \A d \in ConnStates :
             [r EXCEPT !.client = c, !.conn = d] \in PushStates
      BY <1>0, ZenonT(60) DEF PushStates, ClientStates, ConnStates
  <2>2. [push[p].conn EXCEPT ![m] = "queued"] \in ConnStates
      BY <1>0 DEF ConnStates
  <2> QED
      BY <1>6, <1>a, <1>d, <2>1, <2>2 DEF HookConnects, HookSends, HookCut, GitAt, r
<1> QED
    BY <1>1, <1>2, <1>3, <1>4, <1>5, <1>6 DEF Git

LEMMA ServeType ==
    ASSUME TypeOK, NEW p \in Pushes, Serve(p)
    PROVE  TypeOK'
<1> DEFINE r == push[p]
<1>0. r \in PushStates /\ push[p].conn \in ConnStates /\ push[p].serving \in Modes \cup {"none"}
    BY FieldTypes DEF ConnStates, PushStates
<1> HIDE DEF r
<1>a. ASSUME NEW q \in PushStates, Set(p, q), routed' = routed, holder' \in {holder, p, Nobody}
      PROVE  TypeOK'
    BY <1>a, SetStep DEF TypeOK
<1>b. Routes(p) \subseteq Kinds /\ \A m : Closed(p, m) \in ConnStates
    BY <1>0, FieldTypes DEF Closed, ConnStates
<1>c. \A q \in PushStates :
        [q EXCEPT !.current = "none", !.conn = Closed(p, push[p].serving)] \in PushStates
  <2>1. \A q \in PushStates : \A c \in ConnStates :
          [q EXCEPT !.current = "none", !.conn = c] \in PushStates
      BY ZenonT(60) DEF PushStates, ConnStates
  <2> QED
      BY <1>b, <2>1
<1>d. \A s \in ServeStates : [r EXCEPT !.serve = s] \in PushStates
    BY <1>0, ZenonT(60) DEF PushStates, ServeStates
<1>1. CASE Accept(p)
  <2>1. \A m \in Modes : \A c \in ConnStates :
          [r EXCEPT !.serve = "accepted", !.serving = m, !.conn = c] \in PushStates
      BY <1>0, ZenonT(60) DEF PushStates, ConnStates
  <2>2. \A m \in Modes : [push[p].conn EXCEPT ![m] = "accepted"] \in ConnStates
      BY <1>0 DEF ConnStates
  <2> QED
      BY <1>1, <1>a, <2>1, <2>2 DEF Accept, ServeAt, r
<1>2. CASE SetConnection(p)
  <2>1. \A m \in Modes \cup {"none"} : [r EXCEPT !.serve = "check", !.current = m] \in PushStates
      BY <1>0, ZenonT(60) DEF PushStates
  <2> QED
      BY <1>2, <1>0, <1>a, <2>1 DEF SetConnection, ServeAt, r
<1>3. CASE CheckContext(p) \/ EndDiscard(p) \/ ReadFails(p)
    BY <1>3, <1>a, <1>c, <1>d
       DEF CheckContext, EndDiscard, ReadFails, Drop, ServeAt, ServeStates, r
<1>4. CASE AcceptFails(p) \/ ReadRequest(p) \/ Open(p) \/ OpenFails(p)
           \/ PrepareRejects(p) \/ PrepareAdmits(p)
    BY <1>4, <1>a, <1>d DEF AcceptFails, ReadRequest, Open, OpenFails, PrepareRejects,
                            PrepareAdmits, ServeAt, ServeStates, r
<1>5. CASE UpdateRefs(p)
  <2>1. \A M \in SUBSET Kinds : [r EXCEPT !.serve = "finalize", !.moved = M] \in PushStates
      BY <1>0, ZenonT(60) DEF PushStates
  <2> QED
      BY <1>5, <1>a, <1>b, <2>1 DEF UpdateRefs, ServeAt, r
<1>6. CASE Finalize(p)
  <2>1. \A s \in {"ok", "ng", "broken"} : \A o \in {"completed", "aborted", "manual", "failed"} :
          [r EXCEPT !.serve = s, !.outcome = o] \in PushStates
      BY <1>0, ZenonT(60) DEF PushStates
  <2>2. PICK o \in {Resolution(p), "failed"} :
          \E s \in Answers(p, o) : Set(p, [r EXCEPT !.serve = s, !.outcome = o])
      BY <1>6 DEF Finalize, r
  <2>3. o \in {"completed", "aborted", "manual", "failed"}
      BY DEF Resolution
  <2>4. PICK s \in {"ok", "ng", "broken"} : Set(p, [r EXCEPT !.serve = s, !.outcome = o])
      BY <2>2, <2>3 DEF Answers
  <2> QED
      BY <1>6, <1>a, <2>1, <2>3, <2>4 DEF Finalize
<1>7. CASE WriteResults(p)
  <2>1. \A v \in {"none", "ok", "ng"} :
          [r EXCEPT !.serve = "returned", !.results = v] \in PushStates
      BY <1>0, ZenonT(60) DEF PushStates
  <2>2. push[p].serve \in {"ok", "ng", "broken"} /\ UNCHANGED <<routed, holder>>
      BY <1>7 DEF WriteResults, ServeAt
  <2>3. PICK v \in {"none", "ok", "ng"} :
          Drop(p, [r EXCEPT !.serve = "returned", !.results = v])
      BY <1>7, <2>2 DEF WriteResults, r
  <2> QED
      BY <1>a, <1>c, <2>1, <2>2, <2>3 DEF Drop
<1> QED
    BY <1>1, <1>2, <1>3, <1>4, <1>5, <1>6, <1>7 DEF Serve

LEMMA InitType == Init => TypeOK
BY DEF Init, TypeOK, PushStates, Kinds, Modes

\* Every step of a handler, of git, of a hook or of the goroutine leaves a push
\* in a state of PushStates.
THEOREM HookTypeCorrect == Spec => []TypeOK
<1>1. TypeOK /\ UNCHANGED vars => TypeOK'
    BY DEF TypeOK, vars
<1>2. TypeOK /\ [Next]_vars => TypeOK'
    BY <1>1, HandleType, GitType, ServeType DEF Next
<1> QED
    BY InitType, <1>2, PTL DEF Spec

-----------------------------------------------------------------------------
(* The inductive invariant.                                                *)

LEMMA InitInv == Init => \A p \in Pushes : PushInv(p)
BY PushAssumption DEF Init, PushInv, NotStarted, ListenerOf, Waits, GitRuns, Connections,
   NothingAsked, Answered, Modes, Kinds

\* A step of one push keeps what is true of the others: they share the lock.
\* What a session that is started, or a context that is done, changes of a push.
SameWork(q, r) ==
    /\ r.conn = q.conn /\ r.serving = q.serving /\ r.current = q.current
    /\ r.results = q.results /\ r.told = q.told /\ r.seen = q.seen
    /\ r.moved = q.moved /\ r.outcome = q.outcome

StartedAt(q, r) ==
    /\ SameWork(q, r) /\ r.listener = "open" /\ r.serve = "accept"
    /\ \/ r.handler = "running" /\ r.git = "started"
       \/ r.handler = "close" /\ r.git = q.git

ExpiredAt(q, r) ==
    /\ SameWork(q, r) /\ r.listener = q.listener /\ r.serve = q.serve /\ r.git = q.git
    /\ q.handler = "running"
    /\ \/ r.handler = "running"
       \/ r.handler = "close" /\ q.git \in {"exited", "killed"}

LEMMA ExpiredFields ==
    ASSUME NEW q \in PushStates, NEW r,
           \/ r = [q EXCEPT !.expired = TRUE]
           \/ r = [q EXCEPT !.handler = "close", !.expired = TRUE]
    PROVE  /\ SameWork(q, r) /\ r.listener = q.listener /\ r.serve = q.serve /\ r.git = q.git
           /\ r = [q EXCEPT !.expired = TRUE] => r.handler = q.handler
           /\ r = [q EXCEPT !.handler = "close", !.expired = TRUE] => r.handler = "close"
<1>1. CASE r = [q EXCEPT !.expired = TRUE]
  <2>1. r.handler = q.handler
      BY <1>1, ZenonT(60) DEF PushStates
  <2> QED
      BY <1>1, ZenonT(60) DEF PushStates, SameWork
<1>2. CASE r = [q EXCEPT !.handler = "close", !.expired = TRUE]
    BY <1>2, ZenonT(60) DEF PushStates, SameWork
<1> QED
    BY <1>1, <1>2

LEMMA ExpiredStep ==
    ASSUME TypeOK, NEW p \in Pushes, Expire(p) \/ CommandWait(p)
    PROVE  ExpiredAt(push[p], push'[p])
<1>0. push[p] \in PushStates
    BY FieldTypes
<1>1. CASE Expire(p)
  <2>1. push'[p] = [push[p] EXCEPT !.expired = TRUE] /\ push[p].handler = "running"
      BY <1>1, SetStep, Zenon DEF Expire
  <2> QED
      BY <1>0, <2>1, ExpiredFields, Zenon DEF ExpiredAt
<1>2. CASE CommandWait(p)
  <2>1. push'[p] = [push[p] EXCEPT !.handler = "close", !.expired = TRUE]
      BY <1>2, SetStep, Zenon DEF CommandWait
  <2>2. push[p].handler = "running" /\ push[p].git \in {"exited", "killed"}
      BY <1>2 DEF CommandWait, HandlerAt
  <2> QED
      BY <1>0, <2>1, <2>2, ExpiredFields, Zenon DEF ExpiredAt
<1> QED
    BY <1>1, <1>2

LEMMA StartStep ==
    ASSUME TypeOK, NEW p \in Pushes, StartSession(p)
    PROVE  StartedAt(push[p], push'[p])
<1>0. push[p] \in PushStates
    BY FieldTypes
<1>1. PICK q : q = [push[p] EXCEPT !.listener = "open", !.serve = "accept"]
    OBVIOUS
<1>2. /\ q \in PushStates /\ SameWork(push[p], q)
      /\ q.listener = "open" /\ q.serve = "accept" /\ q.git = push[p].git
    BY <1>0, <1>1, ZenonT(60) DEF PushStates, SameWork
<1>3. \/ Set(p, [q EXCEPT !.handler = "running", !.git = "started"])
      \/ Set(p, [q EXCEPT !.handler = "close", !.expired = TRUE])
    BY <1>1, Zenon DEF StartSession
<1>4. \/ push'[p] = [q EXCEPT !.handler = "running", !.git = "started"]
      \/ push'[p] = [q EXCEPT !.handler = "close", !.expired = TRUE]
    BY <1>3, SetStep, Zenon
<1>5. CASE push'[p] = [q EXCEPT !.handler = "running", !.git = "started"]
  <2>1. /\ SameWork(q, push'[p]) /\ push'[p].listener = q.listener /\ push'[p].serve = q.serve
        /\ push'[p].handler = "running" /\ push'[p].git = "started"
      BY <1>2, <1>5, ZenonT(60) DEF SameWork, PushStates
  <2> QED
      BY <1>2, <2>1, Zenon DEF StartedAt, SameWork
<1>6. CASE push'[p] = [q EXCEPT !.handler = "close", !.expired = TRUE]
  <2>1. /\ SameWork(q, push'[p]) /\ push'[p].listener = q.listener
        /\ push'[p].serve = q.serve /\ push'[p].git = q.git /\ push'[p].handler = "close"
      BY <1>2, <1>6, ExpiredFields, Zenon
  <2> QED
      BY <1>2, <2>1, Zenon DEF StartedAt, SameWork
<1> QED
    BY <1>4, <1>5, <1>6

\* A step of one push keeps what is true of the others.
LEMMA Others ==
    ASSUME TypeOK, NEW p \in Pushes, NEW r, Set(p, r), \A q \in Pushes : PushInv(q), PushInv(p)'
    PROVE  \A q \in Pushes : PushInv(q)'
<1> SUFFICES ASSUME NEW q \in Pushes, q # p PROVE PushInv(q)'
    OBVIOUS
<1>1. push'[q] = push[q]
    BY SetStep
<1> QED
    BY <1>1 DEF PushInv, NotStarted, ListenerOf, Waits, GitRuns, Connections,
       NothingAsked, Answered, Moved, Routes

LEMMA HandleInv ==
    ASSUME TypeOK, NEW p \in Pushes, \A q \in Pushes : PushInv(q),
           Handle(p) \/ InstallFails(p) \/ Expire(p)
    PROVE  \A q \in Pushes : PushInv(q)'
<1>0. push[p] \in PushStates /\ PushInv(p)
    BY FieldTypes
<1>a. push[p].conn \in [Modes -> {"none", "queued", "accepted", "closed"}]
    BY FieldTypes
<1> SUFFICES PushInv(p)'
  <2>1. \E r : Set(p, r)
      BY DEF Handle, ReplaceAll, AddTags, InstallFails, StartSession, Expire, CommandWait,
             CloseListener, CloseConnection, Join
  <2> QED
      BY <2>1, Others
<1> USE DEF HandlerAt, PushInv, NotStarted, ListenerOf, Waits, GitRuns, Connections,
       NothingAsked, Answered, Moved, Routes, PushStates
<1>1. CASE ReplaceAll(p) \/ AddTags(p) \/ InstallFails(p)
  <2>1. PICK h \in {"add", "listen", "ended"} : push'[p] = [push[p] EXCEPT !.handler = h]
      BY <1>1, SetStep DEF ReplaceAll, AddTags, InstallFails
  <2> QED
      BY <1>0, <1>1, <2>1 DEF ReplaceAll, AddTags, InstallFails
<1>2. CASE StartSession(p)
  <2>1. StartedAt(push[p], push'[p]) /\ push[p].handler = "listen"
      BY <1>2, StartStep DEF StartSession
  <2> QED
      BY <1>0, <2>1 DEF StartedAt, SameWork
<1>3. CASE Expire(p) \/ CommandWait(p)
  <2>1. ExpiredAt(push[p], push'[p])
      BY <1>3, ExpiredStep
  <2> QED
      BY <1>0, <2>1 DEF ExpiredAt, SameWork
<1>4. CASE CloseListener(p)
  <2> DEFINE d == [m \in Modes |-> IF push[p].conn[m] = "queued" THEN "closed" ELSE push[p].conn[m]]
  <2>1. push'[p] = [push[p] EXCEPT !.handler = "closeConnection", !.listener = "closed",
                                   !.conn = d]
      BY <1>4, SetStep DEF CloseListener
  <2>2. \A m \in Modes : /\ d[m] # "queued"
                         /\ d[m] = "accepted" => push[p].conn[m] = "accepted"
                         /\ push[p].conn[m] = "none" => d[m] = "none"
      OBVIOUS
  <2> HIDE DEF d
  <2> QED
      BY <1>0, <1>4, <2>1, <2>2 DEF CloseListener
<1>5. CASE CloseConnection(p)
  <2> DEFINE d == IF push[p].current \in Modes THEN Closed(p, push[p].current) ELSE push[p].conn
  <2>1. push'[p] = [push[p] EXCEPT !.handler = "join", !.conn = d]
      BY <1>5, SetStep DEF CloseConnection
  <2>2. \A m \in Modes : /\ d[m] = "queued" => push[p].conn[m] = "queued"
                         /\ d[m] = "accepted" => push[p].conn[m] = "accepted"
                         /\ push[p].current = "none" => d[m] = push[p].conn[m]
      BY <1>a DEF Closed, Modes
  <2> HIDE DEF d
  <2> QED
      BY <1>0, <1>5, <2>1, <2>2 DEF CloseConnection
<1>6. CASE Join(p)
  <2>1. push'[p] = [push[p] EXCEPT !.handler = "ended", !.listener = "removed"]
      BY <1>6, SetStep DEF Join
  <2> QED
      BY <1>0, <1>6, <2>1 DEF Join
<1> QED
    BY <1>1, <1>2, <1>3, <1>4, <1>5, <1>6 DEF Handle

\* What git and its hooks leave alone.
SameServer(q, r) ==
    /\ r.handler = q.handler /\ r.listener = q.listener /\ r.serve = q.serve
    /\ r.serving = q.serving /\ r.current = q.current /\ r.results = q.results
    /\ r.outcome = q.outcome

GitTo(q, r, g, seen, moved, told, conn) ==
    /\ SameServer(q, r) /\ r.git = g /\ r.seen = seen /\ r.moved = moved
    /\ r.told = told /\ r.conn = conn

LEMMA GitFields ==
    ASSUME NEW q \in PushStates, NEW g, NEW s, NEW t
    PROVE  /\ GitTo(q, [q EXCEPT !.git = g], g, q.seen, q.moved, q.told, q.conn)
           /\ GitTo(q, [q EXCEPT !.git = g, !.seen = s], g, s, q.moved, q.told, q.conn)
           /\ GitTo(q, [q EXCEPT !.git = g, !.told = t], g, q.seen, q.moved, t, q.conn)
           /\ GitTo(q, [q EXCEPT !.git = g, !.moved = s], g, q.seen, s, q.told, q.conn)
           /\ GitTo(q, [q EXCEPT !.git = g, !.moved = s, !.told = t], g, q.seen, s, t,
                    q.conn)
           /\ GitTo(q, [q EXCEPT !.client = s], q.git, q.seen, q.moved, q.told, q.conn)
           /\ GitTo(q, [q EXCEPT !.client = s, !.conn = t], q.git, q.seen, q.moved,
                    q.told, t)
BY SMT DEF GitTo, SameServer, PushStates

LEMMA GitMoves ==
    ASSUME TypeOK, NEW p \in Pushes, NEW g, NEW s, NEW t
    PROVE  /\ Set(p, [push[p] EXCEPT !.git = g])
                => GitTo(push[p], push'[p], g, push[p].seen, push[p].moved, push[p].told,
                         push[p].conn)
           /\ Set(p, [push[p] EXCEPT !.git = g, !.seen = s])
                => GitTo(push[p], push'[p], g, s, push[p].moved, push[p].told, push[p].conn)
           /\ Set(p, [push[p] EXCEPT !.git = g, !.told = t])
                => GitTo(push[p], push'[p], g, push[p].seen, push[p].moved, t, push[p].conn)
           /\ Set(p, [push[p] EXCEPT !.git = g, !.moved = s])
                => GitTo(push[p], push'[p], g, push[p].seen, s, push[p].told, push[p].conn)
           /\ Set(p, [push[p] EXCEPT !.git = g, !.moved = s, !.told = t])
                => GitTo(push[p], push'[p], g, push[p].seen, s, t, push[p].conn)
           /\ Set(p, [push[p] EXCEPT !.client = s])
                => GitTo(push[p], push'[p], push[p].git, push[p].seen, push[p].moved,
                         push[p].told, push[p].conn)
           /\ Set(p, [push[p] EXCEPT !.client = s, !.conn = t])
                => GitTo(push[p], push'[p], push[p].git, push[p].seen, push[p].moved,
                         push[p].told, t)
<1>0. push[p] \in PushStates
    BY FieldTypes
<1>1. ASSUME Set(p, [push[p] EXCEPT !.git = g])
      PROVE  GitTo(push[p], push'[p], g, push[p].seen, push[p].moved, push[p].told,
                   push[p].conn)
  <2>1. push'[p] = [push[p] EXCEPT !.git = g]
      BY <1>1, SetStep, Zenon
  <2>2. GitTo(push[p], [push[p] EXCEPT !.git = g], g, push[p].seen, push[p].moved,
              push[p].told,
              push[p].conn)
      BY <1>0, GitFields, Zenon
  <2> QED
      BY <2>1, <2>2, Zenon
<1>2. ASSUME Set(p, [push[p] EXCEPT !.git = g, !.seen = s])
      PROVE  GitTo(push[p], push'[p], g, s, push[p].moved, push[p].told, push[p].conn)
  <2>1. push'[p] = [push[p] EXCEPT !.git = g, !.seen = s]
      BY <1>2, SetStep, Zenon
  <2>2. GitTo(push[p], [push[p] EXCEPT !.git = g, !.seen = s], g, s, push[p].moved,
              push[p].told,
              push[p].conn)
      BY <1>0, GitFields, Zenon
  <2> QED
      BY <2>1, <2>2, Zenon
<1>3. ASSUME Set(p, [push[p] EXCEPT !.git = g, !.told = t])
      PROVE  GitTo(push[p], push'[p], g, push[p].seen, push[p].moved, t, push[p].conn)
  <2>1. push'[p] = [push[p] EXCEPT !.git = g, !.told = t]
      BY <1>3, SetStep, Zenon
  <2>2. GitTo(push[p], [push[p] EXCEPT !.git = g, !.told = t], g, push[p].seen,
              push[p].moved, t,
              push[p].conn)
      BY <1>0, GitFields, Zenon
  <2> QED
      BY <2>1, <2>2, Zenon
<1>4. ASSUME Set(p, [push[p] EXCEPT !.git = g, !.moved = s])
      PROVE  GitTo(push[p], push'[p], g, push[p].seen, s, push[p].told, push[p].conn)
  <2>1. push'[p] = [push[p] EXCEPT !.git = g, !.moved = s]
      BY <1>4, SetStep, Zenon
  <2>2. GitTo(push[p], [push[p] EXCEPT !.git = g, !.moved = s], g, push[p].seen, s,
              push[p].told,
              push[p].conn)
      BY <1>0, GitFields, Zenon
  <2> QED
      BY <2>1, <2>2, Zenon
<1>5. ASSUME Set(p, [push[p] EXCEPT !.git = g, !.moved = s, !.told = t])
      PROVE  GitTo(push[p], push'[p], g, push[p].seen, s, t, push[p].conn)
  <2>1. push'[p] = [push[p] EXCEPT !.git = g, !.moved = s, !.told = t]
      BY <1>5, SetStep, Zenon
  <2>2. GitTo(push[p], [push[p] EXCEPT !.git = g, !.moved = s, !.told = t], g,
              push[p].seen, s,
              t, push[p].conn)
      BY <1>0, GitFields, Zenon
  <2> QED
      BY <2>1, <2>2, Zenon
<1>6. ASSUME Set(p, [push[p] EXCEPT !.client = s])
      PROVE  GitTo(push[p], push'[p], push[p].git, push[p].seen, push[p].moved,
                   push[p].told,
                   push[p].conn)
  <2>1. push'[p] = [push[p] EXCEPT !.client = s]
      BY <1>6, SetStep, Zenon
  <2>2. GitTo(push[p], [push[p] EXCEPT !.client = s], push[p].git, push[p].seen,
              push[p].moved,
              push[p].told, push[p].conn)
      BY <1>0, GitFields, Zenon
  <2> QED
      BY <2>1, <2>2, Zenon
<1>7. ASSUME Set(p, [push[p] EXCEPT !.client = s, !.conn = t])
      PROVE  GitTo(push[p], push'[p], push[p].git, push[p].seen, push[p].moved,
                   push[p].told, t)
  <2>1. push'[p] = [push[p] EXCEPT !.client = s, !.conn = t]
      BY <1>7, SetStep, Zenon
  <2>2. GitTo(push[p], [push[p] EXCEPT !.client = s, !.conn = t], push[p].git, push[p].seen,
              push[p].moved, push[p].told, t)
      BY <1>0, GitFields, Zenon
  <2> QED
      BY <2>1, <2>2, Zenon
<1> QED
    BY <1>1, <1>2, <1>3, <1>4, <1>5, <1>6, <1>7

\* A step of git or of a hook once the config is read: git may report what it
\* moved itself, and for the rest what the proc-receive hook was told.
GitStep(R, q, r) ==
    /\ SameServer(q, r) /\ r.seen = q.seen /\ q.moved \subseteq r.moved
    /\ q.git # "none" /\ r.git \notin {"none", "started"}
    /\ r.git \in {"pre", "proc", "own"} => q.git \in {"started", "pre", "proc", "own"}
    /\ \A k \in Kinds : r.told[k] = "ok" =>
           \/ q.told[k] = "ok" \/ k \notin q.seen
           \/ q.results = "ok" /\ k \in R

ConnStep(q, r) == \A m \in Modes :
    \/ r.conn[m] = q.conn[m]
    \/ r.conn[m] = "queued" /\ q.listener = "open"

LEMMA GitStepInv ==
    ASSUME TypeOK, NEW p \in Pushes, PushInv(p), GitStep(Routes(p), push[p], push'[p]),
           ConnStep(push[p], push'[p])
    PROVE  PushInv(p)'
<1>1. (NotStarted(p) /\ ListenerOf(p) /\ Waits(p) /\ Connections(p))'
    BY DEF GitStep, ConnStep, SameServer, PushInv, NotStarted, ListenerOf, Waits,
           Connections, GitRuns
<1>2. Answered(p)' /\ NothingAsked(p)'
    BY DEF GitStep, SameServer, PushInv, NothingAsked, Answered, Moved, Routes
<1> QED
    BY <1>1, <1>2 DEF PushInv

\* The git state g, the moved refs M and the report t may come next.
GitAllowed(p, g, M, t) ==
    /\ push[p].moved \subseteq M
    /\ push[p].git # "none" /\ g \notin {"none", "started"}
    /\ g \in {"pre", "proc", "own"} => GitRuns(p)
    /\ \A k \in Kinds : t[k] = "ok" =>
           \/ push[p].told[k] = "ok" \/ k \notin push[p].seen
           \/ push[p].results = "ok" /\ k \in Routes(p)

LEMMA GitInv ==
    ASSUME TypeOK, NEW p \in Pushes, \A q \in Pushes : PushInv(q), Git(p)
    PROVE  \A q \in Pushes : PushInv(q)'
<1>0. push[p] \in PushStates /\ PushInv(p)
    BY FieldTypes
<1>a. push[p].conn \in [Modes -> {"none", "queued", "accepted", "closed"}]
    BY FieldTypes
<1> SUFFICES PushInv(p)'
  <2>1. \E q : Set(p, q)
      BY DEF Git, ReadConfig, GitFails, AfterPre, AfterProc, MoveOwn, Kill, HookConnects,
             HookSends, HookCut
  <2> QED
      BY <2>1, Others
<1>1. CASE ReadConfig(p) \/ GitFails(p)
  <2>1. \/ Set(p, [push[p] EXCEPT !.git = "pre", !.seen = routed])
        \/ Set(p, [push[p] EXCEPT !.git = "exited"])
      BY <1>1, Zenon DEF ReadConfig, GitFails
  <2>2. PICK g \in {"pre", "exited"} :
          \E s : GitTo(push[p], push'[p], g, s, push[p].moved, push[p].told, push[p].conn)
      BY <2>1, GitMoves, Zenon
  <2>3. push[p].git = "started"
      BY <1>1 DEF ReadConfig, GitFails, GitAt
  <2> QED
      BY <1>0, <2>2, <2>3 DEF GitTo, SameServer, PushInv, NotStarted, ListenerOf, Waits,
         Connections, GitRuns, NothingAsked, Answered
<1>b. ASSUME NEW g, NEW M, NEW t, GitAllowed(p, g, M, t),
             GitTo(push[p], push'[p], g, push[p].seen, M, t, push[p].conn)
      PROVE  PushInv(p)'
  <2>1. SameServer(push[p], push'[p])
      BY <1>b DEF GitTo
  <2>2. /\ push'[p].git = g /\ push'[p].seen = push[p].seen /\ push'[p].moved = M
        /\ push'[p].told = t /\ push'[p].conn = push[p].conn
      BY <1>b DEF GitTo
  <2>3. GitStep(Routes(p), push[p], push'[p])
      BY <1>b, <2>1, <2>2 DEF GitStep, GitAllowed, GitRuns
  <2>4. ConnStep(push[p], push'[p])
      BY <2>2 DEF ConnStep
  <2> QED
      BY <1>0, <2>3, <2>4, GitStepInv
<1>2. CASE AfterPre(p)
  <2>1. push[p].git = "pre"
      BY <1>2 DEF AfterPre, GitAt
  <2>2. CASE \E g \in {"proc", "own"} : Set(p, [push[p] EXCEPT !.git = g])
    <3>1. PICK g \in {"proc", "own"} :
            GitTo(push[p], push'[p], g, push[p].seen, push[p].moved, push[p].told,
                  push[p].conn)
        BY <2>2, GitMoves, Zenon
    <3>2. GitAllowed(p, g, push[p].moved, push[p].told)
        BY <2>1, <3>1 DEF GitAllowed, GitRuns
    <3> QED
        BY <1>b, <3>1, <3>2, Zenon
  <2>3. CASE Set(p, [push[p] EXCEPT !.git = "exited", !.told = Report(p, Commands[p], {})])
    <3>1. PICK t : t = Report(p, Commands[p], {})
        OBVIOUS
    <3>2. GitTo(push[p], push'[p], "exited", push[p].seen, push[p].moved, t, push[p].conn)
        BY <2>3, <3>1, GitMoves, Zenon
    <3>3. \A k \in Kinds : t[k] = "ok" => push[p].told[k] = "ok"
        BY <3>1 DEF Report
    <3>4. GitAllowed(p, "exited", push[p].moved, t)
        BY <2>1, <3>2, <3>3 DEF GitAllowed, GitRuns
    <3> QED
        BY <1>b, <3>2, <3>4, Zenon
  <2> QED
      BY <1>2, <2>2, <2>3, Zenon DEF AfterPre
<1>3. CASE AfterProc(p)
  <2>1. PICK t : /\ \A k \in Kinds : t[k] = "ok" =>
                        \/ push[p].told[k] = "ok"
                        \/ push[p].results = "ok" /\ k \in Routes(p)
                 /\ Set(p, [push[p] EXCEPT !.git = "own", !.told = t])
      BY <1>3 DEF AfterProc, Report
  <2>2. GitTo(push[p], push'[p], "own", push[p].seen, push[p].moved, t, push[p].conn)
      BY <2>1, GitMoves, Zenon
  <2>3. push[p].git = "proc"
      BY <1>3 DEF AfterProc, GitAt
  <2>4. GitAllowed(p, "own", push[p].moved, t)
      BY <2>1, <2>2, <2>3 DEF GitAllowed, GitRuns
  <2> QED
      BY <1>b, <2>2, <2>4, Zenon
<1>4. CASE MoveOwn(p)
  <2>1. PICK M \in SUBSET Own(p) : Set(p, [push[p] EXCEPT !.git = "exited", !.moved = @ \cup M,
                                                          !.told = Report(p, Own(p), M)])
      BY <1>4 DEF MoveOwn
  <2>2. PICK t, N : t = Report(p, Own(p), M) /\ N = push[p].moved \cup M
      OBVIOUS
  <2>3. GitTo(push[p], push'[p], "exited", push[p].seen, N, t, push[p].conn)
      BY <2>1, <2>2, GitMoves, Zenon
  <2>4. \A k \in Kinds : t[k] = "ok" => push[p].told[k] = "ok" \/ k \notin push[p].seen
      BY <2>2 DEF Report, Own
  <2>5. push[p].git = "own"
      BY <1>4 DEF MoveOwn, GitAt
  <2>6. GitAllowed(p, "exited", N, t)
      BY <2>2, <2>3, <2>4, <2>5 DEF GitAllowed
  <2> QED
      BY <1>b, <2>3, <2>6, Zenon
<1>5. CASE Kill(p)
  <2>1. PICK M : Set(p, [push[p] EXCEPT !.git = "killed", !.moved = @ \cup M])
      BY <1>5 DEF Kill
  <2>2. PICK N : N = push[p].moved \cup M
      OBVIOUS
  <2>3. GitTo(push[p], push'[p], "killed", push[p].seen, N, push[p].told, push[p].conn)
      BY <2>1, <2>2, GitMoves, Zenon
  <2>4. push[p].git # "none"
      BY <1>5 DEF Kill, GitRuns
  <2>5. GitAllowed(p, "killed", N, push[p].told)
      BY <2>2, <2>3, <2>4 DEF GitAllowed
  <2> QED
      BY <1>b, <2>3, <2>5, Zenon
<1>6. ASSUME NEW m \in Modes, HookConnects(p, m) \/ HookSends(p, m) \/ HookCut(p, m)
      PROVE  PushInv(p)'
  <2>1. push[p].git \in {"pre", "proc", "killed"}
      BY <1>6 DEF HookConnects, HookSends, HookCut, GitAt, Modes
  <2>2. CASE \E c : Set(p, [push[p] EXCEPT !.client = c])
    <3>1. GitTo(push[p], push'[p], push[p].git, push[p].seen, push[p].moved, push[p].told,
                push[p].conn)
        BY <2>2, GitMoves, Zenon
    <3>2. GitAllowed(p, push[p].git, push[p].moved, push[p].told)
        BY <2>1, <3>1 DEF GitAllowed, GitRuns
    <3> QED
        BY <1>b, <3>1, <3>2, Zenon
  <2>3. CASE HookConnects(p, m) /\ push[p].listener = "open"
    <3>1. PICK d : d = [push[p].conn EXCEPT ![m] = "queued"]
        OBVIOUS
    <3>2. PICK c : Set(p, [push[p] EXCEPT !.client = c, !.conn = d])
        BY <2>3, <3>1 DEF HookConnects
    <3>3. GitTo(push[p], push'[p], push[p].git, push[p].seen, push[p].moved,
                push[p].told, d)
        BY <3>2, GitMoves, Zenon
    <3>4. \A n \in Modes : d[n] = push[p].conn[n] \/ d[n] = "queued"
        BY <1>a, <3>1
    <3>5. GitStep(Routes(p), push[p], push'[p]) /\ ConnStep(push[p], push'[p])
        BY <2>1, <2>3, <3>3, <3>4 DEF GitStep, ConnStep, GitTo, SameServer
    <3> QED
        BY <1>0, <3>5, GitStepInv
  <2> QED
      BY <1>6, <2>2, <2>3, Zenon DEF HookConnects, HookSends, HookCut
<1> QED
    BY <1>1, <1>2, <1>3, <1>4, <1>5, <1>6 DEF Git

\* What the goroutine of the server leaves alone, and what it sets.
ServeTo(q, r, serve, serving, current, conn, results, moved, outcome) ==
    /\ r.handler = q.handler /\ r.listener = q.listener
    /\ r.git = q.git /\ r.seen = q.seen /\ r.told = q.told
    /\ r.serve = serve /\ r.serving = serving /\ r.current = current /\ r.conn = conn
    /\ r.results = results /\ r.moved = moved /\ r.outcome = outcome

LEMMA ServeFields ==
    ASSUME NEW q \in PushStates, NEW s, NEW v, NEW c
    PROVE  /\ ServeTo(q, [q EXCEPT !.serve = s, !.serving = v, !.conn = c],
                      s, v, q.current, c, q.results, q.moved, q.outcome)
           /\ ServeTo(q, [q EXCEPT !.serve = s],
                      s, q.serving, q.current, q.conn, q.results, q.moved, q.outcome)
           /\ ServeTo(q, [q EXCEPT !.serve = s, !.current = v],
                      s, q.serving, v, q.conn, q.results, q.moved, q.outcome)
           /\ ServeTo(q, [q EXCEPT !.serve = s, !.moved = v],
                      s, q.serving, q.current, q.conn, q.results, v, q.outcome)
           /\ ServeTo(q, [q EXCEPT !.serve = s, !.outcome = v],
                      s, q.serving, q.current, q.conn, q.results, q.moved, v)
           /\ ServeTo(q, [[q EXCEPT !.serve = s] EXCEPT !.current = "none", !.conn = c],
                      s, q.serving, "none", c, q.results, q.moved, q.outcome)
           /\ ServeTo(q, [[q EXCEPT !.serve = s, !.results = v]
                            EXCEPT !.current = "none", !.conn = c],
                      s, q.serving, "none", c, v, q.moved, q.outcome)
BY SMT DEF ServeTo, PushStates

LEMMA ServeMoves ==
    ASSUME TypeOK, NEW p \in Pushes, NEW s, NEW v, NEW c
    PROVE  /\ Set(p, [push[p] EXCEPT !.serve = s, !.serving = v, !.conn = c])
                => ServeTo(push[p], push'[p],
                           s, v, push[p].current, c, push[p].results, push[p].moved,
                           push[p].outcome)
           /\ Set(p, [push[p] EXCEPT !.serve = s])
                => ServeTo(push[p], push'[p],
                           s, push[p].serving, push[p].current, push[p].conn,
                           push[p].results, push[p].moved, push[p].outcome)
           /\ Set(p, [push[p] EXCEPT !.serve = s, !.current = v])
                => ServeTo(push[p], push'[p],
                           s, push[p].serving, v, push[p].conn, push[p].results,
                           push[p].moved, push[p].outcome)
           /\ Set(p, [push[p] EXCEPT !.serve = s, !.moved = v])
                => ServeTo(push[p], push'[p],
                           s, push[p].serving, push[p].current, push[p].conn,
                           push[p].results, v, push[p].outcome)
           /\ Set(p, [push[p] EXCEPT !.serve = s, !.outcome = v])
                => ServeTo(push[p], push'[p],
                           s, push[p].serving, push[p].current, push[p].conn,
                           push[p].results, push[p].moved, v)
           /\ Set(p, [[push[p] EXCEPT !.serve = s] EXCEPT !.current = "none", !.conn = c])
                => ServeTo(push[p], push'[p],
                           s, push[p].serving, "none", c, push[p].results, push[p].moved,
                           push[p].outcome)
           /\ Set(p, [[push[p]
                        EXCEPT !.serve = s, !.results = v] EXCEPT !.current = "none", !.conn = c])
                => ServeTo(push[p], push'[p],
                           s, push[p].serving, "none", c, v, push[p].moved, push[p].outcome)
<1>0. push[p] \in PushStates
    BY FieldTypes
<1>1. ASSUME Set(p, [push[p] EXCEPT !.serve = s, !.serving = v, !.conn = c])
      PROVE  ServeTo(push[p], push'[p],
                     s, v, push[p].current, c, push[p].results, push[p].moved, push[p].outcome)
  <2>1. push'[p] = [push[p] EXCEPT !.serve = s, !.serving = v, !.conn = c]
      BY <1>1, SetStep, Zenon
  <2>2. ServeTo(push[p], [push[p] EXCEPT !.serve = s, !.serving = v, !.conn = c],
                    s, v, push[p].current, c, push[p].results, push[p].moved, push[p].outcome)
      BY <1>0, ServeFields, Zenon
  <2> QED
      BY <2>1, <2>2, Zenon
<1>2. ASSUME Set(p, [push[p] EXCEPT !.serve = s])
      PROVE  ServeTo(push[p], push'[p],
                     s, push[p].serving, push[p].current, push[p].conn, push[p].results,
                     push[p].moved, push[p].outcome)
  <2>1. push'[p] = [push[p] EXCEPT !.serve = s]
      BY <1>2, SetStep, Zenon
  <2>2. ServeTo(push[p], [push[p] EXCEPT !.serve = s],
                    s, push[p].serving, push[p].current, push[p].conn, push[p].results,
                    push[p].moved, push[p].outcome)
      BY <1>0, ServeFields, Zenon
  <2> QED
      BY <2>1, <2>2, Zenon
<1>3. ASSUME Set(p, [push[p] EXCEPT !.serve = s, !.current = v])
      PROVE  ServeTo(push[p], push'[p],
                     s, push[p].serving, v, push[p].conn, push[p].results, push[p].moved,
                     push[p].outcome)
  <2>1. push'[p] = [push[p] EXCEPT !.serve = s, !.current = v]
      BY <1>3, SetStep, Zenon
  <2>2. ServeTo(push[p], [push[p] EXCEPT !.serve = s, !.current = v],
                    s, push[p].serving, v, push[p].conn, push[p].results, push[p].moved,
                    push[p].outcome)
      BY <1>0, ServeFields, Zenon
  <2> QED
      BY <2>1, <2>2, Zenon
<1>4. ASSUME Set(p, [push[p] EXCEPT !.serve = s, !.moved = v])
      PROVE  ServeTo(push[p], push'[p],
                     s, push[p].serving, push[p].current, push[p].conn, push[p].results, v,
                     push[p].outcome)
  <2>1. push'[p] = [push[p] EXCEPT !.serve = s, !.moved = v]
      BY <1>4, SetStep, Zenon
  <2>2. ServeTo(push[p], [push[p] EXCEPT !.serve = s, !.moved = v],
                    s, push[p].serving, push[p].current, push[p].conn, push[p].results, v,
                    push[p].outcome)
      BY <1>0, ServeFields, Zenon
  <2> QED
      BY <2>1, <2>2, Zenon
<1>5. ASSUME Set(p, [push[p] EXCEPT !.serve = s, !.outcome = v])
      PROVE  ServeTo(push[p], push'[p],
                     s, push[p].serving, push[p].current, push[p].conn, push[p].results,
                     push[p].moved, v)
  <2>1. push'[p] = [push[p] EXCEPT !.serve = s, !.outcome = v]
      BY <1>5, SetStep, Zenon
  <2>2. ServeTo(push[p], [push[p] EXCEPT !.serve = s, !.outcome = v],
                    s, push[p].serving, push[p].current, push[p].conn, push[p].results,
                    push[p].moved, v)
      BY <1>0, ServeFields, Zenon
  <2> QED
      BY <2>1, <2>2, Zenon
<1>6. ASSUME Set(p, [[push[p] EXCEPT !.serve = s] EXCEPT !.current = "none", !.conn = c])
      PROVE  ServeTo(push[p], push'[p],
                     s, push[p].serving, "none", c, push[p].results, push[p].moved,
                     push[p].outcome)
  <2>1. push'[p] = [[push[p] EXCEPT !.serve = s] EXCEPT !.current = "none", !.conn = c]
      BY <1>6, SetStep, Zenon
  <2>2. ServeTo(push[p], [[push[p] EXCEPT !.serve = s] EXCEPT !.current = "none",
                !.conn = c],
                    s, push[p].serving, "none", c, push[p].results, push[p].moved,
                    push[p].outcome)
      BY <1>0, ServeFields, Zenon
  <2> QED
      BY <2>1, <2>2, Zenon
<1>7. ASSUME Set(p, [[push[p]
                       EXCEPT !.serve = s, !.results = v] EXCEPT !.current = "none", !.conn = c])
      PROVE  ServeTo(push[p], push'[p],
                     s, push[p].serving, "none", c, v, push[p].moved, push[p].outcome)
  <2>1. push'[p] = [[push[p]
                      EXCEPT !.serve = s, !.results = v] EXCEPT !.current = "none", !.conn = c]
      BY <1>7, SetStep, Zenon
  <2>2. ServeTo(push[p], [[push[p]
                            EXCEPT !.serve = s, !.results = v] EXCEPT !.current = "none", !.conn = c],
                    s, push[p].serving, "none", c, v, push[p].moved, push[p].outcome)
      BY <1>0, ServeFields, Zenon
  <2> QED
      BY <2>1, <2>2, Zenon
<1> QED
    BY <1>1, <1>2, <1>3, <1>4, <1>5, <1>6, <1>7

\* What the goroutine may set next: it answers ok, or lets git know, only when
\* the batch has completed, and it ends with no connection left.
ServeAllowed(p, serve, serving, current, conn, results, moved, outcome) ==
    /\ push[p].serve \notin {"none", "returned"}
    /\ push[p].git \in {"none", "started"} =>
           /\ serve = "returned" /\ current = "none" /\ results = "none"
           /\ conn = push[p].conn
    /\ \A m \in Modes :
           /\ conn[m] = "queued" => push[p].conn[m] = "queued"
           /\ conn[m] = "accepted" => serving = m /\ serve \notin {"none", "accept", "returned"}
    /\ serve = "ok" \/ results = "ok" => outcome = "completed" /\ Routes(p) \subseteq moved
    /\ results = "ok" => serve = "returned"

LEMMA ServeStepInv ==
    ASSUME TypeOK, NEW p \in Pushes, PushInv(p),
           NEW s, NEW v, NEW u, NEW c, NEW x, NEW M, NEW o, ServeAllowed(p, s, v, u, c,
                                                                         x, M, o),
           ServeTo(push[p], push'[p], s, v, u, c, x, M, o)
    PROVE  PushInv(p)'
<1>1. (NotStarted(p) /\ ListenerOf(p) /\ Waits(p) /\ Connections(p))'
    BY DEF ServeTo, ServeAllowed, PushInv, NotStarted, ListenerOf, Waits, Connections,
           GitRuns
<1>2. NothingAsked(p)'
    BY DEF ServeTo, ServeAllowed, PushInv, NothingAsked
<1>3. Answered(p)'
    BY DEF ServeTo, ServeAllowed, PushInv, Answered, Moved, Routes
<1> QED
    BY <1>1, <1>2, <1>3 DEF PushInv

LEMMA ServeInv ==
    ASSUME TypeOK, NEW p \in Pushes, \A q \in Pushes : PushInv(q), Serve(p)
    PROVE  \A q \in Pushes : PushInv(q)'
<1>0. PushInv(p) /\ push[p].conn \in ConnStates /\ push[p].serving \in Modes \cup {"none"}
    BY FieldTypes DEF ConnStates, PushStates
<1> SUFFICES PushInv(p)'
  <2>1. \E q : Set(p, q)
      BY DEF Serve, Accept, AcceptFails, SetConnection, CheckContext, EndDiscard,
             ReadRequest, ReadFails, Open, OpenFails, PrepareRejects, PrepareAdmits,
             UpdateRefs, Finalize,
             WriteResults, Drop
  <2> QED
      BY <2>1, Others
<1>1. CASE Accept(p)
  <2>1. PICK m, c :
          /\ m \in Modes /\ push[p].conn[m] = "queued"
          /\ c = [push[p].conn EXCEPT ![m] = "accepted"]
          /\ Set(p, [push[p] EXCEPT !.serve = "accepted", !.serving = m, !.conn = c])
      BY <1>1 DEF Accept
  <2>2. ServeTo(push[p], push'[p], "accepted", m, push[p].current, c, push[p].results,
                push[p].moved, push[p].outcome)
      BY <2>1, ServeMoves, Zenon
  <2>3. ServeAllowed(p, "accepted", m, push[p].current, c, push[p].results,
                     push[p].moved, push[p].outcome)
      BY <1>0, <1>1, <2>1
         DEF Accept, ServeAt, ConnStates, ServeAllowed, PushInv, Connections,
             NothingAsked, Answered, Moved
  <2> QED
      BY <1>0, <2>2, <2>3, ServeStepInv, Zenon
<1>2. CASE AcceptFails(p)
  <2>1. Set(p, [push[p] EXCEPT !.serve = "returned"])
      BY <1>2 DEF AcceptFails
  <2>2. ServeTo(push[p], push'[p], "returned", push[p].serving, push[p].current,
                push[p].conn, push[p].results, push[p].moved, push[p].outcome)
      BY <2>1, ServeMoves, Zenon
  <2>3. ServeAllowed(p, "returned", push[p].serving, push[p].current, push[p].conn,
                     push[p].results, push[p].moved, push[p].outcome)
      BY <1>0, <1>2
         DEF AcceptFails, ServeAt, ServeAllowed, PushInv, Connections, NothingAsked,
             Answered, Moved
  <2> QED
      BY <1>0, <2>2, <2>3, ServeStepInv, Zenon
<1>3. CASE SetConnection(p)
  <2>1. Set(p, [push[p] EXCEPT !.serve = "check", !.current = push[p].serving])
      BY <1>3 DEF SetConnection
  <2>2. ServeTo(push[p], push'[p], "check", push[p].serving, push[p].serving,
                push[p].conn, push[p].results, push[p].moved, push[p].outcome)
      BY <2>1, ServeMoves, Zenon
  <2>3. ServeAllowed(p, "check", push[p].serving, push[p].serving, push[p].conn,
                     push[p].results, push[p].moved, push[p].outcome)
      BY <1>0, <1>3
         DEF SetConnection, ServeAt, ServeAllowed, PushInv, Connections, NothingAsked,
             Answered, Moved
  <2> QED
      BY <1>0, <2>2, <2>3, ServeStepInv, Zenon
\* A connection that is given up is closed and the goroutine goes on.
<1>d. ASSUME NEW s \in {"accept", "returned"}, Drop(p, [push[p] EXCEPT !.serve = s]),
             push[p].serve \in {"check", "discard", "request"}
      PROVE  PushInv(p)'
  <2>1. PICK c : c = [push[p].conn EXCEPT ![push[p].serving] = "closed"]
      OBVIOUS
  <2>2. Set(p, [[push[p] EXCEPT !.serve = s] EXCEPT !.current = "none", !.conn = c])
      BY <1>d, <2>1, Zenon DEF Drop, Closed
  <2>3. ServeTo(push[p], push'[p], s, push[p].serving, "none", c, push[p].results,
                push[p].moved, push[p].outcome)
      BY <2>2, ServeMoves, Zenon
  <2>4. ServeAllowed(p, s, push[p].serving, "none", c, push[p].results, push[p].moved,
                     push[p].outcome)
      BY <1>0, <1>d, <2>1
         DEF ConnStates, ServeAllowed, PushInv, Connections, NothingAsked, Answered, Moved
  <2> QED
      BY <1>0, <2>3, <2>4, ServeStepInv, Zenon
<1>4. CASE CheckContext(p)
  <2>1. CASE push[p].expired
      BY <1>4, <1>d, <2>1 DEF CheckContext, ServeAt
  <2>2. CASE ~push[p].expired
    <3>1. PICK s \in {"discard", "request"} : Set(p, [push[p] EXCEPT !.serve = s])
        BY <1>4, <2>2 DEF CheckContext
    <3>2. ServeTo(push[p], push'[p], s, push[p].serving, push[p].current, push[p].conn,
                  push[p].results, push[p].moved, push[p].outcome)
        BY <3>1, ServeMoves, Zenon
    <3>3. ServeAllowed(p, s, push[p].serving, push[p].current, push[p].conn,
                       push[p].results, push[p].moved, push[p].outcome)
        BY <1>0, <1>4
           DEF CheckContext, ServeAt, ServeAllowed, PushInv, Connections, NothingAsked,
               Answered, Moved
    <3> QED
        BY <1>0, <3>2, <3>3, ServeStepInv, Zenon
  <2> QED
      BY <2>1, <2>2
<1>5. CASE EndDiscard(p) \/ ReadFails(p)
  <2>1. push[p].serve \in {"discard", "request"}
      BY <1>5 DEF EndDiscard, ReadFails, ServeAt
  <2>2. \E s \in {"accept", "returned"} : Drop(p, [push[p] EXCEPT !.serve = s])
      BY <1>5, Zenon DEF EndDiscard, ReadFails
  <2> QED
      BY <1>d, <2>1, <2>2
\* Between the request and Finalize only the state of the goroutine moves.
<1>6. CASE ReadRequest(p) \/ Open(p) \/ OpenFails(p) \/ PrepareRejects(p) \/ PrepareAdmits(p)
  <2>1. PICK s \in {"open", "prepare", "ng", "update"} : Set(p, [push[p] EXCEPT !.serve = s])
      BY <1>6 DEF ReadRequest, Open, OpenFails, PrepareRejects, PrepareAdmits
  <2>2. push[p].serve \in {"request", "open", "prepare"}
      BY <1>6 DEF ReadRequest, Open, OpenFails, PrepareRejects, PrepareAdmits, ServeAt
  <2>3. ServeTo(push[p], push'[p], s, push[p].serving, push[p].current, push[p].conn,
                push[p].results, push[p].moved, push[p].outcome)
      BY <2>1, ServeMoves, Zenon
  <2>4. ServeAllowed(p, s, push[p].serving, push[p].current, push[p].conn,
                     push[p].results, push[p].moved, push[p].outcome)
      BY <1>0, <2>2
         DEF ServeStates, ServeAllowed, PushInv, Connections, NothingAsked, Answered, Moved
  <2> QED
      BY <1>0, <2>3, <2>4, ServeStepInv, Zenon
<1>7. CASE UpdateRefs(p)
  <2>1. PICK M : Set(p, [push[p] EXCEPT !.serve = "finalize", !.moved = M])
      BY <1>7 DEF UpdateRefs
  <2>2. ServeTo(push[p], push'[p], "finalize", push[p].serving, push[p].current,
                push[p].conn, push[p].results, M, push[p].outcome)
      BY <2>1, ServeMoves, Zenon
  <2>3. ServeAllowed(p, "finalize", push[p].serving, push[p].current, push[p].conn,
                     push[p].results, M, push[p].outcome)
      BY <1>0, <1>7
         DEF UpdateRefs, ServeAt, ServeAllowed, PushInv, Connections, NothingAsked,
             Answered, Moved
  <2> QED
      BY <1>0, <2>2, <2>3, ServeStepInv, Zenon
<1>8. CASE Finalize(p)
  <2>1. PICK o \in {Resolution(p), "failed"} : \E s \in Answers(p, o) :
          Set(p, [push[p] EXCEPT !.serve = s, !.outcome = o])
      BY <1>8 DEF Finalize
  <2>2. PICK s \in Answers(p, o) : Set(p, [push[p] EXCEPT !.serve = s, !.outcome = o])
      BY <2>1
  <2>3. /\ s \in {"ok", "ng", "broken"}
        /\ s = "ok" => o = "completed" /\ Routes(p) \subseteq push[p].moved
      BY <2>1, <2>2 DEF Answers, Resolution
  <2>4. ServeTo(push[p], push'[p], s, push[p].serving, push[p].current, push[p].conn,
                push[p].results, push[p].moved, o)
      BY <2>2, ServeMoves, Zenon
  <2>5. ServeAllowed(p, s, push[p].serving, push[p].current, push[p].conn,
                     push[p].results, push[p].moved, o)
      BY <1>0, <1>8, <2>3
         DEF Finalize, ServeAllowed, PushInv, Connections, NothingAsked, Answered, Moved
  <2> QED
      BY <1>0, <2>4, <2>5, ServeStepInv, Zenon
<1>9. CASE WriteResults(p)
  <2>1. push[p].serve \in {"ok", "ng", "broken"}
      BY <1>9 DEF WriteResults, ServeAt
  <2>2. PICK v, c :
          /\ v \in {"none", "ok", "ng"} /\ (v = "ok" => push[p].serve = "ok")
          /\ c = [push[p].conn EXCEPT ![push[p].serving] = "closed"]
          /\ Set(p, [[push[p] EXCEPT !.serve = "returned", !.results = v]
                        EXCEPT !.current = "none", !.conn = c])
    <3>1. PICK v : /\ v = IF push[p].serve # "broken" /\ Readable(p) THEN push[p].serve ELSE "none"
                   /\ Drop(p, [push[p] EXCEPT !.serve = "returned", !.results = v])
        BY <1>9, Zenon DEF WriteResults
    <3> QED
        BY <2>1, <3>1, Zenon DEF Drop, Closed
  <2>3. ServeTo(push[p], push'[p], "returned", push[p].serving, "none", c, v,
                push[p].moved, push[p].outcome)
      BY <2>2, ServeMoves, Zenon
  <2>4. ServeAllowed(p, "returned", push[p].serving, "none", c, v, push[p].moved,
                     push[p].outcome)
      BY <1>0, <2>1, <2>2
         DEF ConnStates, ServeAllowed, PushInv, Connections, NothingAsked, Answered, Moved
  <2> QED
      BY <1>0, <2>3, <2>4, ServeStepInv, Zenon
<1> QED
    BY <1>1, <1>2, <1>3, <1>4, <1>5, <1>6, <1>7, <1>8, <1>9 DEF Serve

-----------------------------------------------------------------------------
(* The lock.                                                               *)

\* Only the goroutine moves its own state, once the session has started it.
LEMMA HandleKeepsServe ==
    ASSUME TypeOK, NEW p \in Pushes, PushInv(p), Handle(p) \/ InstallFails(p) \/ Expire(p)
    PROVE  push'[p].serve = push[p].serve \/ push[p].serve = "none"
<1>0. push[p] \in PushStates
    BY FieldTypes
<1>1. CASE StartSession(p)
    BY <1>1 DEF StartSession, HandlerAt, PushInv, NotStarted
<1>2. CASE Expire(p) \/ CommandWait(p)
    BY <1>2, ExpiredStep DEF ExpiredAt
<1>3. CASE ReplaceAll(p) \/ AddTags(p) \/ InstallFails(p)
  <2>1. PICK h : push'[p] = [push[p] EXCEPT !.handler = h]
      BY <1>3, SetStep DEF ReplaceAll, AddTags, InstallFails
  <2> QED
      BY <1>0, <2>1 DEF PushStates
<1>4. CASE CloseListener(p)
  <2>1. PICK c : push'[p] = [push[p] EXCEPT !.handler = "closeConnection", !.listener = "closed",
                                            !.conn = c]
      BY <1>4, SetStep DEF CloseListener
  <2> QED
      BY <1>0, <2>1 DEF PushStates
<1>5. CASE CloseConnection(p)
  <2>1. PICK c : push'[p] = [push[p] EXCEPT !.handler = "join", !.conn = c]
      BY <1>5, SetStep DEF CloseConnection
  <2> QED
      BY <1>0, <2>1 DEF PushStates
<1>6. CASE Join(p)
  <2>1. push'[p] = [push[p] EXCEPT !.handler = "ended", !.listener = "removed"]
      BY <1>6, SetStep DEF Join
  <2> QED
      BY <1>0, <2>1 DEF PushStates
<1> QED
    BY <1>1, <1>2, <1>3, <1>4, <1>5, <1>6 DEF Handle

LEMMA GitKeepsServe ==
    ASSUME TypeOK, NEW p \in Pushes, Git(p)
    PROVE  push'[p].serve = push[p].serve
<1>1. \/ \E g : Set(p, [push[p] EXCEPT !.git = g])
      \/ \E g, s : Set(p, [push[p] EXCEPT !.git = g, !.seen = s])
      \/ \E g, t : Set(p, [push[p] EXCEPT !.git = g, !.told = t])
      \/ \E g, s : Set(p, [push[p] EXCEPT !.git = g, !.moved = s])
      \/ \E g, s, t : Set(p, [push[p] EXCEPT !.git = g, !.moved = s, !.told = t])
      \/ \E s : Set(p, [push[p] EXCEPT !.client = s])
      \/ \E s, t : Set(p, [push[p] EXCEPT !.client = s, !.conn = t])
    BY Zenon DEF Git, ReadConfig, GitFails, AfterPre, AfterProc, MoveOwn, Kill,
                 HookConnects,
       HookSends, HookCut
<1>2. ASSUME NEW g, NEW s, NEW t
      PROVE  /\ Set(p, [push[p] EXCEPT !.git = g]) => push'[p].serve = push[p].serve
             /\ Set(p, [push[p] EXCEPT !.git = g, !.seen = s]) => push'[p].serve = push[p].serve
             /\ Set(p, [push[p] EXCEPT !.git = g, !.told = t]) => push'[p].serve = push[p].serve
             /\ Set(p, [push[p] EXCEPT !.git = g, !.moved = s]) => push'[p].serve = push[p].serve
             /\ Set(p, [push[p] EXCEPT !.git = g, !.moved = s, !.told = t])
                  => push'[p].serve = push[p].serve
             /\ Set(p, [push[p] EXCEPT !.client = s]) => push'[p].serve = push[p].serve
             /\ Set(p, [push[p] EXCEPT !.client = s, !.conn = t])
                  => push'[p].serve = push[p].serve
    BY GitMoves, Zenon DEF GitTo, SameServer
<1> QED
    BY <1>1, <1>2, Zenon

LEMMA LockStep ==
    ASSUME NoOps = {}, HookInv, LockInv, [Next]_vars
    PROVE  LockInv'
<1> USE DEF LockInv
<1>0. TypeOK /\ \A p \in Pushes : PushInv(p)
    BY DEF HookInv
<1>a. ASSUME NEW p \in Pushes, NEW r, Set(p, r), holder' \in {holder, p, Nobody},
             holder' = p => push'[p].serve \in {"prepare", "update", "finalize"}
      PROVE  LockInv'
    BY <1>0, <1>a, SetStep, PushAssumption
<1>1. ASSUME NEW p \in Pushes, Handle(p) \/ InstallFails(p) \/ Expire(p)
      PROVE  LockInv'
  <2>1. PICK r : Set(p, r)
      BY <1>1 DEF Handle, ReplaceAll, AddTags, InstallFails, StartSession, Expire,
                  CommandWait,
             CloseListener, CloseConnection, Join
  <2>2. holder' = holder
      BY <1>1 DEF Handle, ReplaceAll, AddTags, InstallFails, StartSession, Expire,
                  CommandWait,
             CloseListener, CloseConnection, Join, HandlerAt
  <2> QED
      BY <1>0, <1>1, <1>a, <2>1, <2>2, HandleKeepsServe
<1>2. ASSUME NEW p \in Pushes, Git(p)
      PROVE  LockInv'
  <2>1. PICK r : Set(p, r)
      BY <1>2 DEF Git, ReadConfig, GitFails, AfterPre, AfterProc, MoveOwn, Kill,
                  HookConnects,
             HookSends, HookCut
  <2>2. holder' = holder
      BY <1>2 DEF Git, ReadConfig, GitFails, AfterPre, AfterProc, MoveOwn, Kill,
                  HookConnects,
             HookSends, HookCut, GitAt
  <2> QED
      BY <1>0, <1>2, <1>a, <2>1, <2>2, GitKeepsServe
<1>3. ASSUME NEW p \in Pushes, Serve(p)
      PROVE  LockInv'
  <2>1. PICK r : Set(p, r)
      BY <1>3 DEF Serve, Accept, AcceptFails, SetConnection, CheckContext, EndDiscard,
                  ReadRequest,
             ReadFails, Open, OpenFails, PrepareRejects, PrepareAdmits, UpdateRefs, Finalize,
             WriteResults, Drop
  <2>2. CASE Accept(p) \/ AcceptFails(p) \/ SetConnection(p) \/ CheckContext(p) \/ EndDiscard(p)
             \/ ReadRequest(p) \/ ReadFails(p) \/ OpenFails(p) \/ WriteResults(p)
    <3>1. push[p].serve \notin {"prepare", "update", "finalize"} /\ holder' = holder
        BY <2>2 DEF Accept, AcceptFails, SetConnection, CheckContext, EndDiscard,
                    ReadRequest,
           ReadFails, OpenFails, WriteResults, ServeAt
    <3> QED
        BY <1>a, <2>1, <3>1
  <2>3. CASE PrepareRejects(p) \/ Finalize(p)
      BY <1>a, <2>1, <2>3, PushAssumption DEF PrepareRejects, Finalize
  <2>4. CASE Open(p) \/ PrepareAdmits(p)
    <3>1. PICK s \in {"prepare", "update"} : Set(p, [push[p] EXCEPT !.serve = s])
        BY <2>4 DEF Open, PrepareAdmits
    <3>2. ServeTo(push[p], push'[p], s, push[p].serving, push[p].current, push[p].conn,
                  push[p].results, push[p].moved, push[p].outcome)
        BY <1>0, <3>1, ServeMoves, Zenon
    <3> QED
        BY <1>a, <2>1, <2>4, <3>2 DEF Open, PrepareAdmits, ServeAt, ServeTo
  <2>5. CASE UpdateRefs(p)
    <3>1. PICK M : Set(p, [push[p] EXCEPT !.serve = "finalize", !.moved = M])
        BY <2>5 DEF UpdateRefs
    <3>2. ServeTo(push[p], push'[p], "finalize", push[p].serving, push[p].current,
                  push[p].conn,
                  push[p].results, M, push[p].outcome)
        BY <1>0, <3>1, ServeMoves, Zenon
    <3> QED
        BY <1>a, <2>1, <2>5, <3>2 DEF UpdateRefs, ServeAt, ServeTo
  <2> QED
      BY <1>3, <2>2, <2>3, <2>4, <2>5 DEF Serve
<1>4. CASE UNCHANGED vars
    BY <1>4 DEF vars
<1> QED
    BY <1>1, <1>2, <1>3, <1>4 DEF Next

LEMMA HookStep == HookInv /\ [Next]_vars => HookInv'
<1> SUFFICES ASSUME HookInv, [Next]_vars PROVE HookInv'
    OBVIOUS
<1>0. TypeOK /\ \A p \in Pushes : PushInv(p)
    BY DEF HookInv
<1>1. TypeOK'
    BY <1>0, HandleType, GitType, ServeType DEF Next, TypeOK, vars
<1>2. CASE UNCHANGED vars
  <2>1. \A p \in Pushes : PushInv(p)'
      BY <1>0, <1>2 DEF vars, PushInv, NotStarted, ListenerOf, Waits, GitRuns, Connections,
         NothingAsked, Answered, Moved, Routes
  <2> QED
      BY <1>1, <2>1 DEF HookInv
<1>3. CASE Next
  <2>1. PICK p \in Pushes : Handle(p) \/ InstallFails(p) \/ Expire(p) \/ Git(p) \/ Serve(p)
      BY <1>3 DEF Next
  <2>2. \A q \in Pushes : PushInv(q)'
      BY <1>0, <2>1, HandleInv, GitInv, ServeInv
  <2> QED
      BY <1>1, <2>2 DEF HookInv
<1> QED
    BY <1>2, <1>3

-----------------------------------------------------------------------------
(* The theorems.                                                           *)

\* The handler, git, the hooks and the goroutine agree on how far a push is.
THEOREM HookInvariance == Spec => []HookInv
<1>1. Init => HookInv
    BY InitType, InitInv DEF HookInv
<1> QED
    BY <1>1, HookStep, PTL DEF Spec

\* A ref that the config routes is reported ok only after it has moved and its
\* batch was completed, whatever is killed and whichever no-ops are pushed.
THEOREM OkCorrect == Spec => []OkIsCompleted
<1>1. HookInv => OkIsCompleted
    BY DEF HookInv, PushInv, Answered, Moved, OkIsCompleted
<1> QED
    BY <1>1, HookInvariance, PTL

\* When the handler of a push has returned, no git, goroutine, connection or
\* socket directory of it is left, and it does not hold the Plugin effect lock,
\* as long as no push contains a no-op (which Prepare admits and nothing ends).
THEOREM NothingOutlivesCorrect == NoOps = {} => (Spec => []NothingOutlives)
<1> SUFFICES ASSUME NoOps = {} PROVE Spec => []NothingOutlives
    OBVIOUS
<1>1. Init => LockInv
    BY PushAssumption DEF Init, LockInv
<1>2. HookInv /\ LockInv /\ [Next]_vars => LockInv'
    BY LockStep
<1>3. HookInv /\ LockInv => NothingOutlives
    BY FieldTypes DEF HookInv, LockInv, PushInv, ListenerOf, Waits, Connections,
                      NothingOutlives,
       PushStates
<1> QED
    BY <1>1, <1>2, <1>3, HookInvariance, PTL DEF Spec
=============================================================================
