----------------------------- MODULE ReceiveHook -----------------------------
(***************************************************************************)
(* One push, from its HTTP handler to the coordinator.  The handler writes *)
(* the repository's Git config, opens a unix socket, runs git receive-pack *)
(* and takes everything down again; git reads the config once, runs the    *)
(* pre-receive hook, then the proc-receive hook for the refs the config    *)
(* routes to it, and moves the other refs itself; each hook process is a   *)
(* client of the socket, which one goroutine of the server serves.         *)
(*                                                                         *)
(* Receive says what the coordinator does with a batch; here a batch is    *)
(* only admitted, moved and resolved, and the question is whether a push   *)
(* reaches the coordinator at all and whether anything of it stays behind. *)
(***************************************************************************)
EXTENDS FiniteSets

CONSTANTS
    Pushes,    \* requests for git-receive-pack of one repository
    Commands,  \* push -> kinds of refs it moves
    NoOps,     \* pushes with a branch command from no object to no object
    Nobody

\* The patterns of receive.procReceiveRefs: refs/heads/ and refs/tags/.
Kinds == {"heads", "tags"}
Modes == {"pre", "proc"}

ASSUME PushAssumption ==
    /\ Commands \in [Pushes -> (SUBSET Kinds) \ {{}}]
    /\ NoOps \subseteq Pushes /\ Nobody \notin Pushes

VARIABLES
    routed,  \* the values of receive.procReceiveRefs in the config file
    holder,  \* the push that holds the Plugin effect lock
    push     \* push -> its handler, processes, socket and effects

vars == <<routed, holder, push>>

PushStates == [
    handler: {"replace", "add", "listen", "running", "close", "closeConnection", "join",
              "ended"},
    expired: BOOLEAN,                                  \* its context is done
    listener: {"none", "open", "closed", "removed"},
    git: {"none", "started", "pre", "proc", "own", "exited", "killed"},
    seen: SUBSET Kinds,                                \* what git read of the config
    client: [Modes -> {"none", "connected", "sent", "cut", "failed"}],
    conn: [Modes -> {"none", "queued", "accepted", "closed"}],
    serve: {"none", "accept", "accepted", "check", "discard", "request", "open",
            "prepare", "update", "finalize", "ok", "ng", "broken", "returned"},
    serving: Modes \cup {"none"},                      \* accepted last
    current: Modes \cup {"none"},                      \* session.connection
    results: {"none", "ok", "ng"},                     \* written to proc-receive
    moved: SUBSET Kinds,
    outcome: {"none", "completed", "aborted", "manual", "failed"},
    told: [Kinds -> {"none", "ok", "ng"}]]             \* git's report

TypeOK ==
    /\ routed \subseteq Kinds
    /\ holder \in Pushes \cup {Nobody}
    /\ push \in [Pushes -> PushStates]

\* ProvisionRepository has installed the hooks and both patterns.
Init ==
    /\ routed = Kinds
    /\ holder = Nobody
    /\ push = [p \in Pushes |-> [
           handler |-> "replace", expired |-> FALSE, listener |-> "none",
           git |-> "none", seen |-> {},
           client |-> [m \in Modes |-> "none"], conn |-> [m \in Modes |-> "none"],
           serve |-> "none", serving |-> "none", current |-> "none", results |-> "none",
           moved |-> {}, outcome |-> "none", told |-> [k \in Kinds |-> "none"]]]

Set(p, r) == push' = [push EXCEPT ![p] = r]

-----------------------------------------------------------------------------
(* The HTTP handler.                                                       *)

HandlerAt(p, state) == push[p].handler = state /\ UNCHANGED holder

\* Each git config call replaces the file at once.
ReplaceAll(p) ==
    /\ HandlerAt(p, "replace") /\ routed' = {"heads"}
    /\ Set(p, [push[p] EXCEPT !.handler = "add"])

AddTags(p) ==
    /\ HandlerAt(p, "add") /\ routed' = routed \cup {"tags"}
    /\ Set(p, [push[p] EXCEPT !.handler = "listen"])

\* A hook file that cannot be written, a config file that another push has
\* locked, a context that is done, no socket: the request is answered 503 or 500.
InstallFails(p) ==
    /\ \E s \in {"replace", "add", "listen"} : HandlerAt(p, s)
    /\ Set(p, [push[p] EXCEPT !.handler = "ended"]) /\ UNCHANGED routed

\* The session is started, then git; a git that cannot be started aborts it.
StartSession(p) ==
    /\ HandlerAt(p, "listen") /\ UNCHANGED routed
    /\ LET started == [push[p] EXCEPT !.listener = "open", !.serve = "accept"] IN
       \/ Set(p, [started EXCEPT !.handler = "running", !.git = "started"])
       \/ Set(p, [started EXCEPT !.handler = "close", !.expired = TRUE])

\* serviceTimeout passes or the client goes away.
Expire(p) ==
    /\ push[p].handler = "running" /\ ~push[p].expired
    /\ Set(p, [push[p] EXCEPT !.expired = TRUE]) /\ UNCHANGED <<routed, holder>>

\* git has ended; stop cancels the session's context first.
CommandWait(p) ==
    /\ HandlerAt(p, "running") /\ push[p].git \in {"exited", "killed"}
    /\ Set(p, [push[p] EXCEPT !.handler = "close", !.expired = TRUE]) /\ UNCHANGED routed

\* Fault: stop cancels the context and leaves the listener open.
LeaveListener(p) ==
    /\ HandlerAt(p, "close") /\ UNCHANGED routed
    /\ Set(p, [push[p] EXCEPT !.handler = "closeConnection"])

\* Connections that wait to be accepted go with the listener.
CloseListener(p) ==
    /\ HandlerAt(p, "close") /\ UNCHANGED routed
    /\ Set(p, [push[p] EXCEPT !.handler = "closeConnection", !.listener = "closed",
               !.conn = [m \in Modes |-> IF @[m] = "queued" THEN "closed" ELSE @[m]]])

Closed(p, m) == [push[p].conn EXCEPT ![m] = "closed"]

CloseConnection(p) ==
    /\ HandlerAt(p, "closeConnection") /\ UNCHANGED routed
    /\ LET m == push[p].current IN
       Set(p, [push[p] EXCEPT !.handler = "join", !.conn = IF m \in Modes THEN Closed(p, m) ELSE @])

Join(p) ==
    /\ HandlerAt(p, "join") /\ push[p].serve = "returned"
    /\ Set(p, [push[p] EXCEPT !.handler = "ended", !.listener = "removed"]) /\ UNCHANGED routed

Handle(p) ==
    \/ ReplaceAll(p) \/ AddTags(p) \/ StartSession(p) \/ CommandWait(p)
    \/ CloseListener(p) \/ CloseConnection(p) \/ Join(p)

-----------------------------------------------------------------------------
(* git receive-pack and its hook processes.                                *)

GitAt(p, state) == push[p].git = state /\ UNCHANGED <<routed, holder>>
GitRuns(p) == push[p].git \in {"started", "pre", "proc", "own"}

Routes(p) == Commands[p] \cap push[p].seen
Own(p) == Commands[p] \ push[p].seen

\* The report in which the kinds in K are answered: ok for those in M.
Report(p, K, M) ==
    [k \in Kinds |-> IF k \notin K THEN push[p].told[k] ELSE IF k \in M THEN "ok" ELSE "ng"]

ReadConfig(p) == GitAt(p, "started") /\ Set(p, [push[p] EXCEPT !.git = "pre", !.seen = routed])

\* A request git cannot read.
GitFails(p) == GitAt(p, "started") /\ Set(p, [push[p] EXCEPT !.git = "exited"])

Client(p, m, state) == [push[p].client EXCEPT ![m] = state]

HookConnects(p, m) ==
    /\ GitAt(p, m) /\ push[p].client[m] = "none"
    /\ IF push[p].listener = "open"
       THEN Set(p, [push[p] EXCEPT !.client = Client(p, m, "connected"),
                                   !.conn = [@ EXCEPT ![m] = "queued"]])
       ELSE Set(p, [push[p] EXCEPT !.client = Client(p, m, "failed")])

\* The whole input of the hook is written and the sending side closed.
HookSends(p, m) ==
    /\ GitAt(p, m) /\ push[p].client[m] = "connected"
    /\ LET state == IF push[p].conn[m] = "closed" THEN "failed" ELSE "sent" IN
       Set(p, [push[p] EXCEPT !.client = Client(p, m, state)])

\* A hook whose git was killed finds its input ended.
HookCut(p, m) ==
    /\ GitAt(p, "killed") /\ push[p].client[m] = "connected"
    /\ Set(p, [push[p] EXCEPT !.client = Client(p, m, "cut")])

\* A pre-receive hook that fails rejects the whole push.
AfterPre(p) ==
    /\ GitAt(p, "pre")
    /\ \/ /\ push[p].client["pre"] = "sent"
          /\ Set(p, [push[p] EXCEPT !.git = IF Routes(p) # {} THEN "proc" ELSE "own"])
       \/ /\ push[p].client["pre"] = "failed"
          /\ Set(p, [push[p] EXCEPT !.git = "exited", !.told = Report(p, Commands[p], {})])

\* The proc-receive hook copies the answer until the server closes; a ref
\* without a result is reported as failed.
AfterProc(p) ==
    /\ GitAt(p, "proc")
    /\ \/ push[p].client["proc"] = "failed"
       \/ push[p].client["proc"] = "sent" /\ push[p].conn["proc"] = "closed"
    /\ LET M == IF push[p].results = "ok" THEN Routes(p) ELSE {} IN
       Set(p, [push[p] EXCEPT !.git = "own", !.told = Report(p, Routes(p), M)])

\* git moves what the config did not route.
MoveOwn(p) ==
    /\ GitAt(p, "own")
    /\ \E M \in SUBSET Own(p) :
       Set(p, [push[p] EXCEPT !.git = "exited", !.moved = @ \cup M, !.told = Report(p, Own(p), M)])

\* exec kills git when the context is done.
Kill(p) ==
    /\ GitRuns(p) /\ push[p].expired
    /\ \E M \in SUBSET Own(p) :
          /\ push[p].git # "own" => M = {}
          /\ Set(p, [push[p] EXCEPT !.git = "killed", !.moved = @ \cup M])
    /\ UNCHANGED <<routed, holder>>

Git(p) ==
    \/ ReadConfig(p) \/ GitFails(p) \/ AfterPre(p) \/ AfterProc(p) \/ MoveOwn(p) \/ Kill(p)
    \/ \E m \in Modes : HookConnects(p, m) \/ HookSends(p, m) \/ HookCut(p, m)

-----------------------------------------------------------------------------
(* The goroutine that serves the socket.                                   *)

ServeAt(p, state) == push[p].serve = state /\ UNCHANGED <<routed, holder>>
Readable(p) == push[p].conn[push[p].serving] = "accepted"

\* clearConnection and closeHookConnection, before the goroutine goes on.
Drop(p, r) == Set(p, [r EXCEPT !.current = "none", !.conn = Closed(p, push[p].serving)])

\* Hooks are accepted in the order in which they connected.
Accept(p) ==
    /\ ServeAt(p, "accept")
    /\ \E m \in Modes :
          /\ push[p].conn[m] = "queued"
          /\ m = "proc" => push[p].conn["pre"] # "queued"
          /\ Set(p, [push[p] EXCEPT !.serve = "accepted", !.serving = m,
                     !.conn = [push[p].conn EXCEPT ![m] = "accepted"]])

AcceptFails(p) ==
    /\ ServeAt(p, "accept") /\ push[p].listener = "closed"
    /\ Set(p, [push[p] EXCEPT !.serve = "returned"])

SetConnection(p) ==
    /\ ServeAt(p, "accepted")
    /\ Set(p, [push[p] EXCEPT !.serve = "check", !.current = push[p].serving])

\* stop may have looked for a connection before it was set.
CheckContext(p) ==
    /\ ServeAt(p, "check")
    /\ IF push[p].expired
       THEN Drop(p, [push[p] EXCEPT !.serve = "returned"])
       ELSE Set(p, [push[p] EXCEPT !.serve = IF push[p].serving = "pre" THEN "discard" ELSE "request"])

EndDiscard(p) ==
    /\ ServeAt(p, "discard") /\ Readable(p)
    /\ push[p].client["pre"] \in {"sent", "cut"}
    /\ Drop(p, [push[p] EXCEPT !.serve = "accept"])

\* Header, negotiation, commands and push options up to the last flush.
ReadRequest(p) ==
    /\ ServeAt(p, "request") /\ Readable(p)
    /\ push[p].client["proc"] = "sent"
    /\ Set(p, [push[p] EXCEPT !.serve = "open"])

\* The connection was closed by stop, the client ended before its request, or
\* ParseReceiveCommands refuses a command.
ReadFails(p) ==
    /\ \E s \in {"discard", "request"} : ServeAt(p, s)
    /\ \/ ~Readable(p)
       \/ push[p].client[push[p].serving] = "cut"
       \/ push[p].serve = "request" /\ push[p].client["proc"] = "sent"
    /\ Drop(p, [push[p] EXCEPT !.serve = "returned"])

Open(p) ==
    /\ push[p].serve = "open" /\ holder = Nobody
    /\ holder' = p /\ Set(p, [push[p] EXCEPT !.serve = "prepare"]) /\ UNCHANGED routed

OpenFails(p) ==
    ServeAt(p, "open") /\ push[p].expired /\ Set(p, [push[p] EXCEPT !.serve = "ng"])

\* Fault: an early return of Prepare without close.
RejectHolding(p) == ServeAt(p, "prepare") /\ Set(p, [push[p] EXCEPT !.serve = "ng"])

PrepareRejects(p) ==
    /\ push[p].serve = "prepare" /\ UNCHANGED routed
    /\ holder' = Nobody /\ Set(p, [push[p] EXCEPT !.serve = "ng"])

\* A no-op that Prepare admits is refused by BuildUpdateRefTransaction, and the
\* session ends without Finalize.
PrepareAdmits(p) ==
    /\ ServeAt(p, "prepare")
    /\ Set(p, [push[p] EXCEPT !.serve = IF p \in NoOps THEN "ng" ELSE "update"])

\* update-ref moves all its refs, or none; killed, it may have moved some.
UpdateRefs(p) ==
    /\ ServeAt(p, "update")
    /\ \E M \in SUBSET Routes(p) :
          /\ push[p].expired \/ M \in {{}, Routes(p)}
          /\ Set(p, [push[p] EXCEPT !.serve = "finalize", !.moved = M])

Resolution(p) ==
    IF Routes(p) \subseteq push[p].moved THEN "completed"
    ELSE IF Routes(p) \cap push[p].moved = {} THEN "aborted" ELSE "manual"

\* Fault: an error of Finalize is not looked at.
AnswersUnchecked(p, outcome) == IF outcome = "aborted" THEN {"ng"} ELSE {"ok"}

\* The results tell the exit of update-ref, which may have been killed with
\* all its refs moved; a batch that was not resolved gets no results.
Answers(p, outcome) ==
    CASE outcome = "completed" -> {"ok"} \cup (IF push[p].expired THEN {"ng"} ELSE {})
      [] outcome = "aborted" -> {"ng"}
      [] OTHER -> {"broken"}

\* Finalize closes the coordination on every return.
Finalize(p) ==
    /\ push[p].serve = "finalize" /\ UNCHANGED routed
    /\ holder' = Nobody
    /\ \E outcome \in {Resolution(p), "failed"} : \E answer \in Answers(p, outcome) :
          Set(p, [push[p] EXCEPT !.serve = answer, !.outcome = outcome])

WriteResults(p) ==
    /\ \E s \in {"ok", "ng", "broken"} : ServeAt(p, s)
    /\ Drop(p, [push[p] EXCEPT !.serve = "returned",
                !.results = IF push[p].serve # "broken" /\ Readable(p) THEN push[p].serve ELSE "none"])

Serve(p) ==
    \/ Accept(p) \/ AcceptFails(p) \/ SetConnection(p) \/ CheckContext(p)
    \/ EndDiscard(p) \/ ReadRequest(p) \/ ReadFails(p)
    \/ Open(p) \/ OpenFails(p) \/ PrepareAdmits(p) \/ PrepareRejects(p)
    \/ UpdateRefs(p) \/ Finalize(p) \/ WriteResults(p)

Next == \E p \in Pushes : Handle(p) \/ InstallFails(p) \/ Expire(p) \/ Git(p) \/ Serve(p)

Spec == Init /\ [][Next]_vars

\* Some goroutine, process or timer goes on while one can.  A push takes each
\* of its steps at most once per hook, so this is enough for all of them; that
\* Expire is one of the steps rests on serviceTimeout never being zero
\* (applyDefaults).
FairSpec == Spec /\ WF_vars(Next)

-----------------------------------------------------------------------------
\* When the handler of a push has returned (mod.go handleReceivePack) nothing
\* of it is left: no git, no goroutine, no open connection, no socket
\* directory, no hold of the Plugin effect lock.
NothingOutlives == \A p \in Pushes : push[p].handler = "ended" =>
    /\ ~GitRuns(p)
    /\ push[p].serve \in {"none", "returned"}
    /\ \A m \in Modes : push[p].conn[m] \in {"none", "closed"}
    /\ push[p].listener \in {"none", "removed"}
    /\ holder # p

\* git reports a routed ref as moved only when it has moved and the coordinator
\* has completed its batch (RunCoordinatedProcReceiveSession writes its results
\* after Finalize).
OkIsCompleted == \A p \in Pushes, k \in Kinds :
    push[p].told[k] = "ok" /\ k \in push[p].seen =>
        k \in push[p].moved /\ push[p].outcome = "completed"

\* Every push ends, whichever of its processes fails or is killed first
\* (ReceivePack, receiveHookSession.Wait).
EveryPushEnds == <>(\A p \in Pushes : push[p].handler = "ended")

\* A tag moves only under the Plugin effect lock (installProtectedReceiveHooks
\* routes refs/tags/ to the coordinator).
TagMovesAreCoordinated ==
    [][\A p \in Pushes : "tags" \in push'[p].moved \ push[p].moved => holder = p]_vars
=============================================================================
