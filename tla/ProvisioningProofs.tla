-------------------------- MODULE ProvisioningProofs --------------------------
(***************************************************************************)
(* Proofs about Provisioning, for any number of creations, processes and   *)
(* slugs, when no COMMIT answer is lost and no creation outlasts the       *)
(* sweep's minimum age: a row has its whole repository and answers are     *)
(* true.  Each action of Create, a crash and the sweep keep the inductive  *)
(* invariant IInv of Provisioning.                                         *)
(***************************************************************************)
EXTENDS Provisioning, TLAPS

\* Neither fault is switched on.
NoFaults == ~CommitAckMayBeLost /\ ~CreateMayBeSlow

\* Nothing exists at first.
LEMMA InitInv == Init => IInv
BY RequestAssumption
   DEF Init, IInv, TypeOK, CreateStates, StageInv, RowInv, SweepInv, AnswerInv, AnswersAreTrue, InProgress, HasRow

\* LockSlug keeps the invariant.
LEMMA LockSlugInv == ASSUME NoFaults, IInv, home' = home, NEW c \in Creators, LockSlug(c) PROVE IInv'
<1> USE RequestAssumption DEF LockSlug, Goto, Answer, Unlock, rows, calls, sweep
<1>1. TypeOK'
  BY DEF IInv, TypeOK, CreateStates
<1>2. StageInv'
  BY ZenonT(60) DEF IInv, TypeOK, StageInv, InProgress, CreateStates
<1>3. RowInv'
  BY DEF IInv, TypeOK, StageInv, RowInv, NoFaults
<1>4. SweepInv'
  BY DEF IInv, TypeOK, RowInv, SweepInv, HasRow, NoFaults
<1>5. AnswerInv'
  BY DEF IInv, TypeOK, StageInv, RowInv, AnswerInv, AnswersAreTrue, HasRow, NoFaults
<1> QED
  BY <1>1, <1>2, <1>3, <1>4, <1>5 DEF IInv

\* FindExisting keeps the invariant.
LEMMA FindExistingInv == ASSUME NoFaults, IInv, home' = home, NEW c \in Creators, FindExisting(c) PROVE IInv'
<1> USE RequestAssumption DEF FindExisting, Goto, Answer, Unlock, Return, rows, calls, sweep
<1>1. TypeOK'
  <2>1. CASE plugins[Wanted[c]] # NoPlugin /\ Return(c, "conflict")
    BY <2>1 DEF IInv, TypeOK, CreateStates
  <2>2. CASE plugins[Wanted[c]] = NoPlugin /\ pc' = [pc EXCEPT ![c] = "absent"] /\ UNCHANGED <<answer, createLock>>
    BY <2>2 DEF IInv, TypeOK, CreateStates
  <2>3. CASE Return(c, "unavailable")
    BY <2>3 DEF IInv, TypeOK, CreateStates
  <2> QED
    BY <2>1, <2>2, <2>3
<1>2. StageInv'
  BY DEF IInv, TypeOK, StageInv, InProgress, CreateStates
<1>3. RowInv'
  BY DEF IInv, TypeOK, StageInv, RowInv, NoFaults
<1>4. SweepInv'
  BY DEF IInv, TypeOK, RowInv, SweepInv, HasRow, NoFaults
<1>5. AnswerInv'
  <2>1. CASE plugins[Wanted[c]] # NoPlugin /\ Return(c, "conflict")
    BY <2>1 DEF IInv, TypeOK, RowInv, AnswerInv, AnswersAreTrue, HasRow
  <2>2. CASE plugins[Wanted[c]] = NoPlugin /\ pc' = [pc EXCEPT ![c] = "absent"] /\ UNCHANGED <<answer, createLock>>
    BY <2>2 DEF IInv, TypeOK, AnswerInv, AnswersAreTrue, HasRow
  <2>3. CASE Return(c, "unavailable")
    BY <2>3 DEF IInv, TypeOK, RowInv, AnswerInv, AnswersAreTrue, HasRow
  <2> QED
    BY <2>1, <2>2, <2>3
<1> QED
  BY <1>1, <1>2, <1>3, <1>4, <1>5 DEF IInv

\* InitRepository keeps the invariant.
LEMMA InitRepositoryInv == ASSUME NoFaults, IInv, home' = home, NEW c \in Creators, InitRepository(c) PROVE IInv'
<1> USE RequestAssumption DEF InitRepository, Goto, Answer, Unlock, rows, calls, sweep
<1>1. TypeOK'
  BY DEF IInv, TypeOK, CreateStates
<1>2. StageInv'
  BY DEF IInv, TypeOK, StageInv, InProgress, CreateStates
<1>3. RowInv'
  BY DEF IInv, TypeOK, StageInv, RowInv, NoFaults
<1>4. SweepInv'
  BY DEF IInv, TypeOK, RowInv, SweepInv, HasRow, NoFaults
<1>5. AnswerInv'
  BY DEF IInv, TypeOK, StageInv, RowInv, AnswerInv, AnswersAreTrue, HasRow, NoFaults
<1> QED
  BY <1>1, <1>2, <1>3, <1>4, <1>5 DEF IInv

\* InitFails keeps the invariant.
LEMMA InitFailsInv == ASSUME NoFaults, IInv, home' = home, NEW c \in Creators, InitFails(c) PROVE IInv'
<1> USE RequestAssumption DEF InitFails, Goto, Answer, Unlock, Return, rows, calls, sweep
<1>0. PICK left \in {"absent", "partial"} : dir' = [dir EXCEPT ![c] = left]
  OBVIOUS
<1>1. TypeOK'
  BY <1>0 DEF IInv, TypeOK, CreateStates
<1>2. StageInv'
  <2>1. pc'[c] = "done"
    BY DEF IInv, TypeOK
  <2>2. \A d \in Creators : d # c => pc'[d] = pc[d] /\ dir'[d] = dir[d]
    BY <1>0 DEF IInv, TypeOK
  <2>3. \A d \in Creators : d # c /\ InProgress(d) => createLock'[home[d]][Wanted[d]] = d
    BY DEF IInv, TypeOK, StageInv, InProgress
  <2> QED
    BY <2>1, <2>2, <2>3 DEF IInv, StageInv, InProgress
<1>3. RowInv'
  BY DEF IInv, TypeOK, StageInv, RowInv, NoFaults
<1>4. SweepInv'
  BY DEF IInv, TypeOK, RowInv, SweepInv, HasRow, NoFaults
<1>5. AnswerInv'
  BY DEF IInv, TypeOK, StageInv, RowInv, AnswerInv, AnswersAreTrue, HasRow, NoFaults
<1> QED
  BY <1>1, <1>2, <1>3, <1>4, <1>5 DEF IInv

\* FinishRepository keeps the invariant.
LEMMA FinishRepositoryInv == ASSUME NoFaults, IInv, home' = home, NEW c \in Creators, FinishRepository(c) PROVE IInv'
<1> USE RequestAssumption DEF FinishRepository, Goto, Answer, Unlock, rows, calls, sweep
<1>1. TypeOK'
  BY DEF IInv, TypeOK, CreateStates
<1>2. StageInv'
  BY DEF IInv, TypeOK, StageInv, InProgress, CreateStates
<1>3. RowInv'
  BY DEF IInv, TypeOK, StageInv, RowInv, NoFaults
<1>4. SweepInv'
  BY DEF IInv, TypeOK, RowInv, SweepInv, HasRow, NoFaults
<1>5. AnswerInv'
  BY DEF IInv, TypeOK, StageInv, RowInv, AnswerInv, AnswersAreTrue, HasRow, NoFaults
<1> QED
  BY <1>1, <1>2, <1>3, <1>4, <1>5 DEF IInv

\* FinishFails keeps the invariant.
LEMMA FinishFailsInv == ASSUME NoFaults, IInv, home' = home, NEW c \in Creators, FinishFails(c) PROVE IInv'
<1> USE RequestAssumption DEF FinishFails, Goto, Answer, Unlock, Return, Remove, rows, calls, sweep
<1>1. TypeOK'
  BY DEF IInv, TypeOK, CreateStates
<1>2. StageInv'
  BY DEF IInv, TypeOK, StageInv, InProgress, CreateStates
<1>3. RowInv'
  BY DEF IInv, TypeOK, StageInv, RowInv, NoFaults
<1>4. SweepInv'
  BY DEF IInv, TypeOK, RowInv, SweepInv, HasRow, NoFaults
<1>5. AnswerInv'
  BY DEF IInv, TypeOK, StageInv, RowInv, AnswerInv, AnswersAreTrue, HasRow, NoFaults
<1> QED
  BY <1>1, <1>2, <1>3, <1>4, <1>5 DEF IInv

\* InsertRows keeps the invariant.
LEMMA InsertRowsInv == ASSUME NoFaults, IInv, home' = home, NEW c \in Creators, InsertRows(c) PROVE IInv'
<1> USE RequestAssumption DEF InsertRows, Goto, Answer, Unlock, Return, rows, calls, sweep
<1>1. TypeOK'
  BY DEF IInv, TypeOK, CreateStates
<1>2. StageInv'
  BY DEF IInv, TypeOK, StageInv, InProgress, CreateStates
<1>3. RowInv'
  BY DEF IInv, TypeOK, StageInv, RowInv, NoFaults
<1>4. SweepInv'
  <2>1. \A id \in aged \cup candidates \cup cleanups \cup ({sweeping} \ {NoPlugin}) : pc[id] = "done" /\ id # c
    BY DEF IInv, SweepInv
  <2>2. \A id \in aged \cup candidates \cup cleanups \cup ({sweeping} \ {NoPlugin}) : pc'[id] = "done"
    BY <2>1 DEF IInv, TypeOK, SweepInv
  <2>3. \A id \in cleanups \cup ({sweeping} \ {NoPlugin}) : ~HasRow(id)'
    BY <2>1 DEF IInv, TypeOK, SweepInv, HasRow, NoFaults
  <2> QED
    BY <2>2, <2>3 DEF SweepInv
<1>5. AnswerInv'
  <2>1. \A d \in Creators : d # c => pc'[d] = pc[d] /\ answer'[d] = answer[d]
    BY DEF IInv, TypeOK
  <2>2. \A d \in Creators : d # c /\ HasRow(d)' => HasRow(d)
    BY DEF IInv, TypeOK, HasRow
  <2>3. \A s \in Slugs : plugins[s] # NoPlugin => plugins'[s] = plugins[s]
    BY DEF IInv, TypeOK
  <2>4. pc'[c] = "done" /\ answer'[c] = "created" /\ plugins'[Wanted[c]] = c
    BY DEF IInv, TypeOK
  <2>5. AnswersAreTrue'
    BY <2>1, <2>2, <2>3, <2>4 DEF IInv, TypeOK, AnswerInv, AnswersAreTrue
  <2>6. \A d \in Creators : pc'[d] \in {"failed", "unrecorded"} =>
           \/ answer'[d] = "unavailable"
           \/ answer'[d] = "conflict" /\ plugins'[Wanted[d]] \notin {NoPlugin, d}
    BY <2>1, <2>3, <2>4 DEF IInv, TypeOK, AnswerInv
  <2> QED
    BY <2>5, <2>6 DEF AnswerInv
<1> QED
  BY <1>1, <1>2, <1>3, <1>4, <1>5 DEF IInv

\* InsertConflicts keeps the invariant.
LEMMA InsertConflictsInv == ASSUME NoFaults, IInv, home' = home, NEW c \in Creators, InsertConflicts(c) PROVE IInv'
<1> USE RequestAssumption DEF InsertConflicts, Goto, Answer, Unlock, rows, calls, sweep
<1>1. TypeOK'
  BY DEF IInv, TypeOK, CreateStates
<1>2. StageInv'
  BY DEF IInv, TypeOK, StageInv, InProgress, CreateStates
<1>3. RowInv'
  BY DEF IInv, TypeOK, StageInv, RowInv, NoFaults
<1>4. SweepInv'
  BY DEF IInv, TypeOK, RowInv, SweepInv, HasRow, NoFaults
<1>5. AnswerInv'
  <2>1. plugins[Wanted[c]] # c
    BY DEF IInv, TypeOK, RowInv
  <2>2. AnswersAreTrue'
    BY DEF IInv, TypeOK, AnswerInv, AnswersAreTrue, HasRow
  <2> QED
    BY <2>1, <2>2 DEF IInv, TypeOK, AnswerInv
<1> QED
  BY <1>1, <1>2, <1>3, <1>4, <1>5 DEF IInv

\* InsertFails keeps the invariant.
LEMMA InsertFailsInv == ASSUME NoFaults, IInv, home' = home, NEW c \in Creators, InsertFails(c) PROVE IInv'
<1> USE RequestAssumption DEF InsertFails, Goto, Answer, Unlock, rows, calls, sweep
<1>1. TypeOK'
  BY DEF IInv, TypeOK, CreateStates
<1>2. StageInv'
  BY DEF IInv, TypeOK, StageInv, InProgress, CreateStates
<1>3. RowInv'
  BY DEF IInv, TypeOK, StageInv, RowInv, NoFaults
<1>0. UNCHANGED plugins
  BY DEF NoFaults
<1>4. SweepInv'
  <2>1. \A id \in aged \cup candidates \cup cleanups \cup ({sweeping} \ {NoPlugin}) : pc[id] = "done" /\ id # c
    BY DEF IInv, SweepInv
  <2> QED
    BY <1>0, <2>1 DEF IInv, TypeOK, SweepInv, HasRow
<1>5. AnswerInv'
  BY DEF IInv, TypeOK, StageInv, RowInv, AnswerInv, AnswersAreTrue, HasRow, NoFaults
<1> QED
  BY <1>1, <1>2, <1>3, <1>4, <1>5 DEF IInv

\* RemoveProvisioned keeps the invariant.
LEMMA RemoveProvisionedInv == ASSUME NoFaults, IInv, home' = home, NEW c \in Creators, RemoveProvisioned(c) PROVE IInv'
<1> USE RequestAssumption DEF RemoveProvisioned, Goto, Answer, Unlock, Return, Remove, rows, calls, sweep
<1>1. TypeOK'
  BY DEF IInv, TypeOK, CreateStates
<1>2. StageInv'
  BY DEF IInv, TypeOK, StageInv, InProgress, CreateStates
<1>3. RowInv'
  BY DEF IInv, TypeOK, StageInv, RowInv, NoFaults
<1>4. SweepInv'
  BY DEF IInv, TypeOK, RowInv, SweepInv, HasRow, NoFaults
<1>5. AnswerInv'
  BY DEF IInv, TypeOK, StageInv, RowInv, AnswerInv, AnswersAreTrue, HasRow, NoFaults
<1> QED
  BY <1>1, <1>2, <1>3, <1>4, <1>5 DEF IInv

\* RemoveProvisionedFails keeps the invariant.
LEMMA RemoveProvisionedFailsInv == ASSUME NoFaults, IInv, home' = home, NEW c \in Creators, RemoveProvisionedFails(c) PROVE IInv'
<1> USE RequestAssumption DEF RemoveProvisionedFails, Goto, Answer, Unlock, rows, calls, sweep
<1>1. TypeOK'
  BY DEF IInv, TypeOK, CreateStates
<1>2. StageInv'
  BY DEF IInv, TypeOK, StageInv, InProgress, CreateStates
<1>3. RowInv'
  BY DEF IInv, TypeOK, StageInv, RowInv, NoFaults
<1>4. SweepInv'
  BY DEF IInv, TypeOK, RowInv, SweepInv, HasRow, NoFaults
<1>5. AnswerInv'
  BY DEF IInv, TypeOK, StageInv, RowInv, AnswerInv, AnswersAreTrue, HasRow, NoFaults
<1> QED
  BY <1>1, <1>2, <1>3, <1>4, <1>5 DEF IInv

\* RecordCleanup keeps the invariant.
LEMMA RecordCleanupInv == ASSUME NoFaults, IInv, home' = home, NEW c \in Creators, RecordCleanup(c) PROVE IInv'
<1> USE RequestAssumption DEF RecordCleanup, Goto, Answer, Unlock, Return, rows, calls, sweep
<1>1. TypeOK'
  BY DEF IInv, TypeOK, CreateStates
<1>2. StageInv'
  BY DEF IInv, TypeOK, StageInv, InProgress, CreateStates
<1>3. RowInv'
  BY DEF IInv, TypeOK, StageInv, RowInv, NoFaults
<1>4. SweepInv'
  <2>1. ~HasRow(c) /\ pc'[c] = "done"
    BY DEF IInv, TypeOK, RowInv, HasRow
  <2>2. cleanups' \subseteq cleanups \cup {c}
    OBVIOUS
  <2>3. \A id \in Creators : HasRow(id)' <=> HasRow(id)
    BY DEF HasRow
  <2>4. \A id \in Creators : pc[id] = "done" => pc'[id] = "done"
    BY DEF IInv, TypeOK
  <2> QED
    BY <2>1, <2>2, <2>3, <2>4 DEF IInv, TypeOK, SweepInv
<1>5. AnswerInv'
  BY DEF IInv, TypeOK, StageInv, RowInv, AnswerInv, AnswersAreTrue, HasRow, NoFaults
<1> QED
  BY <1>1, <1>2, <1>3, <1>4, <1>5 DEF IInv

\* One call of Create keeps the invariant, whatever it does next.
LEMMA CreateInv == ASSUME NoFaults, IInv, home' = home, NEW c \in Creators, Create(c) PROVE IInv'
BY LockSlugInv, FindExistingInv, InitRepositoryInv, InitFailsInv, FinishRepositoryInv, FinishFailsInv,
   InsertRowsInv, InsertConflictsInv, InsertFailsInv, RemoveProvisionedInv, RemoveProvisionedFailsInv,
   RecordCleanupInv
   DEF Create

\* A crash ends the calls of one process; what they left without a row stays so.
LEMMA CrashInv == ASSUME NoFaults, IInv, home' = home, NEW p \in Processes, Crash(p) PROVE IInv'
<1> USE RequestAssumption DEF Crash, rows, sweep
<1>1. TypeOK'
  BY DEF IInv, TypeOK, CreateStates
<1>2. StageInv'
  BY DEF IInv, TypeOK, StageInv, InProgress
<1>3. RowInv'
  BY DEF IInv, TypeOK, RowInv
<1>4. SweepInv'
  BY DEF IInv, TypeOK, SweepInv, HasRow
<1>5. AnswerInv'
  BY DEF IInv, TypeOK, AnswerInv, AnswersAreTrue, HasRow
<1> QED
  BY <1>1, <1>2, <1>3, <1>4, <1>5 DEF IInv

\* The passing of time and the sweep touch only directories without a row.
LEMMA SweepKeepsInv == ASSUME NoFaults, IInv, home' = home, (\E c \in Creators : Age(c)) \/ Sweep PROVE IInv'
<1> USE RequestAssumption DEF rows, calls
<1>1. ASSUME NEW id \in Creators, Age(id) PROVE IInv'
  <2> USE <1>1 DEF Age, sweep
  <2>1. pc[id] = "done"
    BY DEF IInv, TypeOK, StageInv, InProgress, NoFaults
  <2>2. SweepInv'
    BY <2>1 DEF IInv, TypeOK, SweepInv, HasRow
  <2>3. TypeOK' /\ StageInv' /\ RowInv'
    BY DEF IInv, TypeOK, StageInv, InProgress, RowInv
  <2>4. AnswerInv'
    BY DEF IInv, AnswerInv, AnswersAreTrue, HasRow
  <2> QED
    BY <2>2, <2>3, <2>4 DEF IInv
<1>2. CASE SweepList
  BY <1>2 DEF SweepList, IInv, TypeOK, StageInv, InProgress, RowInv, SweepInv, AnswerInv, AnswersAreTrue, HasRow
<1>3. ASSUME NEW id \in Creators, SweepCheck(id) PROVE IInv'
  BY <1>3 DEF SweepCheck, RowFound, IInv, TypeOK, StageInv, InProgress, RowInv, SweepInv, AnswerInv, AnswersAreTrue, HasRow
<1>4. CASE SweepRemove
  <2> USE <1>4 DEF SweepRemove, Remove
  <2>1. sweeping \in Creators /\ pc[sweeping] = "done" /\ ~HasRow(sweeping)
    BY DEF IInv, TypeOK, SweepInv
  <2> QED
    BY <2>1 DEF IInv, TypeOK, StageInv, InProgress, RowInv, SweepInv, AnswerInv, AnswersAreTrue, HasRow
<1>5. CASE SweepStops
  <2> USE <1>5 DEF SweepStops
  <2>1. CASE dir' = dir
    BY <2>1 DEF IInv, TypeOK, StageInv, InProgress, RowInv, SweepInv, AnswerInv, AnswersAreTrue, HasRow
  <2>2. CASE sweeping # NoPlugin /\ dir' = [dir EXCEPT ![sweeping] = "partial"]
    <3>1. sweeping \in Creators /\ pc[sweeping] = "done" /\ ~HasRow(sweeping)
      BY <2>2 DEF IInv, TypeOK, SweepInv
    <3> QED
      BY <2>2, <3>1 DEF IInv, TypeOK, StageInv, InProgress, RowInv, SweepInv, AnswerInv, AnswersAreTrue, HasRow
  <2> QED
    BY <2>1, <2>2
<1> QED
  BY <1>1, <1>2, <1>3, <1>4, <1>5 DEF Sweep

\* Every step keeps the invariant.
LEMMA NextInv == ASSUME NoFaults, IInv, [Next]_vars PROVE IInv'
<1>1. CASE Next
  BY <1>1, CreateInv, CrashInv, SweepKeepsInv DEF Next
<1>2. CASE UNCHANGED vars
  BY <1>2 DEF vars, rows, calls, sweep, IInv, TypeOK, StageInv, InProgress, RowInv, SweepInv, AnswerInv,
              AnswersAreTrue, HasRow
<1> QED
  BY <1>1, <1>2

-----------------------------------------------------------------------------
\* The inductive invariant of creation, its compensation and the sweep.
THEOREM Invariance == NoFaults => (Spec => []IInv)
<1>1. SUFFICES ASSUME NoFaults PROVE Spec => []IInv
  OBVIOUS
<1>2. Init => IInv
  BY InitInv
<1>3. IInv /\ [Next]_vars => IInv'
  BY <1>1, NextInv
<1> QED
  BY <1>2, <1>3, PTL DEF Spec

\* A Plugin that a client can see has a whole repository: neither the
\* compensation of a failed creation nor the sweep ever removes it.
THEOREM RepositoryCorrect == NoFaults => (Spec => []RowHasRepository)
<1>1. SUFFICES ASSUME NoFaults PROVE Spec => []RowHasRepository
  OBVIOUS
<1>2. IInv => RowHasRepository
  BY DEF IInv, RowInv, RowHasRepository
<1> QED
  BY <1>1, <1>2, Invariance, PTL

\* Every answer of Create is true when it is given and stays true.
THEOREM AnswersCorrect == NoFaults => (Spec => []AnswersAreTrue)
<1>1. SUFFICES ASSUME NoFaults PROVE Spec => []AnswersAreTrue
  OBVIOUS
<1>2. IInv => AnswersAreTrue
  BY DEF IInv, AnswerInv
<1> QED
  BY <1>1, <1>2, Invariance, PTL
=============================================================================
