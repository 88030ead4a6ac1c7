--------------------------- MODULE PublicationProofs ---------------------------
(***************************************************************************)
(* The collectors take nothing that a pointer names, a fetch that resolves *)
(* finds its bytes, a failed publication leaves nothing, and what a        *)
(* revision selects is served, unless a push overlapped its publication or *)
(* it was deleted while another revision was published: for any number of  *)
(* tags, publications, pushes and collectors.                              *)
(***************************************************************************)
EXTENDS Publication, FiniteSetTheorems, TLAPS

\* What steps leave alone is listed with the history variables as one.
USE DEF history

-----------------------------------------------------------------------------
(* The inductive invariant.                                                *)

\* Nobody has queued the artifact, and no pointer names it.
Fresh(a) == jobs[a] = "none" /\ ~Referenced(a)

\* What the collectors have in hand is in the queue.
CollectorsQueued ==
    \A g \in Collectors :
        /\ collector[g].step # "idle" => collector[g].at # NoArtifact
        /\ collector[g].at # NoArtifact => jobs[collector[g].at] # "none"
        /\ \A a \in collector[g].todo : jobs[a] # "none"

\* An artifact is what one pointer serves.
PointersDistinct ==
    \A i, j \in PointerIds :
        pointers[i].artifact = pointers[j].artifact /\ pointers[i].artifact # NoArtifact => i = j

\* What a publication or a push has not handed over is fresh.
OwnArtifactsFresh ==
    /\ \A p \in Publications, t \in Tags :
         publication[p].stage \in {"start", "building", "listed"} =>
             Fresh(<<p, t>>) /\ artifacts[<<p, t>>].state = "none"
    /\ \A s \in Pushes, p \in Publications : push[s].stage # "done" => Fresh(<<s, p>>)

\* The tag of a push is known until it is done.
PushesTagged ==
    \A s \in Pushes : push[s].stage \in {"checked", "prepared", "moved"} => push[s].tag \in Tags

\* An artifact is stored under its own id: the distribution that a publication
\* would reuse has an artifact that already has its storage key.
StorageKeys ==
    /\ \A a \in Artifacts : artifacts[a].storage = a
    /\ \A t \in Tags : distributions[t] # NoDistribution =>
          /\ distributions[t].storage \in Artifacts
          /\ artifacts[distributions[t].storage].state # "none"
    /\ \A p \in Publications :
          /\ publication[p].stage \in {"start", "failed"} => publication[p].built = {}
          /\ publication[p].built \subseteq publication[p].tags
          /\ \A t \in publication[p].reused : distributions[t] # NoDistribution
          /\ publication[p].stage = "listed" =>
                publication[p].tags \subseteq publication[p].built \cup publication[p].reused

QueueInv ==
    /\ TypeOK /\ CollectedIsUnreferenced /\ CollectorsQueued /\ PointersDistinct
    /\ OwnArtifactsFresh /\ PushesTagged /\ StorageKeys

\* The rest rests on Publish being told the truth.

\* A publication that has not succeeded has no rows and is not published, and
\* keeps account of its bytes and its listing.
UnpublishedHasNoRows ==
    \A p \in Publications : publication[p].stage # "published" =>
        /\ published # p
        /\ \A t \in Tags : artifacts[<<p, t>>].state = "none" /\ ~Referenced(<<p, t>>)
        /\ \A t \in Tags : disk[<<p, t>>] # NoCommit => t \in publication[p].built
        /\ p \in listings => publication[p].stage \in {"listed", "failing"}

PublishedHasListing ==
    \A p \in Publications : publication[p].stage \in {"listed", "published"} => p \in listings

\* What a pointer names, or a push is about to make it name, is there.
BytesKept ==
    /\ \A a \in Artifacts : Referenced(a) /\ artifacts[a].state = "ready" =>
          disk[a] = artifacts[a].commit
    /\ \A s \in Pushes, p \in Publications :
          push[s].stage \in {"prepared", "moved"} /\ p \in push[s].plan /\ push[s].new # NoCommit =>
              disk[<<s, p>>] = push[s].new /\ artifacts[<<s, p>>].commit = push[s].new

ServingInv == UnpublishedHasNoRows /\ PublishedHasListing /\ BytesKept

IInv == QueueInv /\ (~CommitAckMayBeLost => ServingInv)

-----------------------------------------------------------------------------
(* Ids, and the beginning.                                                 *)

LEMMA Ids ==
    /\ \A p \in Publications, t \in Tags : <<p, t>> \in Artifacts /\ <<p, t>> \in PointerIds
    /\ \A s \in Pushes, p \in Publications : <<s, p>> \in Artifacts
    /\ \A s \in Pushes, p, q \in Publications, t \in Tags : <<s, p>> # <<q, t>>
    /\ \A i \in PointerIds : i[1] \in Publications /\ i[2] \in Tags /\ i = <<i[1], i[2]>>
  BY ArtifactIds, ActorIds

LEMMA InitInv == Init => IInv
<1> SUFFICES ASSUME Init PROVE IInv
    OBVIOUS
<1> USE NullIds DEF Init, GCInit, NoPointer, NoDistribution, NewPublication, NoPush, Row, Idle
<1>1. TypeOK
  <2>1. GCTypeOK
      BY DEF GCTypeOK, JobStates
  <2>2. /\ artifacts \in [Artifacts -> [storage : Artifacts, commit : Commits \cup {NoCommit},
                                        state : {"none", "staged", "ready"}]]
        /\ pointers \in [PointerIds -> [artifact : Artifacts \cup {NoArtifact}, available : BOOLEAN]]
        /\ refs \in [Tags -> Commits \cup {NoCommit}]
        /\ distributions \in [Tags -> [storage : Artifacts \cup {NoArtifact},
                                       commit : Commits \cup {NoCommit}]]
      OBVIOUS
  <2>3. publication \in [Publications -> [stage : PublicationStages, tags : SUBSET Tags,
                                         built : SUBSET Tags, reused : SUBSET Tags, number : Nat]]
      BY DEF PublicationStages
  <2>4. push \in [Pushes -> [stage : PushStages, tag : Tags \cup {NoTag}, new : Commits \cup {NoCommit},
                            plan : SUBSET Publications]]
      BY DEF PushStages
  <2> QED
      BY <2>1, <2>2, <2>3, <2>4 DEF TypeOK
<1>2. \A a \in Artifacts : ~Referenced(a)
    BY DEF Referenced
<1>3. CollectedIsUnreferenced /\ CollectorsQueued /\ PointersDistinct /\ PushesTagged
    BY DEF CollectedIsUnreferenced, CollectorsQueued, PointersDistinct, PushesTagged
<1>4. OwnArtifactsFresh
    BY <1>2, Ids DEF OwnArtifactsFresh, Fresh
<1>5. StorageKeys
    BY DEF StorageKeys
<1>6. ServingInv
  <2>1. UnpublishedHasNoRows
      BY <1>2, Ids DEF UnpublishedHasNoRows
  <2>2. PublishedHasListing /\ BytesKept
      BY <1>2 DEF PublishedHasListing, BytesKept
  <2> QED
      BY <2>1, <2>2 DEF ServingInv
<1> QED
    BY <1>1, <1>3, <1>4, <1>5, <1>6 DEF IInv, QueueInv

-----------------------------------------------------------------------------
(* Types.                                                                  *)

LEMMA RowTypes ==
    ASSUME NEW a \in Artifacts, NEW c \in Commits \cup {NoCommit}, NEW st \in {"staged", "ready"}
    PROVE  Row(a, c, st) \in [storage : Artifacts, commit : Commits \cup {NoCommit},
                              state : {"none", "staged", "ready"}]
  BY DEF Row

PublicationRecords == [stage : PublicationStages, tags : SUBSET Tags,
                       built : SUBSET Tags, reused : SUBSET Tags, number : Nat]

\* The steps of Publish that touch no row but those of the revision.
LEMMA PublicationTypes ==
    ASSUME TypeOK, NEW p \in Publications, NEW r \in PublicationRecords,
           publication' = [publication EXCEPT ![p] = r],
           disk' \in [Artifacts -> Commits \cup {NoCommit}],
           listings' \subseteq Publications, raced' \subseteq Publications,
           superseded' \subseteq Publications,
           UNCHANGED <<artifacts, pointers, jobs, collector, refs, versions, distributions,
                       published, push>>
    PROVE  TypeOK'
<1>1. publication' \in [Publications -> PublicationRecords]
    BY DEF TypeOK, PublicationRecords
<1>2. GCTypeOK'
    BY DEF TypeOK, GCTypeOK
<1> QED
    BY <1>1, <1>2 DEF TypeOK, PublicationRecords

LEMMA PublishTypes ==
    ASSUME TypeOK, StorageKeys, NEW p \in Publications, PublishStep(p)
    PROVE  TypeOK'
<1> DEFINE r == publication[p]
<1>0. /\ r \in PublicationRecords /\ publication = [q \in Publications |-> publication[q]]
      /\ disk \in [Artifacts -> Commits \cup {NoCommit}]
      /\ listings \subseteq Publications /\ raced \subseteq Publications
      /\ superseded \subseteq Publications
    BY DEF TypeOK, GCTypeOK, PublicationRecords
<1>1. CASE Load(p)
  <2>1. PICK T \in SUBSET Tags : publication' = [publication EXCEPT ![p] = [r EXCEPT !.stage = "building", !.tags = T]]
      BY <1>0, <1>1 DEF Load
  <2>2. [r EXCEPT !.stage = "building", !.tags = T] \in PublicationRecords
      BY <1>0 DEF PublicationRecords, PublicationStages
  <2> QED
      BY ZenonT(60), <1>0, <1>1, <2>1, <2>2, PublicationTypes DEF Load, gcVars
<1>2. CASE Reuse(p)
  <2>1. PICK t \in Tags : publication' = [publication EXCEPT ![p] = [r EXCEPT !.reused = @ \cup {t}]]
      BY <1>0, <1>2 DEF Reuse, Remaining, PublicationRecords
  <2>2. [r EXCEPT !.reused = @ \cup {t}] \in PublicationRecords
      BY <1>0 DEF PublicationRecords
  <2> QED
      BY <1>0, <1>2, <2>1, <2>2, PublicationTypes DEF Reuse, gcVars
<1>3. CASE Build(p)
  <2>1. PICK t \in Tags : /\ publication' = [publication EXCEPT ![p] = [r EXCEPT !.built = @ \cup {t}]]
                          /\ disk' = [disk EXCEPT ![<<p, t>>] = refs[t]]
      BY <1>0, <1>3 DEF Build, Remaining, PublicationRecords
  <2>2. [r EXCEPT !.built = @ \cup {t}] \in PublicationRecords
      BY <1>0 DEF PublicationRecords
  <2>3. disk' \in [Artifacts -> Commits \cup {NoCommit}]
      BY <1>0, <2>1 DEF TypeOK
  <2> QED
      BY <1>0, <1>3, <2>1, <2>2, <2>3, PublicationTypes DEF Build
<1>4. CASE BuildListing(p)
  <2>1. publication' = [publication EXCEPT ![p] =
                            [r EXCEPT !.stage = "listed", !.number = Cardinality(Revisions) + 1]]
      BY <1>0, <1>4 DEF BuildListing
  <2>2. Cardinality(Revisions) + 1 \in Nat
    <3>1. Revisions \subseteq Publications
        BY DEF Revisions
    <3>2. Cardinality(Revisions) \in Nat
        BY <3>1, ActorIds, FS_Subset, FS_CardinalityType
    <3> QED
        BY <3>2
  <2>3. [r EXCEPT !.stage = "listed", !.number = Cardinality(Revisions) + 1] \in PublicationRecords
    <3>1. \A n \in Nat : [r EXCEPT !.stage = "listed", !.number = n] \in PublicationRecords
        BY <1>0 DEF PublicationRecords, PublicationStages
    <3> QED
        BY <2>2, <3>1
  <2> QED
      BY ZenonT(60), <1>0, <1>4, <2>1, <2>3, PublicationTypes DEF BuildListing, gcVars
<1>5. CASE PublishFails(p)
  <2>1. publication' = [publication EXCEPT ![p] = [r EXCEPT !.stage = "failing"]]
      BY <1>0, <1>5 DEF PublishFails
  <2>2. [r EXCEPT !.stage = "failing"] \in PublicationRecords
      BY <1>0 DEF PublicationRecords, PublicationStages
  <2> QED
      BY <1>0, <1>5, <2>1, <2>2, PublicationTypes DEF PublishFails, gcVars
<1>6. CASE Compensate(p)
  <2>1. [NewPublication EXCEPT !.stage = "failed"] \in PublicationRecords
      BY DEF PublicationRecords, PublicationStages, NewPublication
  <2>2. disk' \in [Artifacts -> Commits \cup {NoCommit}]
      BY <1>0, <1>6 DEF Compensate
  <2> QED
      BY <1>0, <1>6, <2>1, <2>2, PublicationTypes DEF Compensate
<1>7. CASE Rollback(p)
  <2>1. GCTypeOK'
      BY <1>7 DEF Rollback, TypeOK, gcVars, GCTypeOK
  <2> QED
      BY <1>7, <2>1 DEF Rollback, SwitchTo, TypeOK, gcVars
<1>8. CASE Publish(p)
  <2>1. publication' \in [Publications -> PublicationRecords]
    <3>1. PICK st \in PublicationStages : publication' = [publication EXCEPT ![p] = [r EXCEPT !.stage = st]]
        BY <1>0, <1>8 DEF Publish, PublicationStages
    <3>2. [r EXCEPT !.stage = st] \in PublicationRecords
        BY <1>0 DEF PublicationRecords
    <3> QED
        BY <3>1, <3>2 DEF TypeOK, PublicationRecords
  <2>2. \A t \in r.tags : /\ t \in Tags
                          /\ ArtifactOf(p, t) \in [storage : Artifacts, commit : Commits \cup {NoCommit},
                                                   state : {"none", "staged", "ready"}]
    <3> SUFFICES ASSUME NEW t \in r.tags
                 PROVE  /\ t \in Tags
                        /\ ArtifactOf(p, t) \in [storage : Artifacts, commit : Commits \cup {NoCommit},
                                                 state : {"none", "staged", "ready"}]
        OBVIOUS
    <3>1. t \in Tags
        BY <1>0 DEF PublicationRecords
    <3>2. CASE t \in r.built
        BY <1>0, <3>1, <3>2, Ids, RowTypes DEF ArtifactOf
    <3>3. CASE t \notin r.built
      <4>1. distributions[t] # NoDistribution
          BY <1>8, <3>3 DEF Publish, Insert, StorageKeys
      <4>2. distributions[t].storage \in Artifacts /\ distributions[t].commit \in Commits \cup {NoCommit}
          BY <3>1, <4>1 DEF StorageKeys, TypeOK
      <4> QED
          BY <3>1, <3>3, <4>2, RowTypes DEF ArtifactOf
    <3> QED
        BY <3>1, <3>2, <3>3
  <2>3. artifacts' \in [Artifacts -> [storage : Artifacts, commit : Commits \cup {NoCommit},
                                      state : {"none", "staged", "ready"}]]
    <3>1. \A a \in {p} \X r.tags : ArtifactOf(p, a[2]) \in
              [storage : Artifacts, commit : Commits \cup {NoCommit}, state : {"none", "staged", "ready"}]
        BY <2>2
    <3>2. artifacts' = [a \in Artifacts |-> IF a \in {p} \X r.tags THEN ArtifactOf(p, a[2]) ELSE artifacts[a]]
        BY <1>8 DEF Publish, Insert
    <3> QED
        BY <3>1, <3>2 DEF TypeOK
  <2>4. pointers' \in [PointerIds -> [artifact : Artifacts \cup {NoArtifact}, available : BOOLEAN]]
      BY <1>8, ArtifactIds DEF Publish, Insert, TypeOK
  <2>5. distributions' \in [Tags -> [storage : Artifacts \cup {NoArtifact}, commit : Commits \cup {NoCommit}]]
      BY <1>0, <1>8, Ids DEF Publish, Insert, TypeOK
  <2>6. /\ GCTypeOK' /\ published' \in Publications \cup {NoRevision}
        /\ superseded' \subseteq Publications
      BY <1>8 DEF Publish, Insert, SwitchTo, TypeOK, GCTypeOK
  <2> QED
      BY <1>8, <2>1, <2>3, <2>4, <2>5, <2>6 DEF Publish, Insert, TypeOK, PublicationRecords
<1> QED
    BY <1>1, <1>2, <1>3, <1>4, <1>5, <1>6, <1>7, <1>8 DEF PublishStep

PushRecords == [stage : PushStages, tag : Tags \cup {NoTag}, new : Commits \cup {NoCommit},
                plan : SUBSET Publications]
ArtifactRecords == [storage : Artifacts, commit : Commits \cup {NoCommit},
                    state : {"none", "staged", "ready"}]

LEMMA EnqueueTypes ==
    ASSUME TypeOK, NEW A, Enqueue(A)
    PROVE  jobs' \in [Artifacts -> JobStates] /\ \A a \in Artifacts : jobs[a] # "none" => jobs'[a] # "none"
  BY DEF Enqueue, JobStates, TypeOK, GCTypeOK

LEMMA ReceiveTypes ==
    ASSUME TypeOK, PushesTagged, NEW s \in Pushes, Receive(s)
    PROVE  TypeOK'
<1>0. /\ push \in [Pushes -> PushRecords] /\ artifacts \in [Artifacts -> ArtifactRecords]
      /\ disk \in [Artifacts -> Commits \cup {NoCommit}] /\ push[s] \in PushRecords
      /\ pointers \in [PointerIds -> [artifact : Artifacts \cup {NoArtifact}, available : BOOLEAN]]
    BY DEF TypeOK, GCTypeOK, PushRecords, ArtifactRecords
<1>1. NoPush("done") \in PushRecords
    BY DEF NoPush, PushRecords, PushStages
<1>2. \A st \in PushStages : [push[s] EXCEPT !.stage = st] \in PushRecords
    BY <1>0 DEF PushRecords
<1>3. ASSUME NEW t \in Tags, NEW new \in Commits \cup {NoCommit}, Preflight(s, t, new) PROVE TypeOK'
  <2>1. [stage |-> "checked", tag |-> t, new |-> new, plan |-> Selecting(t)] \in PushRecords
      BY DEF PushRecords, PushStages, Selecting, Revisions
  <2>2. push' \in [Pushes -> PushRecords]
      BY <1>0, <1>3, <2>1 DEF Preflight
  <2>3. raced' \subseteq Publications /\ GCTypeOK'
      BY <1>3 DEF Preflight, TypeOK, gcVars, GCTypeOK
  <2> QED
      BY <1>3, <2>2, <2>3 DEF Preflight, TypeOK, gcVars, PushRecords
<1>4. CASE Persist(s)
  <2>1. push' \in [Pushes -> PushRecords]
    <3>1. push' = [push EXCEPT ![s] = [push[s] EXCEPT !.stage = "prepared"]]
        BY <1>0, <1>4 DEF Persist
    <3> QED
        BY <1>0, <1>2, <3>1 DEF PushStages
  <2>2. disk' \in [Artifacts -> Commits \cup {NoCommit}]
      BY <1>0, <1>4 DEF Persist, PushRecords
  <2>3. artifacts' \in [Artifacts -> ArtifactRecords]
      BY <1>0, <1>4, RowTypes DEF Persist, PushRecords, ArtifactRecords
  <2>4. pointers' \in [PointerIds -> [artifact : Artifacts \cup {NoArtifact}, available : BOOLEAN]]
      BY <1>0, <1>4 DEF Persist
  <2>5. GCTypeOK'
      BY <1>4, <2>2 DEF Persist, TypeOK, GCTypeOK
  <2> QED
      BY <1>4, <2>1, <2>3, <2>4, <2>5 DEF Persist, TypeOK, PushRecords, ArtifactRecords
<1>5. CASE Reject(s)
  <2>1. push' \in [Pushes -> PushRecords] /\ GCTypeOK'
      BY <1>0, <1>1, <1>5 DEF Reject, TypeOK, gcVars, GCTypeOK
  <2> QED
      BY <1>5, <2>1 DEF Reject, TypeOK, gcVars, PushRecords
<1>6. CASE MoveRef(s)
  <2>1. push' \in [Pushes -> PushRecords]
    <3>1. push' = [push EXCEPT ![s] = [push[s] EXCEPT !.stage = "moved"]]
        BY <1>0, <1>6 DEF MoveRef
    <3> QED
        BY <1>0, <1>2, <3>1 DEF PushStages
  <2>2. GCTypeOK' /\ refs' \in [Tags -> Commits \cup {NoCommit}]
      BY <1>0, <1>6 DEF MoveRef, TypeOK, gcVars, GCTypeOK, PushRecords
  <2> QED
      BY <1>6, <2>1, <2>2 DEF MoveRef, TypeOK, gcVars, PushRecords
<1>7. CASE Complete(s)
  <2>1. push' \in [Pushes -> PushRecords]
      BY <1>0, <1>1, <1>7 DEF Complete
  <2>2. versions' \in [Tags -> Commits \cup {NoCommit}]
      BY <1>0, <1>7 DEF Complete, TypeOK, PushRecords
  <2>3. artifacts' \in [Artifacts -> ArtifactRecords]
      BY SMTT(30), <1>0, <1>7 DEF Complete, ArtifactRecords
  <2>4. pointers' \in [PointerIds -> [artifact : Artifacts \cup {NoArtifact}, available : BOOLEAN]]
      BY <1>0, <1>7, Ids DEF Complete
  <2>5. GCTypeOK'
      BY <1>7, EnqueueTypes DEF Complete, TypeOK, GCTypeOK
  <2> QED
      BY <1>7, <2>1, <2>2, <2>3, <2>4, <2>5 DEF Complete, TypeOK, PushRecords, ArtifactRecords
<1>8. CASE Abort(s)
  <2>1. push' \in [Pushes -> PushRecords]
      BY <1>0, <1>1, <1>8 DEF Abort
  <2>2. pointers' \in [PointerIds -> [artifact : Artifacts \cup {NoArtifact}, available : BOOLEAN]]
      BY <1>0, <1>8 DEF Abort
  <2>3. GCTypeOK'
      BY <1>8, EnqueueTypes DEF Abort, TypeOK, GCTypeOK
  <2> QED
      BY <1>8, <2>1, <2>2, <2>3 DEF Abort, TypeOK, PushRecords
<1> QED
    BY <1>3, <1>4, <1>5, <1>6, <1>7, <1>8 DEF Receive

CollectorRecords == [todo : SUBSET Artifacts, at : Artifacts \cup {NoArtifact},
                     step : {"idle", "claimed", "counted", "removed"}]

\* A collector claims a queued job, closes the one it has, removes its bytes, or
\* concerns nobody but itself.
SelfStep(g, r) ==
    /\ collector' = [collector EXCEPT ![g] = r]
    /\ r.step # "idle" => r.at # NoArtifact
    /\ r.at # NoArtifact => jobs[r.at] # "none"
    /\ \A a \in r.todo : jobs[a] # "none"
    /\ UNCHANGED <<disk, artifacts, pointers, jobs>>

LEMMA CollectSteps ==
    ASSUME TypeOK, CollectorsQueued, Collect
    PROVE  \E g \in Collectors :
             \/ \E a \in Artifacts : jobs[a] # "none" /\ Claim(g, a)
             \/ \E state \in JobStates \ {"none"} : collector[g].step # "idle" /\ Close(g, state)
             \/ collector[g].step # "idle" /\ RemoveBytes(g)
             \/ \E r \in CollectorRecords : SelfStep(g, r)
<1> USE DEF JobStates
<1>0. ASSUME NEW g \in Collectors, Stop(g) PROVE \E r \in CollectorRecords : SelfStep(g, r)
  <2>1. Idle \in CollectorRecords
      BY DEF Idle, CollectorRecords
  <2>2. SelfStep(g, Idle)
      BY <1>0, NullIds DEF Stop, SelfStep, Idle
  <2> QED
      BY <2>1, <2>2
<1>1. ASSUME NEW g \in Runners, RunOnce(g)
      PROVE  \/ \E a \in Artifacts : jobs[a] # "none" /\ Claim(g, a)
             \/ \E state \in JobStates \ {"none"} : collector[g].step # "idle" /\ Close(g, state)
             \/ collector[g].step # "idle" /\ RemoveBytes(g)
             \/ \E r \in CollectorRecords : SelfStep(g, r)
  <2>1. CASE RunClaim(g)
      BY <2>1 DEF RunClaim
  <2>2. CASE RunRemove(g)
      BY <2>2 DEF RunRemove
  <2>3. CASE RunRemoveFails(g) \/ RunComplete(g)
      BY <2>3 DEF RunRemoveFails, RunComplete, RunClose
  <2>4. CASE Stop(g)
      BY <2>4, <1>0 DEF Collectors
  <2> QED
      BY <1>1, <2>1, <2>2, <2>3, <2>4 DEF RunOnce
<1>2. ASSUME NEW g \in Sweepers, RunProjectionGC(g)
      PROVE  \/ \E a \in Artifacts : jobs[a] # "none" /\ Claim(g, a)
             \/ \E state \in JobStates \ {"none"} : collector[g].step # "idle" /\ Close(g, state)
             \/ collector[g].step # "idle" /\ RemoveBytes(g)
             \/ \E r \in CollectorRecords : SelfStep(g, r)
  <2>0. g \in Collectors /\ collector[g] \in CollectorRecords /\ collector \in [Collectors -> CollectorRecords]
      BY DEF Collectors, TypeOK, GCTypeOK, CollectorRecords
  <2>1. CASE SweepList(g)
    <3>1. PICK due \in SUBSET {a \in Artifacts : jobs[a] \in {"pending", "running"}} :
              collector' = [collector EXCEPT ![g] = [collector[g] EXCEPT !.todo = due]]
        BY <2>0, <2>1 DEF SweepList
    <3>2. [collector[g] EXCEPT !.todo = due] \in CollectorRecords
        BY <2>0 DEF CollectorRecords
    <3>3. /\ [collector[g] EXCEPT !.todo = due].step = "idle" /\ [collector[g] EXCEPT !.todo = due].todo = due
          /\ [collector[g] EXCEPT !.todo = due].at = NoArtifact
        BY <2>0, <2>1 DEF SweepList, CollectorRecords, Idle
    <3>4. UNCHANGED <<disk, artifacts, pointers, jobs>>
        BY <2>1 DEF SweepList
    <3>5. SelfStep(g, [collector[g] EXCEPT !.todo = due])
        BY <3>1, <3>3, <3>4 DEF SelfStep
    <3> QED
        BY <3>2, <3>5
  <2>2. CASE SweepClaim(g)
      BY <2>0, <2>2 DEF SweepClaim, CollectorsQueued, CollectorRecords
  <2>3. CASE SweepCount(g)
    <3>1. collector' = [collector EXCEPT ![g] = [collector[g] EXCEPT !.step = "counted"]]
        BY <2>0, <2>3 DEF SweepCount, At
    <3>2. [collector[g] EXCEPT !.step = "counted"] \in CollectorRecords
        BY <2>0 DEF CollectorRecords
    <3>3. SelfStep(g, [collector[g] EXCEPT !.step = "counted"])
        BY <2>0, <2>3, <3>1 DEF SweepCount, SelfStep, CollectorRecords, CollectorsQueued
    <3> QED
        BY <3>2, <3>3
  <2>4. CASE SweepRemove(g)
      BY <2>4 DEF SweepRemove
  <2>5. CASE SweepManual(g) \/ SweepComplete(g)
      BY <2>5 DEF SweepManual, SweepComplete
  <2>6. CASE Stop(g)
      BY <2>0, <2>6, <1>0
  <2> QED
      BY <1>2, <2>1, <2>2, <2>3, <2>4, <2>5, <2>6 DEF RunProjectionGC
<1> QED
    BY <1>1, <1>2 DEF Collect, Collectors

\* Collectors change jobs, and the bytes of queued artifacts.
LEMMA CollectKeeps ==
    ASSUME QueueInv, Collect
    PROVE  /\ GCTypeOK' /\ CollectorsQueued' /\ UNCHANGED <<artifacts, pointers>>
           /\ \A a \in Artifacts : jobs'[a] = "none" <=> jobs[a] = "none"
           /\ \A a \in Artifacts : disk'[a] = disk[a] \/ (disk'[a] = NoCommit /\ jobs[a] # "none")
<1> USE DEF JobStates
<1>0. /\ TypeOK /\ CollectorsQueued /\ collector \in [Collectors -> CollectorRecords]
      /\ jobs \in [Artifacts -> JobStates] /\ disk \in [Artifacts -> Commits \cup {NoCommit}]
      /\ \A a \in Artifacts : artifacts[a].storage = a
    BY DEF QueueInv, TypeOK, GCTypeOK, CollectorRecords, StorageKeys
<1>1. PICK g \in Collectors :
             \/ \E a \in Artifacts : jobs[a] # "none" /\ Claim(g, a)
             \/ \E state \in JobStates \ {"none"} : collector[g].step # "idle" /\ Close(g, state)
             \/ collector[g].step # "idle" /\ RemoveBytes(g)
             \/ \E r \in CollectorRecords : SelfStep(g, r)
    BY <1>0, CollectSteps
<1>2. collector[g].step # "idle" => collector[g].at \in Artifacts /\ jobs[collector[g].at] # "none"
    BY <1>0 DEF CollectorsQueued, CollectorRecords
<1>3. ASSUME NEW a \in Artifacts, jobs[a] # "none", Claim(g, a)
      PROVE  /\ jobs' \in [Artifacts -> JobStates] /\ collector' \in [Collectors -> CollectorRecords]
             /\ CollectorsQueued' /\ UNCHANGED <<disk, artifacts, pointers>>
             /\ \A b \in Artifacts : jobs'[b] = "none" <=> jobs[b] = "none"
  <2>1. collector' \in [Collectors -> CollectorRecords]
      BY <1>0, <1>3 DEF Claim, CollectorRecords
  <2>2. jobs' \in [Artifacts -> JobStates] /\ \A b \in Artifacts : jobs'[b] = "none" <=> jobs[b] = "none"
      BY <1>0, <1>3 DEF Claim
  <2>3. CollectorsQueued'
      BY <1>0, <1>3, <2>2, NullIds DEF Claim, CollectorsQueued, CollectorRecords
  <2> QED
      BY <1>3, <2>1, <2>2, <2>3 DEF Claim
<1>4. ASSUME NEW state \in JobStates \ {"none"}, collector[g].step # "idle", Close(g, state)
      PROVE  /\ jobs' \in [Artifacts -> JobStates] /\ collector' \in [Collectors -> CollectorRecords]
             /\ CollectorsQueued' /\ UNCHANGED <<disk, artifacts, pointers>>
             /\ \A b \in Artifacts : jobs'[b] = "none" <=> jobs[b] = "none"
  <2>1. collector' \in [Collectors -> CollectorRecords]
    <3>1. [collector[g] EXCEPT !.at = NoArtifact, !.step = "idle"] \in CollectorRecords
        BY ZenonT(60), <1>0 DEF CollectorRecords
    <3>2. \A h \in Collectors : [collector[h] EXCEPT !.todo = @ \ {collector[g].at}] \in CollectorRecords
        BY <1>0 DEF CollectorRecords
    <3> QED
        BY <1>4, <3>1, <3>2 DEF Close
  <2>2. jobs' \in [Artifacts -> JobStates] /\ \A b \in Artifacts : jobs'[b] = "none" <=> jobs[b] = "none"
      BY <1>0, <1>2, <1>4 DEF Close
  <2>3. CollectorsQueued'
      BY <1>0, <1>4, <2>2, NullIds DEF Close, CollectorsQueued, CollectorRecords
  <2> QED
      BY <1>4, <2>1, <2>2, <2>3 DEF Close
<1>5. ASSUME collector[g].step # "idle", RemoveBytes(g)
      PROVE  /\ GCTypeOK' /\ CollectorsQueued' /\ UNCHANGED <<artifacts, pointers, jobs>>
             /\ \A a \in Artifacts : disk'[a] = disk[a] \/ (disk'[a] = NoCommit /\ jobs[a] # "none")
  <2>1. disk' = [disk EXCEPT ![collector[g].at] = NoCommit]
      BY <1>0, <1>2, <1>5 DEF RemoveBytes
  <2>2. collector' \in [Collectors -> CollectorRecords]
      BY <1>0, <1>5 DEF RemoveBytes, At, CollectorRecords
  <2>3. CollectorsQueued'
    <3>1. jobs' = jobs /\ \A h \in Collectors :
            /\ collector'[h].at = collector[h].at /\ collector'[h].todo = collector[h].todo
            /\ collector'[h].step # "idle" => collector[h].step # "idle"
        BY <1>0, <1>5 DEF RemoveBytes, At, CollectorRecords
    <3> QED
        BY <1>0, <3>1 DEF CollectorsQueued
  <2>4. UNCHANGED <<artifacts, pointers, jobs>>
      BY <1>5 DEF RemoveBytes
  <2>5. GCTypeOK'
      BY <1>0, <1>2, <2>1, <2>2, <2>4 DEF GCTypeOK, CollectorRecords
  <2>6. \A a \in Artifacts : disk'[a] = disk[a] \/ (disk'[a] = NoCommit /\ jobs[a] # "none")
      BY <1>0, <1>2, <1>5, <2>1
  <2> QED
      BY <2>3, <2>4, <2>5, <2>6
<1>6. ASSUME NEW r \in CollectorRecords, SelfStep(g, r)
      PROVE  /\ collector' \in [Collectors -> CollectorRecords]
             /\ CollectorsQueued' /\ UNCHANGED <<disk, artifacts, pointers, jobs>>
  <2>1. collector' \in [Collectors -> CollectorRecords] /\ UNCHANGED <<disk, artifacts, pointers, jobs>>
      BY <1>0, <1>6 DEF SelfStep
  <2>2. CollectorsQueued'
      BY <1>0, <1>6 DEF SelfStep, CollectorsQueued
  <2> QED
      BY <2>1, <2>2
<1>7. CASE collector[g].step # "idle" /\ RemoveBytes(g)
    BY <1>0, <1>5, <1>7
<1>8. CASE ~(collector[g].step # "idle" /\ RemoveBytes(g))
  <2>1. /\ jobs' \in [Artifacts -> JobStates] /\ collector' \in [Collectors -> CollectorRecords]
        /\ CollectorsQueued' /\ UNCHANGED <<disk, artifacts, pointers>>
        /\ \A a \in Artifacts : jobs'[a] = "none" <=> jobs[a] = "none"
      BY <1>0, <1>1, <1>3, <1>4, <1>6, <1>8
  <2>2. GCTypeOK'
      BY <1>0, <2>1 DEF GCTypeOK, CollectorRecords
  <2> QED
      BY <2>1, <2>2
<1> QED
    BY <1>7, <1>8

-----------------------------------------------------------------------------
(* The collectors.                                                         *)

LEMMA CollectInv == IInv /\ Collect /\ UNCHANGED ownVars => IInv'
<1> SUFFICES ASSUME IInv, Collect, UNCHANGED ownVars PROVE IInv'
    OBVIOUS
<1> USE Ids DEF ownVars
<1>0. QueueInv
    BY DEF IInv
<1>1. /\ GCTypeOK' /\ CollectorsQueued' /\ UNCHANGED <<artifacts, pointers>>
      /\ \A a \in Artifacts : jobs'[a] = "none" <=> jobs[a] = "none"
      /\ \A a \in Artifacts : disk'[a] = disk[a] \/ (disk'[a] = NoCommit /\ jobs[a] # "none")
    BY <1>0, CollectKeeps
<1>2. \A a \in Artifacts : Referenced(a)' <=> Referenced(a)
    BY <1>1 DEF Referenced
<1>3. TypeOK'
    BY <1>0, <1>1 DEF QueueInv, TypeOK
<1>4. CollectedIsUnreferenced'
    BY <1>0, <1>1, <1>2 DEF QueueInv, CollectedIsUnreferenced
<1>5. PointersDistinct' /\ PushesTagged' /\ StorageKeys'
    BY <1>0, <1>1 DEF QueueInv, PointersDistinct, PushesTagged, StorageKeys
<1>6. OwnArtifactsFresh'
    BY <1>0, <1>1, <1>2 DEF QueueInv, OwnArtifactsFresh, Fresh
<1>7. ASSUME ServingInv PROVE ServingInv'
  <2>1. UnpublishedHasNoRows'
      BY <1>1, <1>2, <1>7 DEF ServingInv, UnpublishedHasNoRows
  <2>2. PublishedHasListing'
      BY <1>7 DEF ServingInv, PublishedHasListing
  <2>3. BytesKept'
    <3>1. ASSUME NEW a \in Artifacts, Referenced(a), artifacts[a].state = "ready"
          PROVE  disk'[a] = artifacts[a].commit
        BY <1>0, <1>1, <1>7, <3>1 DEF QueueInv, CollectedIsUnreferenced, ServingInv, BytesKept
    <3>2. ASSUME NEW s \in Pushes, NEW p \in Publications,
                 push[s].stage \in {"prepared", "moved"}, p \in push[s].plan, push[s].new # NoCommit
          PROVE  disk'[<<s, p>>] = push[s].new /\ artifacts[<<s, p>>].commit = push[s].new
        BY <1>0, <1>1, <1>7, <3>2 DEF QueueInv, OwnArtifactsFresh, Fresh, ServingInv, BytesKept
    <3> QED
        BY <1>1, <1>2, <3>1, <3>2 DEF BytesKept
  <2> QED
      BY <2>1, <2>2, <2>3 DEF ServingInv
<1> QED
    BY <1>0, <1>1, <1>3, <1>4, <1>5, <1>6, <1>7 DEF IInv, QueueInv

-----------------------------------------------------------------------------
(* Publish.                                                                *)

\* Steps that leave jobs, pointers and artifacts as they are, and open nothing.
LEMMA RowsKept ==
    ASSUME QueueInv, TypeOK',
           UNCHANGED <<artifacts, pointers, jobs, collector, distributions>>,
           \A p \in Publications :
               /\ publication'[p].stage \in {"start", "building", "listed"} =>
                      publication[p].stage \in {"start", "building", "listed"}
               /\ publication'[p].stage \in {"start", "failed"} => publication'[p].built = {}
               /\ publication'[p].built \subseteq publication'[p].tags
               /\ \A t \in publication'[p].reused : distributions[t] # NoDistribution
               /\ publication'[p].stage = "listed" =>
                      publication'[p].tags \subseteq publication'[p].built \cup publication'[p].reused,
           \A s \in Pushes :
               /\ push'[s].stage # "done" => push[s].stage # "done"
               /\ push'[s].stage \in {"checked", "prepared", "moved"} => push'[s].tag \in Tags
    PROVE  QueueInv'
<1>1. \A a : Referenced(a)' <=> Referenced(a)
    BY DEF Referenced
<1>2. CollectedIsUnreferenced' /\ CollectorsQueued' /\ PointersDistinct'
    BY <1>1 DEF QueueInv, CollectedIsUnreferenced, CollectorsQueued, PointersDistinct
<1>3. OwnArtifactsFresh'
    BY <1>1 DEF QueueInv, OwnArtifactsFresh, Fresh
<1>4. PushesTagged' /\ StorageKeys'
    BY DEF QueueInv, PushesTagged, StorageKeys
<1> QED
    BY <1>2, <1>3, <1>4 DEF QueueInv

\* The steps of Publish before its transaction, its failure, and a rollback.
LEMMA BuildInv ==
    ASSUME IInv, NEW p \in Publications,
           Load(p) \/ Reuse(p) \/ BuildListing(p) \/ PublishFails(p) \/ Rollback(p) \/ Build(p)
    PROVE  IInv'
<1> USE Ids DEF gcVars, PublicationStages
<1>0. TypeOK /\ StorageKeys /\ PublishStep(p) /\ QueueInv
    BY DEF IInv, QueueInv, PublishStep
<1>1. TypeOK'
    BY <1>0, PublishTypes
<1>2. /\ UNCHANGED <<artifacts, pointers, jobs, collector, distributions, push>>
      /\ \A q \in Publications : q # p => publication'[q] = publication[q]
    BY ZenonT(60), <1>0 DEF Load, Reuse, BuildListing, PublishFails, Rollback, Build, TypeOK
<1> DEFINE r == publication[p]
           n == publication'[p]
<1>3. \/ Load(p) /\ r.stage = "start" /\ n.stage = "building" /\ n.built = r.built /\ n.reused = r.reused
      \/ /\ Reuse(p) /\ r.stage = "building" /\ n.stage = "building" /\ n.built = r.built /\ n.tags = r.tags
         /\ \E t \in Tags : distributions[t] # NoDistribution /\ n.reused = r.reused \cup {t}
      \/ /\ Build(p) /\ r.stage = "building" /\ n.stage = "building" /\ n.reused = r.reused
         /\ n.tags = r.tags /\ \E t \in r.tags : n.built = r.built \cup {t} /\ disk' = [disk EXCEPT ![<<p, t>>] = refs[t]]
      \/ /\ BuildListing(p) /\ r.stage = "building" /\ n.stage = "listed" /\ n.built = r.built
         /\ n.tags = r.tags /\ n.reused = r.reused /\ n.tags \subseteq n.built \cup n.reused
      \/ /\ PublishFails(p) /\ r.stage \in {"building", "listed"} /\ n.stage = "failing"
         /\ n.built = r.built /\ n.reused = r.reused /\ n.tags = r.tags
      \/ Rollback(p) /\ publication' = publication
  <2>0. /\ publication = [q \in Publications |-> publication[q]]
        /\ r \in PublicationRecords
      BY <1>0 DEF TypeOK, PublicationRecords
  <2>1. CASE Load(p)
    <3>1. PICK T : publication' = [publication EXCEPT ![p] = [r EXCEPT !.stage = "building", !.tags = T]]
        BY <2>0, <2>1 DEF Load
    <3> QED
        BY <2>0, <2>1, <3>1 DEF Load, PublicationRecords
  <2>2. CASE Reuse(p)
    <3>1. PICK t \in Remaining(p) : /\ publication' = [publication EXCEPT ![p] = [r EXCEPT !.reused = @ \cup {t}]]
                                    /\ distributions[t] # NoDistribution
        BY <2>0, <2>2 DEF Reuse
    <3>2. t \in Tags
        BY <2>0 DEF Remaining, PublicationRecords
    <3> QED
        BY <2>0, <2>2, <3>1, <3>2 DEF Reuse, PublicationRecords
  <2>3. CASE Build(p)
    <3>1. PICK t \in Remaining(p) : /\ publication' = [publication EXCEPT ![p] = [r EXCEPT !.built = @ \cup {t}]]
                                    /\ disk' = [disk EXCEPT ![<<p, t>>] = refs[t]]
        BY <2>0, <2>3 DEF Build
    <3>2. t \in r.tags
        BY <2>0 DEF Remaining, PublicationRecords
    <3> QED
        BY <2>0, <2>3, <3>1, <3>2 DEF Build, PublicationRecords
  <2>4. CASE BuildListing(p)
    <3>1. PICK m : publication' = [publication EXCEPT ![p] = [r EXCEPT !.stage = "listed", !.number = m]]
        BY <2>0, <2>4 DEF BuildListing
    <3>2. r.tags \subseteq r.built \cup r.reused
        BY <2>4 DEF BuildListing, Remaining
    <3> QED
        BY <2>0, <2>4, <3>1, <3>2 DEF BuildListing, PublicationRecords
  <2>5. CASE PublishFails(p)
    <3>1. publication' = [publication EXCEPT ![p] = [r EXCEPT !.stage = "failing"]]
        BY <2>0, <2>5 DEF PublishFails
    <3> QED
        BY <2>0, <2>5, <3>1 DEF PublishFails, Underway, PublicationRecords
  <2>6. CASE Rollback(p)
      BY <2>6 DEF Rollback
  <2> QED
      BY <2>1, <2>2, <2>3, <2>4, <2>5, <2>6
<1>4. /\ n.stage \in {"start", "building", "listed"} => r.stage \in {"start", "building", "listed"}
      /\ r.stage \in {"published", "failing", "failed"} => publication' = publication
      /\ n.stage = "published" => r.stage = "published"
      /\ r.built \subseteq n.built
    BY <1>3
<1>5. /\ n.stage \in {"start", "failed"} => n.built = {}
      /\ n.built \subseteq n.tags
      /\ \A t \in n.reused : distributions[t] # NoDistribution
      /\ n.stage = "listed" => n.tags \subseteq n.built \cup n.reused
    BY <1>0, <1>3 DEF StorageKeys
<1>6. QueueInv'
  <2>1. \A s \in Pushes : push[s].stage \in {"checked", "prepared", "moved"} => push[s].tag \in Tags
      BY <1>0 DEF QueueInv, PushesTagged
  <2>2. \A q \in Publications :
               /\ publication'[q].stage \in {"start", "building", "listed"} =>
                      publication[q].stage \in {"start", "building", "listed"}
               /\ publication'[q].stage \in {"start", "failed"} => publication'[q].built = {}
               /\ publication'[q].built \subseteq publication'[q].tags
               /\ \A t \in publication'[q].reused : distributions[t] # NoDistribution
               /\ publication'[q].stage = "listed" =>
                      publication'[q].tags \subseteq publication'[q].built \cup publication'[q].reused
      BY <1>0, <1>2, <1>4, <1>5 DEF StorageKeys
  <2> QED
      BY <1>0, <1>1, <1>2, <2>1, <2>2, RowsKept
<1>7. ASSUME ServingInv PROVE ServingInv'
  <2>0. n \in PublicationRecords /\ n.built \subseteq Tags
    <3>1. publication' \in [Publications -> PublicationRecords]
        BY <1>1 DEF TypeOK, PublicationRecords
    <3> QED
        BY <3>1 DEF PublicationRecords
  <2>1. \A a : Referenced(a)' <=> Referenced(a)
      BY <1>2 DEF Referenced
  <2>2. \/ disk' = disk
        \/ /\ r.stage = "building"
           /\ \E t \in n.built : disk' = [disk EXCEPT ![<<p, t>>] = refs[t]]
      BY <1>3 DEF Load, Reuse, BuildListing, PublishFails, Rollback
  <2>10. \A a \in Artifacts : disk'[a] = disk[a] \/ (r.stage = "building" /\ \E t \in n.built : a = <<p, t>>)
    <3>1. disk = [a \in Artifacts |-> disk[a]]
        BY <1>0 DEF TypeOK, GCTypeOK
    <3> QED
        BY <2>2, <3>1
  <2>3. \A q \in Publications : n.stage # "published" => published' # q \/ q # p
    <3>1. CASE Rollback(p)
        BY <1>0, <1>2, <1>4, <1>7, <3>1 DEF Rollback, SwitchTo, ServingInv, UnpublishedHasNoRows, Revisions
    <3>2. CASE ~Rollback(p)
        BY <1>3, <1>7, <3>2 DEF Load, Reuse, BuildListing, PublishFails, Build, ServingInv, UnpublishedHasNoRows
    <3> QED
        BY <3>1, <3>2
  <2>4. n.stage # "published" /\ p \in listings' => n.stage \in {"listed", "failing"}
      BY <1>3, <1>7 DEF Load, Reuse, BuildListing, PublishFails, Rollback, Build, ServingInv, UnpublishedHasNoRows
  <2>5. /\ \A q \in Publications : q # p /\ published' = q => published = q
        /\ listings \subseteq listings' /\ listings' \subseteq listings \cup {p}
      BY DEF Load, Reuse, BuildListing, PublishFails, Rollback, SwitchTo, Build
  <2>6. \A q \in Publications, t \in Tags : disk'[<<q, t>>] # NoCommit =>
            disk[<<q, t>>] # NoCommit \/ (q = p /\ t \in n.built)
      BY <2>10
  <2>7. UnpublishedHasNoRows'
    <3> SUFFICES ASSUME NEW q \in Publications, publication'[q].stage # "published"
                 PROVE  /\ published' # q
                        /\ \A t \in Tags : artifacts'[<<q, t>>].state = "none" /\ ~Referenced(<<q, t>>)'
                        /\ \A t \in Tags : disk'[<<q, t>>] # NoCommit => t \in publication'[q].built
                        /\ q \in listings' => publication'[q].stage \in {"listed", "failing"}
        BY DEF UnpublishedHasNoRows
    <3>1. publication[q].stage # "published"
        BY <1>2, <1>3
    <3>2. CASE q = p
        BY <1>2, <1>4, <1>7, <2>1, <2>3, <2>4, <2>6, <3>1, <3>2 DEF ServingInv, UnpublishedHasNoRows
    <3>3. CASE q # p
        BY <1>2, <1>7, <2>1, <2>5, <2>6, <3>1, <3>3 DEF ServingInv, UnpublishedHasNoRows
    <3> QED
        BY <3>2, <3>3
  <2>8. PublishedHasListing'
    <3>1. n.stage = "listed" => p \in listings'
      <4>1. CASE BuildListing(p)
          BY <4>1 DEF BuildListing
      <4>2. CASE Rollback(p)
          BY <1>7, <2>5, <4>2 DEF Rollback, ServingInv, PublishedHasListing
      <4> QED
          BY <1>3, <4>1, <4>2
    <3> QED
        BY <1>2, <1>4, <1>7, <2>5, <3>1 DEF ServingInv, PublishedHasListing
  <2>9. BytesKept'
    <3>1. ASSUME NEW a \in Artifacts, Referenced(a) PROVE disk'[a] = disk[a]
      <4>1. r.stage = "building" => \A t \in Tags : a # <<p, t>>
          BY <1>0, <3>1 DEF QueueInv, OwnArtifactsFresh, Fresh
      <4>2. n.built \subseteq Tags
          BY <2>0
      <4> QED
          BY <2>10, <4>1, <4>2
    <3>2. \A s \in Pushes, q \in Publications : disk'[<<s, q>>] = disk[<<s, q>>]
      <4>1. n.built \subseteq Tags
          BY <2>0
      <4> QED
          BY <2>10, <4>1
    <3> QED
        BY <1>2, <1>7, <2>1, <3>1, <3>2 DEF ServingInv, BytesKept
  <2> QED
      BY <2>7, <2>8, <2>9 DEF ServingInv
<1> QED
    BY <1>0, <1>6, <1>7 DEF IInv

LEMMA CompensateInv ==
    ASSUME IInv, NEW p \in Publications, Compensate(p)
    PROVE  IInv'
<1> USE Ids DEF gcVars
<1>0. /\ TypeOK /\ StorageKeys /\ PublishStep(p) /\ QueueInv
      /\ publication[p].stage = "failing" /\ publication'[p] = [NewPublication EXCEPT !.stage = "failed"]
      /\ \A q \in Publications : q # p => publication'[q] = publication[q]
      /\ listings' = listings \ {p}
      /\ UNCHANGED <<artifacts, pointers, jobs, collector, distributions, push, published>>
    BY DEF IInv, QueueInv, PublishStep, Compensate, TypeOK
<1>1. TypeOK'
    BY <1>0, PublishTypes
<1>2. publication'[p].stage = "failed" /\ publication'[p].reused = {} /\ publication'[p].built = {}
    BY <1>0 DEF NewPublication
<1>3. QueueInv'
  <2>1. \A s \in Pushes : push[s].stage \in {"checked", "prepared", "moved"} => push[s].tag \in Tags
      BY <1>0 DEF QueueInv, PushesTagged
  <2>2. \A q \in Publications :
               /\ publication'[q].stage \in {"start", "building", "listed"} =>
                      publication[q].stage \in {"start", "building", "listed"}
               /\ publication'[q].stage \in {"start", "failed"} => publication'[q].built = {}
               /\ publication'[q].built \subseteq publication'[q].tags
               /\ \A t \in publication'[q].reused : distributions[t] # NoDistribution
               /\ publication'[q].stage = "listed" =>
                      publication'[q].tags \subseteq publication'[q].built \cup publication'[q].reused
    <3> TAKE q \in Publications
    <3>1. CASE q = p
        BY <1>2, <3>1
    <3>2. CASE q # p
        BY <1>0, <3>2 DEF StorageKeys
    <3> QED
        BY <3>1, <3>2
  <2> QED
      BY <1>0, <1>1, <2>1, <2>2, RowsKept
<1>4. ASSUME ServingInv PROVE ServingInv'
  <2>1. \A a : Referenced(a)' <=> Referenced(a)
      BY <1>0 DEF Referenced
  <2>2. \A a \in Artifacts : disk'[a] = IF a \in {p} \X publication[p].built THEN NoCommit ELSE disk[a]
      BY DEF Compensate
  <2>3. /\ \A t \in Tags : disk[<<p, t>>] # NoCommit => t \in publication[p].built
        /\ \A t \in Tags : artifacts[<<p, t>>].state = "none" /\ ~Referenced(<<p, t>>)
        /\ published # p
      BY <1>0, <1>4 DEF ServingInv, UnpublishedHasNoRows
  <2>4. publication[p].built \subseteq Tags
      BY <1>0 DEF TypeOK
  <2>5. UnpublishedHasNoRows'
    <3> SUFFICES ASSUME NEW q \in Publications, publication'[q].stage # "published"
                 PROVE  /\ published' # q
                        /\ \A t \in Tags : artifacts'[<<q, t>>].state = "none" /\ ~Referenced(<<q, t>>)'
                        /\ \A t \in Tags : disk'[<<q, t>>] # NoCommit => t \in publication'[q].built
                        /\ q \in listings' => publication'[q].stage \in {"listed", "failing"}
        BY DEF UnpublishedHasNoRows
    <3>1. CASE q = p
        BY <1>0, <2>1, <2>2, <2>3, <3>1
    <3>2. CASE q # p
        BY <1>0, <1>4, <2>1, <2>2, <3>2 DEF ServingInv, UnpublishedHasNoRows
    <3> QED
        BY <3>1, <3>2
  <2>6. PublishedHasListing'
      BY <1>0, <1>2, <1>4 DEF ServingInv, PublishedHasListing
  <2>7. BytesKept'
    <3>1. \A a \in Artifacts : Referenced(a) => disk'[a] = disk[a]
        BY <2>2, <2>3, <2>4
    <3>2. \A s \in Pushes, q \in Publications : disk'[<<s, q>>] = disk[<<s, q>>]
        BY <2>2, <2>4
    <3> QED
        BY <1>0, <1>4, <2>1, <3>1, <3>2 DEF ServingInv, BytesKept
  <2> QED
      BY <2>5, <2>6, <2>7 DEF ServingInv
<1> QED
    BY <1>0, <1>3, <1>4 DEF IInv

\* The transaction inserts what this call built.
LEMMA InsertEffect ==
    ASSUME QueueInv, NEW p \in Publications, Insert(p)
    PROVE  /\ publication[p].tags \subseteq publication[p].built /\ publication[p].tags \subseteq Tags
           /\ \A a \in Artifacts :
                IF a \in {p} \X publication[p].tags
                THEN artifacts'[a].storage = a /\ artifacts'[a].commit = disk[a] /\ artifacts'[a].state = "ready"
                ELSE artifacts'[a] = artifacts[a]
           /\ \A i \in PointerIds :
                IF i \in {p} \X publication[p].tags
                THEN pointers'[i].artifact = i /\ pointers'[i].available
                ELSE pointers'[i] = pointers[i]
<1> USE Ids, NullIds
<1> DEFINE T == publication[p].tags
           B == publication[p].built
<1>0. TypeOK /\ StorageKeys /\ Insert(p) /\ publication[p].stage = "listed" /\ T \subseteq Tags
    BY DEF QueueInv, Insert, TypeOK
<1>4. T \subseteq B
  <2> SUFFICES ASSUME NEW t \in T, t \notin B PROVE FALSE
      OBVIOUS
  <2>1. distributions[t] # NoDistribution
      BY <1>0 DEF StorageKeys
  <2>2. /\ distributions[t].storage \in Artifacts /\ artifacts[distributions[t].storage].state # "none"
        /\ artifacts[distributions[t].storage].storage = distributions[t].storage
      BY <1>0, <2>1 DEF StorageKeys
  <2>3. ArtifactOf(p, t).storage = distributions[t].storage
      BY DEF ArtifactOf, Row
  <2> QED
      BY <1>0, <2>2, <2>3 DEF Insert, Insertable
<1>5. \A a \in Artifacts :
          IF a \in {p} \X T
          THEN artifacts'[a].storage = a /\ artifacts'[a].commit = disk[a] /\ artifacts'[a].state = "ready"
          ELSE artifacts'[a] = artifacts[a]
  <2>1. \A t \in T : ArtifactOf(p, t) = Row(<<p, t>>, disk[<<p, t>>], "ready")
      BY <1>4 DEF ArtifactOf
  <2>2. \A a, c, x : Row(a, c, x).storage = a /\ Row(a, c, x).commit = c /\ Row(a, c, x).state = x
      BY DEF Row
  <2>3. \A a \in Artifacts : artifacts'[a] = IF a \in {p} \X T THEN Row(a, disk[a], "ready") ELSE artifacts[a]
      BY <1>0, <2>1 DEF Insert
  <2> QED
      BY <2>2, <2>3
<1>6. \A i \in PointerIds : IF i \in {p} \X T THEN pointers'[i].artifact = i /\ pointers'[i].available
                                                ELSE pointers'[i] = pointers[i]
    BY <1>0 DEF Insert
<1> QED
    BY <1>0, <1>4, <1>5, <1>6

\* The transaction: what it inserts was built by this call, and is fresh.
LEMMA PublishInv ==
    ASSUME IInv, NEW p \in Publications, Publish(p)
    PROVE  IInv'
<1> USE Ids, NullIds DEF gcVars
<1> DEFINE T == publication[p].tags
           B == publication[p].built
<1>0. /\ TypeOK /\ StorageKeys /\ PublishStep(p) /\ QueueInv /\ Insert(p)
      /\ publication[p].stage = "listed" /\ T \subseteq Tags /\ B \subseteq T
      /\ UNCHANGED <<disk, jobs, collector, listings, push>> /\ published' = p
    BY DEF IInv, QueueInv, StorageKeys, PublishStep, Publish, Insert, SwitchTo, TypeOK
<1>1. TypeOK'
    BY <1>0, PublishTypes
<1>2. PICK st \in {"published", "failing"} :
        /\ publication' = [publication EXCEPT ![p].stage = st]
        /\ st = "failing" => CommitAckMayBeLost
    BY DEF Publish
<1>3. /\ publication'[p].stage = st /\ publication'[p].reused = publication[p].reused
      /\ publication'[p].tags = T /\ publication'[p].built = B
      /\ \A q \in Publications : q # p => publication'[q] = publication[q]
    BY <1>0, <1>2 DEF TypeOK
<1>4. T \subseteq B
    BY <1>0, InsertEffect
<1>5. \A a \in Artifacts :
          IF a \in {p} \X T
          THEN artifacts'[a].storage = a /\ artifacts'[a].commit = disk[a] /\ artifacts'[a].state = "ready"
          ELSE artifacts'[a] = artifacts[a]
    BY <1>0, InsertEffect
<1>6. \A i \in PointerIds : pointers'[i].artifact = IF i \in {p} \X T THEN i ELSE pointers[i].artifact
    BY <1>0, InsertEffect
<1>7. \A t \in Tags : Fresh(<<p, t>>) /\ artifacts[<<p, t>>].state = "none"
    BY <1>0 DEF QueueInv, OwnArtifactsFresh
<1>8. \A a \in Artifacts : Referenced(a)' => Referenced(a) \/ (a \in {p} \X T /\ jobs[a] = "none")
  <2> SUFFICES ASSUME NEW a \in Artifacts, NEW i \in PointerIds, pointers'[i].artifact = a
               PROVE  Referenced(a) \/ (a \in {p} \X T /\ jobs[a] = "none")
      BY DEF Referenced
  <2>1. CASE i \in {p} \X T
      BY <1>0, <1>6, <1>7, <2>1 DEF Fresh
  <2>2. CASE i \notin {p} \X T
      BY <1>6, <2>2 DEF Referenced
  <2> QED
      BY <2>1, <2>2
<1>9. CollectedIsUnreferenced'
    BY <1>0, <1>8 DEF QueueInv, CollectedIsUnreferenced
<1>10. CollectorsQueued' /\ PushesTagged'
    BY <1>0 DEF QueueInv, CollectorsQueued, PushesTagged
<1>11. PointersDistinct'
  <2>1. \A i, j \in PointerIds : j \in {p} \X T => pointers[i].artifact # j
      BY <1>0, <1>7 DEF Fresh, Referenced
  <2> QED
      BY <1>0, <1>6, <2>1 DEF QueueInv, PointersDistinct
<1>12. OwnArtifactsFresh'
  <2>1. ASSUME NEW q \in Publications, NEW t \in Tags, publication'[q].stage \in {"start", "building", "listed"}
        PROVE  Fresh(<<q, t>>)' /\ artifacts'[<<q, t>>].state = "none"
    <3>1. q # p /\ publication[q].stage \in {"start", "building", "listed"}
        BY <1>3, <2>1
    <3> QED
        BY <1>0, <1>5, <1>8, <3>1 DEF QueueInv, OwnArtifactsFresh, Fresh
  <2>2. ASSUME NEW s \in Pushes, NEW q \in Publications, push[s].stage # "done"
        PROVE  Fresh(<<s, q>>)'
      BY <1>0, <1>8, <2>2 DEF QueueInv, OwnArtifactsFresh, Fresh
  <2> QED
      BY <1>0, <2>1, <2>2 DEF OwnArtifactsFresh
<1>13. StorageKeys'
  <2>1. \A a \in Artifacts : artifacts'[a].storage = a /\ (artifacts[a].state # "none" => artifacts'[a].state # "none")
      BY <1>0, <1>5 DEF StorageKeys
  <2>2. \A t \in Tags : distributions'[t] # NoDistribution =>
          /\ distributions'[t].storage \in Artifacts
          /\ artifacts'[distributions'[t].storage].state # "none"
    <3> SUFFICES ASSUME NEW t \in Tags, distributions'[t] # NoDistribution
                 PROVE  /\ distributions'[t].storage \in Artifacts
                        /\ artifacts'[distributions'[t].storage].state # "none"
        OBVIOUS
    <3>1. CASE t \in B
      <4>1. distributions'[t].storage = <<p, t>> /\ <<p, t>> \in {p} \X T
          BY <1>0, <3>1 DEF Insert
      <4>2. <<p, t>> \in Artifacts
          OBVIOUS
      <4> QED
          BY <1>5, <4>1, <4>2
    <3>2. CASE t \notin B
      <4>1. distributions'[t] = distributions[t]
          BY <1>0, <3>2 DEF Insert
      <4> QED
          BY <1>0, <2>1, <4>1 DEF StorageKeys
    <3> QED
        BY <3>1, <3>2
  <2>3. \A t \in Tags : distributions[t] # NoDistribution => distributions'[t] # NoDistribution
    <3>1. \A t \in B : distributions'[t].storage = <<p, t>>
        BY <1>0 DEF Insert
    <3>2. \A t \in Tags \ B : distributions'[t] = distributions[t]
        BY <1>0 DEF Insert
    <3> QED
      <4>1. \A t \in B : <<p, t>> # NoArtifact
          BY <1>0
      <4>2. NoDistribution.storage = NoArtifact
          BY DEF NoDistribution
      <4> QED
          BY ZenonT(60), <3>1, <3>2, <4>1, <4>2
  <2>4. \A q \in Publications :
          /\ publication'[q].stage \in {"start", "failed"} => publication'[q].built = {}
          /\ publication'[q].built \subseteq publication'[q].tags
          /\ publication'[q].reused \subseteq Tags
          /\ \A t \in publication'[q].reused : distributions[t] # NoDistribution
          /\ publication'[q].stage = "listed" =>
                publication'[q].tags \subseteq publication'[q].built \cup publication'[q].reused
      BY <1>0, <1>3 DEF StorageKeys, TypeOK
  <2> QED
      BY <2>1, <2>2, <2>3, <2>4 DEF StorageKeys
<1>14. ASSUME ~CommitAckMayBeLost, ServingInv PROVE ServingInv'
  <2>1. publication'[p].stage = "published"
      BY <1>2, <1>3, <1>14
  <2>2. UnpublishedHasNoRows'
    <3> SUFFICES ASSUME NEW q \in Publications, publication'[q].stage # "published"
                 PROVE  /\ published' # q
                        /\ \A t \in Tags : artifacts'[<<q, t>>].state = "none" /\ ~Referenced(<<q, t>>)'
                        /\ \A t \in Tags : disk'[<<q, t>>] # NoCommit => t \in publication'[q].built
                        /\ q \in listings' => publication'[q].stage \in {"listed", "failing"}
        BY DEF UnpublishedHasNoRows
    <3>1. q # p /\ publication'[q] = publication[q]
        BY <1>3, <2>1
    <3>2. \A t \in Tags : artifacts'[<<q, t>>] = artifacts[<<q, t>>] /\ (Referenced(<<q, t>>)' => Referenced(<<q, t>>))
        BY <1>5, <1>8, <3>1
    <3> QED
        BY <1>0, <1>14, <3>1, <3>2 DEF ServingInv, UnpublishedHasNoRows
  <2>3. PublishedHasListing'
    <3>1. p \in listings
        BY <1>0, <1>14 DEF ServingInv, PublishedHasListing
    <3> QED
        BY <1>0, <1>3, <1>14, <3>1 DEF ServingInv, PublishedHasListing
  <2>4. BytesKept'
    <3>1. ASSUME NEW a \in Artifacts, Referenced(a)', artifacts'[a].state = "ready"
          PROVE  disk'[a] = artifacts'[a].commit
        BY <1>0, <1>5, <1>8, <1>14, <3>1 DEF ServingInv, BytesKept
    <3>2. \A s \in Pushes, q \in Publications : artifacts'[<<s, q>>] = artifacts[<<s, q>>]
        BY <1>0, <1>5
    <3> QED
        BY <1>0, <1>14, <3>1, <3>2 DEF ServingInv, BytesKept
  <2> QED
      BY <2>2, <2>3, <2>4 DEF ServingInv
<1> QED
    BY <1>1, <1>9, <1>10, <1>11, <1>12, <1>13, <1>14 DEF IInv, QueueInv

-----------------------------------------------------------------------------
(* Pushes.                                                                 *)

LEMMA PreflightInv ==
    ASSUME IInv, NEW s \in Pushes,
           (\E t \in Tags, new \in Commits \cup {NoCommit} : Preflight(s, t, new)) \/ Reject(s) \/ MoveRef(s)
    PROVE  IInv'
<1> USE Ids DEF gcVars
<1>0. TypeOK /\ PushesTagged /\ Receive(s) /\ QueueInv
    BY DEF IInv, QueueInv, Receive
<1>1. TypeOK'
    BY <1>0, ReceiveTypes
<1>2. /\ UNCHANGED <<artifacts, pointers, jobs, collector, disk, distributions, publication, published, listings>>
      /\ \A z \in Pushes : z # s => push'[z] = push[z]
    BY <1>0 DEF Preflight, Reject, MoveRef, TypeOK
<1>3. /\ push[s].stage # "done"
      /\ push'[s].stage \in {"checked", "prepared", "moved"} => push'[s].tag \in Tags
      /\ push'[s].stage \in {"prepared", "moved"} =>
            push[s].stage = "prepared" /\ push'[s].plan = push[s].plan /\ push'[s].new = push[s].new
  <2>1. CASE \E t \in Tags, new \in Commits \cup {NoCommit} : Preflight(s, t, new)
      BY <1>0, <2>1 DEF Preflight, TypeOK
  <2>2. CASE Reject(s)
      BY <1>0, <2>2 DEF Reject, NoPush, TypeOK
  <2>3. CASE MoveRef(s)
    <3>1. push' = [push EXCEPT ![s] = [push[s] EXCEPT !.stage = "moved"]]
        BY <1>0, <2>3 DEF MoveRef, TypeOK
    <3>2. push[s] \in PushRecords /\ push[s].stage = "prepared" /\ push[s].tag \in Tags
        BY <1>0, <2>3 DEF MoveRef, TypeOK, PushRecords, PushesTagged
    <3> QED
        BY <1>0, <3>1, <3>2 DEF TypeOK, PushRecords
  <2> QED
      BY <2>1, <2>2, <2>3
<1>4. QueueInv'
  <2>1. \A q \in Publications :
               /\ publication'[q].stage \in {"start", "failed"} => publication'[q].built = {}
               /\ publication'[q].built \subseteq publication'[q].tags
               /\ \A t \in publication'[q].reused : distributions[t] # NoDistribution
               /\ publication'[q].stage = "listed" =>
                      publication'[q].tags \subseteq publication'[q].built \cup publication'[q].reused
      BY <1>0, <1>2 DEF QueueInv, StorageKeys
  <2>2. \A z \in Pushes :
               /\ push'[z].stage # "done" => push[z].stage # "done"
               /\ push'[z].stage \in {"checked", "prepared", "moved"} => push'[z].tag \in Tags
      BY <1>0, <1>2, <1>3 DEF PushesTagged
  <2> QED
      BY <1>0, <1>1, <1>2, <2>1, <2>2, RowsKept
<1>5. ASSUME ServingInv PROVE ServingInv'
  <2>1. \A a : Referenced(a)' <=> Referenced(a)
      BY <1>2 DEF Referenced
  <2>2. UnpublishedHasNoRows' /\ PublishedHasListing'
      BY <1>2, <1>5, <2>1 DEF ServingInv, UnpublishedHasNoRows, PublishedHasListing
  <2>3. BytesKept'
      BY <1>2, <1>3, <1>5, <2>1 DEF ServingInv, BytesKept
  <2> QED
      BY <2>2, <2>3 DEF ServingInv
<1> QED
    BY <1>0, <1>4, <1>5 DEF IInv

\* The builds of a push are its own, and fresh.
LEMMA PersistInv ==
    ASSUME IInv, NEW s \in Pushes, Persist(s)
    PROVE  IInv'
<1> USE Ids
<1>0. TypeOK /\ PushesTagged /\ Receive(s) /\ QueueInv
    BY DEF IInv, QueueInv, Receive
<1>1. TypeOK'
    BY <1>0, ReceiveTypes
<1>2. /\ UNCHANGED <<jobs, collector, distributions, publication, published, listings>>
      /\ \A z \in Pushes : z # s => push'[z] = push[z]
      /\ push[s].stage = "checked" /\ push'[s].stage = "prepared"
      /\ push'[s].tag = push[s].tag /\ push'[s].new = push[s].new /\ push'[s].plan = push[s].plan
      /\ push[s].plan \subseteq Publications
    BY <1>0 DEF Persist, TypeOK
<1>3. \A a \in Artifacts :
          IF a \in Staged(s)
          THEN artifacts'[a].storage = a /\ artifacts'[a].commit = push[s].new /\ artifacts'[a].state = "staged"
               /\ disk'[a] = push[s].new
          ELSE artifacts'[a] = artifacts[a] /\ disk'[a] = disk[a]
  <2>1. \A a, c, x : Row(a, c, x).storage = a /\ Row(a, c, x).commit = c /\ Row(a, c, x).state = x
      BY DEF Row
  <2>2. \A a \in Artifacts : /\ artifacts'[a] = IF a \in Staged(s) THEN Row(a, push[s].new, "staged") ELSE artifacts[a]
                             /\ disk'[a] = IF a \in Staged(s) THEN push[s].new ELSE disk[a]
      BY DEF Persist
  <2> QED
      BY <2>1, <2>2
<1>4. \A i \in PointerIds : pointers'[i].artifact = pointers[i].artifact
    BY <1>0 DEF Persist, TypeOK
<1>5. \A a : Referenced(a)' <=> Referenced(a)
    BY <1>4 DEF Referenced
<1>6. Staged(s) \subseteq {s} \X Publications /\ \A q \in Publications : Fresh(<<s, q>>)
    BY <1>0, <1>2 DEF Staged, QueueInv, OwnArtifactsFresh
<1>7. CollectedIsUnreferenced' /\ CollectorsQueued' /\ PointersDistinct' /\ PushesTagged'
    BY <1>0, <1>2, <1>4, <1>5 DEF QueueInv, CollectedIsUnreferenced, CollectorsQueued, PointersDistinct, PushesTagged
<1>8. OwnArtifactsFresh'
  <2>1. \A q \in Publications, t \in Tags : artifacts'[<<q, t>>] = artifacts[<<q, t>>]
      BY ZenonT(60), <1>3, <1>6
  <2> QED
      BY <1>0, <1>2, <1>5, <2>1 DEF QueueInv, OwnArtifactsFresh, Fresh
<1>9. StorageKeys'
    BY <1>0, <1>2, <1>3 DEF QueueInv, StorageKeys
<1>10. ASSUME ServingInv PROVE ServingInv'
  <2>1. UnpublishedHasNoRows'
    <3>1. \A q \in Publications, t \in Tags : artifacts'[<<q, t>>] = artifacts[<<q, t>>] /\ disk'[<<q, t>>] = disk[<<q, t>>]
        BY ZenonT(60), <1>3, <1>6
    <3> QED
        BY <1>2, <1>5, <1>10, <3>1 DEF ServingInv, UnpublishedHasNoRows
  <2>2. PublishedHasListing'
      BY <1>2, <1>10 DEF ServingInv, PublishedHasListing
  <2>3. BytesKept'
    <3>1. ASSUME NEW a \in Artifacts, Referenced(a), artifacts'[a].state = "ready"
          PROVE  disk'[a] = artifacts'[a].commit
        BY <1>3, <1>10, <3>1 DEF ServingInv, BytesKept
    <3>2. ASSUME NEW z \in Pushes, NEW q \in Publications,
                 push'[z].stage \in {"prepared", "moved"}, q \in push'[z].plan, push'[z].new # NoCommit
          PROVE  disk'[<<z, q>>] = push'[z].new /\ artifacts'[<<z, q>>].commit = push'[z].new
      <4>1. CASE z = s
          BY <1>2, <1>3, <3>2, <4>1 DEF Staged
      <4>2. CASE z # s
        <5>1. <<z, q>> \notin Staged(s)
            BY <1>6, <4>2
        <5> QED
            BY <1>2, <1>3, <1>10, <3>2, <4>2, <5>1 DEF ServingInv, BytesKept
      <4> QED
          BY <4>1, <4>2
    <3> QED
        BY <1>5, <3>1, <3>2 DEF BytesKept
  <2> QED
      BY <2>1, <2>2, <2>3 DEF ServingInv
<1> QED
    BY <1>0, <1>1, <1>7, <1>8, <1>9, <1>10 DEF IInv, QueueInv

\* What completeIntent and abortIntent share: the push is done, and the artifacts
\* they queue are the push's own or those that its pointers named until now.
LEMMA ResolveQueue ==
    ASSUME QueueInv, TypeOK', NEW s \in Pushes, push[s].stage # "done",
           push' = [push EXCEPT ![s] = NoPush("done")],
           NEW A, Enqueue(A),
           \A a \in A \cap Artifacts : ~Referenced(a)' /\ (Referenced(a) \/ \E q \in Publications : a = <<s, q>>),
           \A a \in Artifacts : Referenced(a)' => Referenced(a) \/ \E q \in Publications : a = <<s, q>>,
           PointersDistinct',
           UNCHANGED <<collector, distributions, publication>>,
           \A a \in Artifacts : /\ artifacts'[a].storage = artifacts[a].storage
                                /\ artifacts'[a].state # artifacts[a].state =>
                                      artifacts'[a].state # "none" /\ \E q \in Publications : a = <<s, q>>
    PROVE  QueueInv'
<1> USE Ids
<1>1. \A a \in Artifacts : jobs'[a] = IF a \in A /\ jobs[a] = "none" THEN "pending" ELSE jobs[a]
    BY DEF Enqueue
<1>2. /\ \A z \in Pushes : z # s => push'[z] = push[z]
      /\ push'[s].stage = "done"
    BY DEF NoPush, QueueInv, TypeOK
<1>3. \A q \in Publications : Fresh(<<s, q>>)
    BY DEF QueueInv, OwnArtifactsFresh
<1>4. CollectedIsUnreferenced'
  <2> SUFFICES ASSUME NEW a \in Artifacts, jobs'[a] # "none" PROVE ~Referenced(a)'
      BY DEF CollectedIsUnreferenced
  <2>1. CASE a \in A
      BY <2>1
  <2>2. CASE a \notin A
    <3>1. jobs[a] # "none"
        BY <1>1, <2>2
    <3> QED
        BY <1>3, <3>1 DEF QueueInv, CollectedIsUnreferenced, Fresh
  <2> QED
      BY <2>1, <2>2
<1>5. CollectorsQueued'
  <2>1. \A a \in Artifacts : jobs[a] # "none" => jobs'[a] # "none"
      BY <1>1
  <2>2. \A g \in Collectors : collector[g].todo \subseteq Artifacts /\ collector[g].at \in Artifacts \cup {NoArtifact}
      BY DEF QueueInv, TypeOK, GCTypeOK
  <2> QED
      BY <2>1, <2>2 DEF QueueInv, CollectorsQueued
<1>6. OwnArtifactsFresh'
  <2>1. ASSUME NEW a \in Artifacts, Fresh(a), \A q \in Publications : a # <<s, q>>
        PROVE  Fresh(a)' /\ artifacts'[a].state = artifacts[a].state
      BY <1>1, <2>1 DEF Fresh
  <2>2. ASSUME NEW q \in Publications, NEW t \in Tags, publication[q].stage \in {"start", "building", "listed"}
        PROVE  Fresh(<<q, t>>)' /\ artifacts'[<<q, t>>].state = "none"
    <3>1. Fresh(<<q, t>>) /\ artifacts[<<q, t>>].state = "none" /\ \A o \in Publications : <<q, t>> # <<s, o>>
        BY <2>2 DEF QueueInv, OwnArtifactsFresh
    <3> QED
        BY <2>1, <3>1
  <2>3. ASSUME NEW z \in Pushes, NEW q \in Publications, push'[z].stage # "done" PROVE Fresh(<<z, q>>)'
    <3>1. z # s /\ push[z].stage # "done"
        BY <1>2, <2>3
    <3>2. Fresh(<<z, q>>) /\ \A o \in Publications : <<z, q>> # <<s, o>>
        BY <3>1 DEF QueueInv, OwnArtifactsFresh
    <3> QED
        BY <2>1, <3>2
  <2> QED
      BY <2>2, <2>3 DEF OwnArtifactsFresh
<1>7. PushesTagged'
    BY <1>2 DEF QueueInv, PushesTagged
<1>8. StorageKeys'
  <2>1. \A a \in Artifacts : artifacts'[a].storage = a /\ (artifacts[a].state # "none" => artifacts'[a].state # "none")
      BY DEF QueueInv, StorageKeys
  <2> QED
      BY <2>1 DEF QueueInv, StorageKeys
<1> QED
    BY <1>4, <1>5, <1>6, <1>7, <1>8 DEF QueueInv

LEMMA CompleteInv ==
    ASSUME IInv, NEW s \in Pushes, Complete(s)
    PROVE  IInv'
<1> USE Ids, NullIds
<1> DEFINE t == push[s].tag
           A == {pointers[i].artifact : i \in PlannedPointers(s)}
           moved == push[s].new # NoCommit
<1>0. TypeOK /\ PushesTagged /\ Receive(s) /\ QueueInv
    BY DEF IInv, QueueInv, Receive
<1>1. TypeOK'
    BY <1>0, ReceiveTypes
<1>2. /\ push[s].stage = "moved" /\ t \in Tags /\ push[s].plan \subseteq Publications
      /\ push' = [push EXCEPT ![s] = NoPush("done")] /\ Enqueue(A)
      /\ UNCHANGED <<disk, collector, distributions, publication, published, listings>>
    BY <1>0 DEF Complete, TypeOK, PushesTagged
<1>3. \A i \in PointerIds : pointers'[i].artifact =
          IF i \in PlannedPointers(s) THEN (IF moved THEN <<s, i[1]>> ELSE NoArtifact) ELSE pointers[i].artifact
    BY DEF Complete
<1>4. \A i \in PlannedPointers(s) : i \in PointerIds /\ i[1] \in push[s].plan /\ i = <<i[1], t>>
    BY <1>2 DEF PlannedPointers
<1>5. \A a \in Artifacts :
          /\ artifacts'[a].storage = artifacts[a].storage /\ artifacts'[a].commit = artifacts[a].commit
          /\ artifacts'[a].state = IF a \in Staged(s) THEN "ready" ELSE artifacts[a].state
    BY <1>0 DEF Complete, TypeOK
<1>6. /\ \A q \in Publications : ~Referenced(<<s, q>>)
      /\ Staged(s) = IF moved THEN {s} \X push[s].plan ELSE {}
    BY <1>0, <1>2 DEF QueueInv, OwnArtifactsFresh, Fresh, Staged
<1>7. \A a \in Artifacts : Referenced(a)' => (Referenced(a) /\ a \notin A) \/ a \in Staged(s)
  <2> SUFFICES ASSUME NEW a \in Artifacts, NEW i \in PointerIds, pointers'[i].artifact = a
               PROVE  (Referenced(a) /\ a \notin A) \/ a \in Staged(s)
      BY DEF Referenced
  <2>1. CASE i \in PlannedPointers(s)
    <3>1. a # NoArtifact /\ pointers'[i].artifact = IF moved THEN <<s, i[1]>> ELSE NoArtifact
        BY <1>3, <2>1
    <3>2. moved /\ a = <<s, i[1]>> /\ i[1] \in push[s].plan
        BY <1>4, <2>1, <3>1
    <3> QED
        BY <1>6, <3>2
  <2>2. CASE i \notin PlannedPointers(s)
    <3>1. pointers[i].artifact = a /\ a # NoArtifact
        BY <1>3, <2>2
    <3>2. a \notin A
        BY <1>0, <1>4, <2>2, <3>1 DEF QueueInv, PointersDistinct
    <3> QED
        BY <3>1, <3>2 DEF Referenced
  <2> QED
      BY <2>1, <2>2
<1>8. PointersDistinct'
  <2> SUFFICES ASSUME NEW i \in PointerIds, NEW j \in PointerIds,
                      pointers'[i].artifact = pointers'[j].artifact, pointers'[i].artifact # NoArtifact
               PROVE  i = j
      BY DEF PointersDistinct
  <2>1. CASE i \in PlannedPointers(s) /\ j \in PlannedPointers(s)
    <3>1. i = <<i[1], t>> /\ j = <<j[1], t>>
        BY <1>4, <2>1
    <3>2. <<s, i[1]>> = <<s, j[1]>>
        BY <1>3, <2>1
    <3>3. i[1] = j[1]
        BY <3>2
    <3> QED
        BY <3>1, <3>3, Zenon
  <2>2. CASE i \notin PlannedPointers(s) /\ j \notin PlannedPointers(s)
      BY <1>0, <1>3, <2>2 DEF QueueInv, PointersDistinct
  <2>3. \A k, l \in PointerIds : k \in PlannedPointers(s) /\ l \notin PlannedPointers(s)
            /\ pointers'[k].artifact # NoArtifact => pointers'[k].artifact # pointers'[l].artifact
      BY ZenonT(60), <1>3, <1>4, <1>6 DEF Referenced
  <2> QED
      BY <2>1, <2>2, <2>3
<1>9. QueueInv'
  <2>1. \A a \in A \cap Artifacts : ~Referenced(a)' /\ (Referenced(a) \/ \E q \in Publications : a = <<s, q>>)
    <3> TAKE a \in A \cap Artifacts
    <3>1. Referenced(a)
        BY <1>4 DEF Referenced
    <3>2. a \notin Staged(s)
        BY <1>2, <1>6, <3>1
    <3> QED
        BY <1>7, <3>1, <3>2
  <2>2. \A a \in Artifacts : Referenced(a)' => Referenced(a) \/ \E q \in Publications : a = <<s, q>>
      BY <1>2, <1>6, <1>7
  <2>3. \A a \in Artifacts : /\ artifacts'[a].storage = artifacts[a].storage
                             /\ artifacts'[a].state # artifacts[a].state =>
                                   artifacts'[a].state # "none" /\ \E q \in Publications : a = <<s, q>>
      BY <1>2, <1>5, <1>6
  <2>4. push[s].stage # "done" /\ UNCHANGED <<collector, distributions, publication>>
      BY <1>2
  <2> QED
      BY <1>0, <1>1, <1>2, <1>8, <2>1, <2>2, <2>3, <2>4, ResolveQueue
<1>10. ASSUME ServingInv PROVE ServingInv'
  <2>1. \A q \in Publications, u \in Tags : /\ artifacts'[<<q, u>>].state = artifacts[<<q, u>>].state
                                            /\ Referenced(<<q, u>>)' => Referenced(<<q, u>>)
      BY <1>2, <1>5, <1>6, <1>7
  <2>2. UnpublishedHasNoRows'
      BY <1>2, <1>10, <2>1 DEF ServingInv, UnpublishedHasNoRows
  <2>3. PublishedHasListing'
      BY <1>2, <1>10 DEF ServingInv, PublishedHasListing
  <2>4. BytesKept'
    <3>1. ASSUME NEW a \in Artifacts, Referenced(a)', artifacts'[a].state = "ready"
          PROVE  disk'[a] = artifacts'[a].commit
      <4>1. CASE a \in Staged(s)
          BY <1>2, <1>5, <1>6, <1>10, <4>1 DEF ServingInv, BytesKept
      <4>2. CASE a \notin Staged(s)
          BY <1>2, <1>5, <1>7, <1>10, <3>1, <4>2 DEF ServingInv, BytesKept
      <4> QED
          BY <4>1, <4>2
    <3>2. \A z \in Pushes : push'[z].stage \in {"prepared", "moved"} => z # s /\ push'[z] = push[z]
        BY <1>0, <1>2 DEF TypeOK, NoPush
    <3> QED
        BY <1>2, <1>5, <1>10, <3>1, <3>2 DEF ServingInv, BytesKept
  <2> QED
      BY <2>2, <2>3, <2>4 DEF ServingInv
<1> QED
    BY <1>0, <1>9, <1>10 DEF IInv

LEMMA AbortInv ==
    ASSUME IInv, NEW s \in Pushes, Abort(s)
    PROVE  IInv'
<1> USE Ids, NullIds
<1>0. TypeOK /\ PushesTagged /\ Receive(s) /\ QueueInv
    BY DEF IInv, QueueInv, Receive
<1>1. TypeOK'
    BY <1>0, ReceiveTypes
<1>2. /\ push[s].stage = "prepared" /\ push[s].plan \subseteq Publications
      /\ push' = [push EXCEPT ![s] = NoPush("done")] /\ Enqueue(Staged(s))
      /\ UNCHANGED <<disk, artifacts, collector, distributions, publication, published, listings>>
    BY <1>0 DEF Abort, TypeOK
<1>3. \A i \in PointerIds : pointers'[i].artifact = pointers[i].artifact
    BY <1>0 DEF Abort, TypeOK
<1>4. \A a : Referenced(a)' <=> Referenced(a)
    BY <1>3 DEF Referenced
<1>5. Staged(s) \subseteq {s} \X Publications /\ \A q \in Publications : ~Referenced(<<s, q>>)
    BY <1>0, <1>2 DEF Staged, QueueInv, OwnArtifactsFresh, Fresh
<1>6. PointersDistinct'
    BY <1>0, <1>3 DEF QueueInv, PointersDistinct
<1>7. QueueInv'
  <2>1. \A a \in Staged(s) \cap Artifacts : ~Referenced(a)' /\ (Referenced(a) \/ \E q \in Publications : a = <<s, q>>)
      BY <1>4, <1>5
  <2>2. push[s].stage # "done" /\ UNCHANGED <<collector, distributions, publication>>
      BY <1>2
  <2> QED
      BY <1>0, <1>1, <1>2, <1>4, <1>6, <2>1, <2>2, ResolveQueue
<1>8. ASSUME ServingInv PROVE ServingInv'
  <2>1. UnpublishedHasNoRows' /\ PublishedHasListing'
      BY <1>2, <1>4, <1>8 DEF ServingInv, UnpublishedHasNoRows, PublishedHasListing
  <2>2. \A z \in Pushes : push'[z].stage \in {"prepared", "moved"} => push'[z] = push[z]
      BY <1>0, <1>2 DEF TypeOK, NoPush
  <2>3. BytesKept'
      BY <1>2, <1>4, <1>8, <2>2 DEF ServingInv, BytesKept
  <2> QED
      BY <2>1, <2>3 DEF ServingInv
<1> QED
    BY <1>0, <1>7, <1>8 DEF IInv

-----------------------------------------------------------------------------
(* The theorems.                                                           *)

\* A tag without a Version: no row that the rest of the invariant is about changes.
LEMMA RecreateInv ==
    ASSUME IInv, NEW t \in Tags, Recreate(t)
    PROVE  IInv'
<1> USE DEF gcVars
<1>0. UNCHANGED <<disk, artifacts, pointers, jobs, collector, distributions, published, listings,
                  publication, push, raced, superseded>>
    BY DEF Recreate, MoveUnversionedRef, RestoreVersion
<1>1. /\ refs' \in [Tags -> Commits \cup {NoCommit}]
      /\ versions' \in [Tags -> Commits \cup {NoCommit}]
  <2>1. /\ refs \in [Tags -> Commits \cup {NoCommit}] /\ versions \in [Tags -> Commits \cup {NoCommit}]
        /\ refs[t] \in Commits \cup {NoCommit}
      BY DEF IInv, QueueInv, TypeOK
  <2>2. CASE MoveUnversionedRef(t)
      BY <2>1, <2>2 DEF MoveUnversionedRef
  <2>3. CASE RestoreVersion(t)
      BY <2>1, <2>3 DEF RestoreVersion
  <2> QED
      BY <2>2, <2>3 DEF Recreate
<1>2. TypeOK'
    BY <1>0, <1>1 DEF IInv, QueueInv, TypeOK, GCTypeOK
<1>3. \A a : Referenced(a)' <=> Referenced(a)
    BY <1>0 DEF Referenced
<1>4. QueueInv'
    BY <1>0, <1>2, <1>3 DEF IInv, QueueInv, CollectedIsUnreferenced, CollectorsQueued, PointersDistinct,
       OwnArtifactsFresh, Fresh, PushesTagged, StorageKeys
<1>5. ServingInv => ServingInv'
    BY <1>0, <1>3 DEF ServingInv, UnpublishedHasNoRows, PublishedHasListing, BytesKept
<1> QED
    BY <1>4, <1>5 DEF IInv

LEMMA NextInv == IInv /\ [Next]_vars => IInv'
<1> SUFFICES ASSUME IInv, [Next]_vars PROVE IInv'
    OBVIOUS
<1>1. CASE UNCHANGED vars
  <2>1. \A a : Referenced(a)' <=> Referenced(a)
      BY <1>1 DEF vars, gcVars, Referenced
  <2>2. QueueInv'
    <3>1. TypeOK'
        BY <1>1 DEF IInv, QueueInv, TypeOK, GCTypeOK, vars, gcVars, ownVars
    <3> QED
        BY <1>1, <2>1, <3>1 DEF IInv, QueueInv, vars, gcVars, ownVars, CollectedIsUnreferenced, CollectorsQueued,
           PointersDistinct, OwnArtifactsFresh, Fresh, PushesTagged, StorageKeys
  <2>3. ServingInv => ServingInv'
      BY <1>1, <2>1 DEF vars, gcVars, ownVars, ServingInv, UnpublishedHasNoRows, PublishedHasListing, BytesKept
  <2> QED
      BY <2>2, <2>3 DEF IInv
<1>2. ASSUME NEW p \in Publications, PublishStep(p) PROVE IInv'
    BY <1>2, BuildInv, CompensateInv, PublishInv DEF PublishStep
<1>3. ASSUME NEW s \in Pushes, Receive(s) PROVE IInv'
    BY <1>3, PreflightInv, PersistInv, CompleteInv, AbortInv DEF Receive
<1>4. CASE Collect /\ UNCHANGED ownVars
    BY <1>4, CollectInv
<1>5. ASSUME NEW t \in Tags, Recreate(t) PROVE IInv'
    BY <1>5, RecreateInv
<1> QED
    BY <1>1, <1>2, <1>3, <1>4, <1>5 DEF Next

\* The inductive invariant of publications, pushes and collectors, whether or not
\* Publish is told the truth about its transaction.
THEOREM Invariance == Spec => []IInv
<1> QED
    BY InitInv, NextInv, PTL DEF Spec

\* Rows, projections and actors keep their types.
THEOREM TypeCorrect == Spec => []TypeOK
<1>1. IInv => TypeOK
    BY DEF IInv, QueueInv
<1> QED
    BY <1>1, Invariance, PTL

\* GCRunner, which trusts its jobs, and the sweep never have an artifact in hand
\* that a pointer names: completeIntent and abortIntent queue only what is unused.
THEOREM CollectedCorrect == Spec => []CollectedIsUnreferenced
<1>1. IInv => CollectedIsUnreferenced
    BY DEF IInv, QueueInv
<1> QED
    BY <1>1, Invariance, PTL

\* What FindActivePlugin resolves is stored, with the commit of its Version,
\* whatever collectors, compensations and pushes do meanwhile.
THEOREM ResolvedCorrect == ~CommitAckMayBeLost => (Spec => []ResolvedHasBytes)
<1>1. ASSUME IInv, ~CommitAckMayBeLost PROVE ResolvedHasBytes
  <2> USE Ids, NullIds
  <2>0. TypeOK /\ StorageKeys /\ ServingInv
      BY <1>1 DEF IInv, QueueInv
  <2>1. published # NoRevision => published \in Publications /\ published \in listings
      BY <2>0 DEF TypeOK, ServingInv, UnpublishedHasNoRows, PublishedHasListing
  <2>2. ASSUME NEW t \in Tags, Resolves(t)
        PROVE  disk[ArtifactAt(<<published, t>>).storage] = versions[t]
    <3> DEFINE i == <<published, t>>
               a == pointers[i].artifact
    <3>1. i \in PointerIds
        BY <2>1, <2>2 DEF Resolves, PublishedTags
    <3>2. /\ a \in Artifacts /\ Referenced(a)
          /\ artifacts[a].state = "ready" /\ artifacts[a].commit = versions[t]
        BY <2>0, <2>2, <3>1 DEF Resolves, Serves, ArtifactAt, Referenced, TypeOK
    <3>3. disk[a] = versions[t] /\ artifacts[a].storage = a
        BY <2>0, <3>2 DEF ServingInv, BytesKept, StorageKeys
    <3> QED
        BY <3>3 DEF ArtifactAt
  <2> QED
      BY <2>1, <2>2 DEF ResolvedHasBytes
<1> SUFFICES ASSUME ~CommitAckMayBeLost PROVE Spec => []ResolvedHasBytes
    OBVIOUS
<1>2. IInv => ResolvedHasBytes
    BY <1>1
<1> QED
    BY <1>2, Invariance, PTL

\* compensate leaves no row, projection or listing of the call that failed.
THEOREM FailedCorrect == ~CommitAckMayBeLost => (Spec => []FailedLeavesNothing)
<1> SUFFICES ASSUME ~CommitAckMayBeLost PROVE Spec => []FailedLeavesNothing
    OBVIOUS
<1>1. IInv => FailedLeavesNothing
    BY DEF IInv, QueueInv, StorageKeys, ServingInv, UnpublishedHasNoRows, FailedLeavesNothing, Revisions
<1> QED
    BY <1>1, Invariance, PTL

-----------------------------------------------------------------------------
(* What is served.                                                         *)

\* Pushes of a tag follow each other (the Plugin's lock), and each moves the ref.
PushesExclude ==
    \A s, z \in Pushes : push[s].tag = push[z].tag /\ push[s].tag \in Tags => s = z
Untagged == \A s \in Pushes : push[s].stage \in {"start", "done"} => push[s].tag \notin Tags

RefsAgree ==
    \A t \in Tags :
        /\ versions[t] # NoCommit =>
              refs[t] = versions[t] \/ \E s \in Pushes : push[s].tag = t /\ push[s].stage = "moved"
        /\ \A s \in Pushes : push[s].tag = t /\ push[s].stage = "moved" => refs[t] = push[s].new

\* Until it is raced, a publication builds what its refs name to the end.
BuildsCurrent ==
    \A p \in Publications \ raced : Underway(p) =>
        \A t \in publication[p].tags :
            /\ \A s \in Pushes : push[s].tag # t
            /\ versions[t] # NoCommit
            /\ t \in publication[p].built => disk[<<p, t>>] = refs[t]

Unraced(p, t) ==
    publication[p].stage = "published" /\ p \notin raced /\ t \in publication[p].tags

\* preflight finds every published revision.
PlanComplete ==
    \A p \in Publications, t \in Tags :
        /\ publication[p].stage = "published" /\ t \in publication[p].tags =>
               artifacts[<<p, t>>].state # "none"
        /\ Unraced(p, t) => \A s \in Pushes : push[s].tag = t => p \in push[s].plan

Names(i, commit) ==
    /\ pointers[i].artifact # NoArtifact
    /\ ArtifactAt(i).state = "ready" /\ ArtifactAt(i).commit = commit

\* What a push found, and what it closes, stays until it is resolved.
PlannedCurrent ==
    \A s \in Pushes : push[s].stage \in {"checked", "prepared"} =>
        /\ versions[push[s].tag] # NoCommit
        /\ \A p \in push[s].plan :
            /\ publication[p].stage = "published"
            /\ Names(<<p, push[s].tag>>, versions[push[s].tag])

\* A revision is the published one or was; only from these are tags deleted.
Superseded ==
    /\ \A p \in Publications :
          publication[p].stage = "published" /\ p # published => p \in superseded
    /\ \A s \in Pushes : push[s].stage \in {"checked", "prepared", "moved"} /\ push[s].new = NoCommit =>
          push[s].plan \subseteq superseded

UnracedServed ==
    \A p \in Publications, t \in Tags : Unraced(p, t) =>
        \/ versions[t] # NoCommit /\ Serves(<<p, t>>, versions[t])
        \/ p \in superseded /\ Emptied(<<p, t>>)
        \/ \E s \in Pushes : push[s].tag = t /\ push[s].stage \in {"prepared", "moved"}

ServedInv ==
    /\ PushesExclude /\ Untagged /\ RefsAgree /\ BuildsCurrent
    /\ PlanComplete /\ PlannedCurrent /\ Superseded /\ UnracedServed

LEMMA ServedInit == Init => ServedInv
<1> SUFFICES ASSUME Init PROVE ServedInv
    OBVIOUS
<1> USE NullIds DEF Init, NewPublication, NoPush
<1>1. PushesExclude /\ Untagged /\ PlannedCurrent
    BY DEF PushesExclude, Untagged, PlannedCurrent
<1>2. RefsAgree
    BY DEF RefsAgree
<1>3. BuildsCurrent /\ PlanComplete /\ Superseded /\ UnracedServed
    BY DEF BuildsCurrent, PlanComplete, Superseded, UnracedServed, Underway, Unraced
<1> QED
    BY <1>1, <1>2, <1>3 DEF ServedInv

\* Steps between which no push and no revision comes or goes.
LEMMA ServedFrame ==
    ASSUME ServedInv, UNCHANGED <<artifacts, pointers, push, refs, versions>>,
           raced \subseteq raced', superseded \subseteq superseded',
           \A p \in Publications :
               publication[p].stage = "published" /\ p # published' => p \in superseded',
           \A p \in Publications :
               /\ publication'[p].stage = "published" <=> publication[p].stage = "published"
               /\ publication[p].stage = "published" => publication'[p].tags = publication[p].tags,
           \A s \in Pushes : push[s].plan \subseteq Publications,
           BuildsCurrent'
    PROVE  ServedInv'
<1>1. PushesExclude' /\ Untagged' /\ RefsAgree'
    BY DEF ServedInv, PushesExclude, Untagged, RefsAgree
<1>2. PlannedCurrent'
    BY DEF ServedInv, PlannedCurrent, Names, ArtifactAt
<1>3. \A p \in Publications : \A t : Unraced(p, t)' => Unraced(p, t)
    BY DEF Unraced
<1>4. PlanComplete'
    BY <1>3 DEF ServedInv, PlanComplete
<1>5. UnracedServed'
    BY <1>3 DEF ServedInv, UnracedServed, Serves, ArtifactAt, Emptied
<1>6. Superseded'
    BY DEF ServedInv, Superseded
<1> QED
    BY <1>1, <1>2, <1>4, <1>5, <1>6 DEF ServedInv

LEMMA CollectServed ==
    ASSUME IInv, ServedInv, Collect, UNCHANGED ownVars
    PROVE  ServedInv'
<1> USE Ids DEF ownVars
<1>1. /\ UNCHANGED <<artifacts, pointers>>
      /\ \A a \in Artifacts : disk'[a] = disk[a] \/ (disk'[a] = NoCommit /\ jobs[a] # "none")
    BY CollectKeeps DEF IInv
<1>2. BuildsCurrent'
  <2>1. \A p \in Publications, t \in Tags : Underway(p) => jobs[<<p, t>>] = "none"
      BY DEF IInv, QueueInv, OwnArtifactsFresh, Fresh, Underway
  <2>2. \A p \in Publications : publication[p].tags \subseteq Tags
      BY DEF IInv, QueueInv, TypeOK
  <2> QED
      BY <1>1, <2>1, <2>2 DEF ServedInv, BuildsCurrent, Underway
<1>3. \A s \in Pushes : push[s].plan \subseteq Publications
    BY DEF IInv, QueueInv, TypeOK
<1>4. \A p \in Publications : publication[p].stage = "published" /\ p # published => p \in superseded
    BY DEF ServedInv, Superseded
<1> QED
    BY <1>1, <1>2, <1>3, <1>4, ServedFrame

LEMMA BuildServed ==
    ASSUME IInv, ServedInv, NEW p \in Publications,
           Load(p) \/ Reuse(p) \/ BuildListing(p) \/ PublishFails(p) \/ Rollback(p) \/ Build(p) \/ Compensate(p)
    PROVE  ServedInv'
<1> USE Ids DEF gcVars
<1>0. /\ TypeOK /\ publication[p] \in PublicationRecords
      /\ publication = [q \in Publications |-> publication[q]]
      /\ disk = [a \in Artifacts |-> disk[a]]
      /\ publication[p].stage = "start" => publication[p].built = {}
    BY DEF IInv, QueueInv, StorageKeys, TypeOK, GCTypeOK, PublicationRecords
<1> DEFINE r == publication[p]
           n == publication'[p]
<1>1. /\ UNCHANGED <<artifacts, pointers, push, refs, versions>> /\ raced \subseteq raced'
      /\ superseded \subseteq superseded'
      /\ \A q \in Publications : q # p => publication'[q] = publication[q]
    BY <1>0 DEF Load, Reuse, BuildListing, PublishFails, Rollback, SwitchTo, Build, Compensate
<1>2. \/ /\ Load(p) /\ n.stage = "building" /\ n.built = {} /\ r.stage = "start"
         /\ disk' = disk /\ (p \notin raced' => \A t \in n.tags, s \in Pushes : push[s].tag # t)
         /\ \A t \in n.tags : versions[t] # NoCommit
      \/ /\ Underway(p) /\ n.stage \in {"building", "listed"} /\ n.tags = r.tags /\ n.built = r.built
         /\ disk' = disk
      \/ /\ Underway(p) /\ n.stage = "building" /\ n.tags = r.tags
         /\ \E t \in r.tags : /\ n.built = r.built \cup {t}
                              /\ t \in Tags /\ disk' = [disk EXCEPT ![<<p, t>>] = refs[t]]
      \/ Underway(p) /\ n.stage = "failing" /\ disk' = disk
      \/ publication' = publication /\ disk' = disk
      \/ r.stage = "failing" /\ n.stage = "failed" /\ \A q \in Publications, t \in Tags : q # p => disk'[<<q, t>>] = disk[<<q, t>>]
  <2>1. CASE Load(p)
    <3>1. PICK T : /\ publication' = [publication EXCEPT ![p] = [r EXCEPT !.stage = "building", !.tags = T]]
                   /\ raced' = IF \E s \in Pushes : push[s].tag \in T THEN raced \cup {p} ELSE raced
                   /\ \A t \in T : versions[t] # NoCommit
      <4>1. PICK T : /\ publication' = [publication EXCEPT ![p].stage = "building", ![p].tags = T]
                     /\ raced' = IF \E s \in Pushes : push[s].tag \in T THEN raced \cup {p} ELSE raced
                     /\ \A t \in T : versions[t] # NoCommit
          BY <2>1, Zenon DEF Load
      <4>2. publication' = [publication EXCEPT ![p] = [r EXCEPT !.stage = "building", !.tags = T]]
          BY <1>0, <4>1
      <4> QED
          BY <4>1, <4>2
    <3>2. n.stage = "building" /\ n.built = r.built /\ n.tags = T /\ r.stage = "start" /\ disk' = disk
        BY <1>0, <2>1, <3>1 DEF Load, PublicationRecords
    <3> QED
        BY <1>0, <2>1, <3>1, <3>2
  <2>2. CASE Reuse(p)
    <3>1. PICK t : publication' = [publication EXCEPT ![p] = [r EXCEPT !.reused = @ \cup {t}]]
        BY <1>0, <2>2 DEF Reuse
    <3> QED
        BY <1>0, <2>2, <3>1 DEF Reuse, Underway, PublicationRecords
  <2>3. CASE Build(p)
    <3>1. PICK t \in Remaining(p) : /\ publication' = [publication EXCEPT ![p] = [r EXCEPT !.built = @ \cup {t}]]
                                    /\ disk' = [disk EXCEPT ![<<p, t>>] = refs[t]]
        BY <1>0, <2>3 DEF Build
    <3>2. t \in r.tags /\ t \in Tags /\ r.stage = "building"
        BY <1>0, <2>3 DEF Build, Remaining, PublicationRecords
    <3>3. n.stage = r.stage /\ n.tags = r.tags /\ n.built = r.built \cup {t}
        BY <1>0, <3>1 DEF PublicationRecords
    <3> QED
        BY <3>1, <3>2, <3>3 DEF Underway
  <2>4. CASE BuildListing(p)
    <3>1. PICK m : publication' = [publication EXCEPT ![p] = [r EXCEPT !.stage = "listed", !.number = m]]
        BY <1>0, <2>4 DEF BuildListing
    <3> QED
        BY <1>0, <2>4, <3>1 DEF BuildListing, Underway, PublicationRecords
  <2>5. CASE PublishFails(p)
      BY <1>0, <2>5 DEF PublishFails, PublicationRecords
  <2>6. CASE Rollback(p)
      BY <2>6 DEF Rollback
  <2>7. CASE Compensate(p)
      BY <1>0, <2>7 DEF Compensate, NewPublication
  <2> QED
      BY <2>1, <2>2, <2>3, <2>4, <2>5, <2>6, <2>7
<1>3. \A q \in Publications, t \in Tags : q # p => disk'[<<q, t>>] = disk[<<q, t>>]
    BY <1>0, <1>2
<1>4. \A q \in Publications : publication[q].tags \subseteq Tags
    BY <1>0 DEF TypeOK
<1>5. BuildsCurrent'
  <2> SUFFICES ASSUME NEW q \in Publications \ raced', Underway(q)', NEW t \in publication'[q].tags
               PROVE  /\ \A s \in Pushes : push[s].tag # t
                      /\ versions[t] # NoCommit
                      /\ t \in publication'[q].built => disk'[<<q, t>>] = refs[t]
      BY <1>1 DEF BuildsCurrent
  <2>1. CASE q # p
    <3>1. publication'[q] = publication[q] /\ t \in Tags
        BY <1>1, <1>4, <2>1
    <3> QED
        BY <1>1, <1>3, <2>1, <3>1 DEF ServedInv, BuildsCurrent, Underway
  <2>2. CASE q = p
    <3>1. n.stage \in {"building", "listed"}
        BY <2>2 DEF Underway
    <3>2. CASE n.built = {} /\ Load(p)
        BY <1>2, <2>2, <3>2, <3>1 DEF Load, Underway
    <3>3. CASE Underway(p)
      <4>1. /\ \A u \in r.tags : (\A s \in Pushes : push[s].tag # u) /\ versions[u] # NoCommit
            /\ \A u \in r.built : u \in r.tags => disk[<<p, u>>] = refs[u]
          BY <1>1, <2>2, <3>3 DEF ServedInv, BuildsCurrent
      <4>2. r.tags \subseteq Tags
          BY <1>4
      <4>3. CASE n.tags = r.tags /\ n.built = r.built /\ disk' = disk
          BY <2>2, <4>1, <4>3
      <4>4. CASE \E v \in r.tags : /\ n.tags = r.tags /\ n.built = r.built \cup {v}
                                   /\ v \in Tags /\ disk' = [disk EXCEPT ![<<p, v>>] = refs[v]]
        <5>1. PICK v \in r.tags : /\ n.tags = r.tags /\ n.built = r.built \cup {v}
                                  /\ v \in Tags /\ disk' = [disk EXCEPT ![<<p, v>>] = refs[v]]
            BY <4>4
        <5>2. disk'[<<p, v>>] = refs[v] /\ \A u \in Tags : u # v => disk'[<<p, u>>] = disk[<<p, u>>]
            BY <1>0, <5>1
        <5> QED
            BY <2>2, <4>1, <4>2, <5>1, <5>2
      <4> QED
          BY <1>2, <3>1, <3>3, <4>3, <4>4 DEF Underway
    <3> QED
        BY <1>2, <2>2, <3>1, <3>2, <3>3 DEF Underway
  <2> QED
      BY <2>1, <2>2
<1>6. \A q \in Publications :
          /\ publication'[q].stage = "published" <=> publication[q].stage = "published"
          /\ publication[q].stage = "published" => publication'[q].tags = publication[q].tags
    BY <1>1, <1>2 DEF Underway
<1>7. \A s \in Pushes : push[s].plan \subseteq Publications
    BY <1>0 DEF TypeOK
<1>8. ASSUME NEW q \in Publications, publication[q].stage = "published", q # published'
      PROVE  q \in superseded'
  <2>1. q = published \/ q \in superseded
      BY <1>8 DEF ServedInv, Superseded
  <2>2. CASE Rollback(p)
      BY <2>1, <2>2, NullIds DEF Rollback, SwitchTo
  <2>3. CASE ~Rollback(p)
      BY <1>1, <1>8, <2>1, <2>3 DEF Load, Reuse, BuildListing, PublishFails, Build, Compensate
  <2> QED
      BY <2>2, <2>3
<1> QED
    BY <1>1, <1>5, <1>6, <1>7, <1>8, ServedFrame

LEMMA PublishServed ==
    ASSUME IInv, ~CommitAckMayBeLost, ServedInv, NEW p \in Publications, Publish(p)
    PROVE  ServedInv'
<1> USE Ids, NullIds
<1> DEFINE T == publication[p].tags
           B == publication[p].built
<1>0. /\ TypeOK /\ QueueInv /\ Insert(p) /\ ServingInv
      /\ publication[p].stage = "listed" /\ UNCHANGED <<disk, refs, versions, push, raced>>
      /\ published' = p /\ superseded' = superseded \cup ({published} \ {NoRevision})
    BY DEF IInv, QueueInv, Publish, Insert, SwitchTo
<1>1. /\ T \subseteq Tags /\ T \subseteq B
      /\ \A a \in Artifacts :
           IF a \in {p} \X T
           THEN artifacts'[a].storage = a /\ artifacts'[a].commit = disk[a] /\ artifacts'[a].state = "ready"
           ELSE artifacts'[a] = artifacts[a]
      /\ \A i \in PointerIds :
           IF i \in {p} \X T THEN pointers'[i].artifact = i /\ pointers'[i].available
                             ELSE pointers'[i] = pointers[i]
    BY <1>0, InsertEffect
<1>2. /\ publication'[p].stage = "published" /\ publication'[p].tags = T
      /\ \A q \in Publications : q # p => publication'[q] = publication[q]
    BY <1>0 DEF Publish, TypeOK
<1>3. \A t \in T : Fresh(<<p, t>>)
    BY <1>0, <1>1 DEF QueueInv, OwnArtifactsFresh
<1>4. \A i \in PointerIds : i \notin {p} \X T =>
          /\ pointers'[i] = pointers[i]
          /\ pointers[i].artifact \in Artifacts => artifacts'[pointers[i].artifact] = artifacts[pointers[i].artifact]
    BY <1>1, <1>3 DEF Fresh, Referenced
<1>5. PushesExclude' /\ Untagged' /\ RefsAgree'
    BY <1>0 DEF ServedInv, PushesExclude, Untagged, RefsAgree
<1>6. BuildsCurrent'
    BY <1>0, <1>2 DEF ServedInv, BuildsCurrent, Underway
<1>7. p \notin raced => \A t \in T : /\ \A s \in Pushes : push[s].tag # t
                                     /\ versions[t] # NoCommit /\ disk[<<p, t>>] = versions[t]
    BY <1>0, <1>1 DEF ServedInv, BuildsCurrent, Underway, RefsAgree
<1>8. PlanComplete'
  <2> SUFFICES ASSUME NEW q \in Publications, NEW t \in Tags
               PROVE  /\ publication'[q].stage = "published" /\ t \in publication'[q].tags =>
                             artifacts'[<<q, t>>].state # "none"
                      /\ Unraced(q, t)' => \A s \in Pushes : push'[s].tag = t => q \in push'[s].plan
      BY DEF PlanComplete
  <2>1. CASE q = p
      BY <1>0, <1>1, <1>2, <1>7, <2>1 DEF Unraced
  <2>2. CASE q # p
      BY <1>0, <1>1, <1>2, <2>2 DEF ServedInv, PlanComplete, Unraced
  <2> QED
      BY <2>1, <2>2
<1>9. PlannedCurrent'
  <2> SUFFICES ASSUME NEW s \in Pushes, push[s].stage \in {"checked", "prepared"}, NEW q \in push[s].plan
               PROVE  publication'[q].stage = "published" /\ Names(<<q, push[s].tag>>, versions[push[s].tag])'
      BY <1>0 DEF ServedInv, PlannedCurrent
  <2>1. /\ q \in Publications /\ push[s].tag \in Tags /\ q # p
        /\ publication[q].stage = "published" /\ Names(<<q, push[s].tag>>, versions[push[s].tag])
      BY <1>0 DEF ServedInv, PlannedCurrent, QueueInv, PushesTagged, TypeOK
  <2>2. <<q, push[s].tag>> \in PointerIds \ ({p} \X T)
      BY <2>1
  <2>3. pointers[<<q, push[s].tag>>].artifact \in Artifacts
      BY <1>0, <2>1, <2>2 DEF TypeOK, Names
  <2> QED
      BY <1>0, <1>2, <1>4, <2>1, <2>2, <2>3 DEF Names, ArtifactAt
<1>10. UnracedServed'
  <2> SUFFICES ASSUME NEW q \in Publications, NEW t \in Tags, Unraced(q, t)'
               PROVE  \/ versions[t] # NoCommit /\ Serves(<<q, t>>, versions[t])'
                      \/ q \in superseded' /\ Emptied(<<q, t>>)'
                      \/ \E s \in Pushes : push[s].tag = t /\ push[s].stage \in {"prepared", "moved"}
      BY <1>0 DEF UnracedServed
  <2>1. CASE q = p
    <3>1. t \in T /\ p \notin raced /\ <<p, t>> \in {p} \X T
        BY <1>0, <1>2, <2>1 DEF Unraced
    <3>2. /\ versions[t] # NoCommit
          /\ pointers'[<<p, t>>].artifact = <<p, t>> /\ pointers'[<<p, t>>].available
          /\ artifacts'[<<p, t>>].commit = versions[t] /\ artifacts'[<<p, t>>].state = "ready"
        BY <1>1, <1>7, <3>1
    <3> QED
        BY <1>0, <2>1, <3>2 DEF Serves, ArtifactAt
  <2>2. CASE q # p
    <3>1. \/ versions[t] # NoCommit /\ Serves(<<q, t>>, versions[t])
          \/ q \in superseded /\ Emptied(<<q, t>>)
          \/ \E s \in Pushes : push[s].tag = t /\ push[s].stage \in {"prepared", "moved"}
        BY <1>0, <1>2, <2>2 DEF ServedInv, UnracedServed, Unraced
    <3>2. ASSUME Serves(<<q, t>>, versions[t]) PROVE Serves(<<q, t>>, versions[t])'
      <4>1. <<q, t>> \in PointerIds \ ({p} \X T)
          BY <2>2
      <4>2. pointers[<<q, t>>].artifact \in Artifacts
          BY <1>0, <3>2, <4>1 DEF TypeOK, Serves
      <4> QED
          BY <1>0, <1>4, <3>2, <4>1, <4>2 DEF Serves, ArtifactAt
    <3>3. pointers'[<<q, t>>] = pointers[<<q, t>>] /\ superseded \subseteq superseded'
        BY <1>0, <1>4, <2>2
    <3> QED
        BY <3>1, <3>2, <3>3 DEF Emptied
  <2> QED
      BY <2>1, <2>2
<1>11. Superseded'
    BY <1>0, <1>2 DEF ServedInv, Superseded
<1> QED
    BY <1>5, <1>6, <1>8, <1>9, <1>10, <1>11 DEF ServedInv

\* preflight plans every revision that selects its tag: all of them are published.
LEMMA PreflightServed ==
    ASSUME IInv, ~CommitAckMayBeLost, ServedInv, NEW s \in Pushes, NEW t \in Tags,
           NEW new \in Commits \cup {NoCommit}, Preflight(s, t, new)
    PROVE  ServedInv'
<1> USE Ids, NullIds DEF gcVars
<1>0. /\ TypeOK /\ ServingInv
      /\ UNCHANGED <<artifacts, pointers, disk, refs, versions, publication, published, superseded>>
      /\ versions[t] # NoCommit
    BY DEF IInv, QueueInv, Preflight
<1>1. /\ \A z \in Pushes : z # s => push'[z] = push[z] /\ push[z].tag # t
      /\ push[s].stage = "start" /\ push[s].tag \notin Tags
      /\ push'[s].stage = "checked" /\ push'[s].tag = t /\ push'[s].plan = Selecting(t)
      /\ push'[s].new = new
    BY <1>0 DEF Preflight, TypeOK, ServedInv, Untagged
<1>2. /\ raced \subseteq raced'
      /\ \A p \in Publications : Underway(p) /\ t \in publication[p].tags => p \in raced'
    BY DEF Preflight
<1>3. PushesExclude' /\ Untagged'
    BY <1>1 DEF ServedInv, PushesExclude, Untagged
<1>4. RefsAgree'
    BY <1>0, <1>1 DEF ServedInv, RefsAgree
<1>5. BuildsCurrent'
    BY <1>0, <1>1, <1>2 DEF ServedInv, BuildsCurrent, Underway
<1>6. Selecting(t) \subseteq Publications
      /\ \A p \in Selecting(t) : publication[p].stage = "published"
    BY <1>0 DEF Selecting, Revisions, ServingInv, UnpublishedHasNoRows
<1>7. PlanComplete'
  <2> SUFFICES ASSUME NEW p \in Publications, NEW u \in Tags
               PROVE  /\ publication[p].stage = "published" /\ u \in publication[p].tags =>
                             artifacts[<<p, u>>].state # "none"
                      /\ Unraced(p, u)' => \A z \in Pushes : push'[z].tag = u => p \in push'[z].plan
      BY <1>0 DEF PlanComplete
  <2>1. publication[p].stage = "published" /\ u \in publication[p].tags =>
            artifacts[<<p, u>>].state # "none"
      BY DEF ServedInv, PlanComplete
  <2>2. ASSUME Unraced(p, u)', NEW z \in Pushes, push'[z].tag = u PROVE p \in push'[z].plan
    <3>1. Unraced(p, u)
        BY <1>0, <1>2, <2>2 DEF Unraced
    <3>2. CASE z = s
        BY <1>1, <2>1, <2>2, <3>1, <3>2 DEF Unraced, Selecting, Revisions
    <3>3. CASE z # s
      <4>1. push'[z] = push[z] /\ push[z].tag = u
          BY <1>1, <2>2, <3>3
      <4> QED
          BY <2>2, <3>1, <4>1 DEF ServedInv, PlanComplete
    <3> QED
        BY <3>2, <3>3
  <2> QED
      BY <2>1, <2>2
<1>8. PlannedCurrent'
  <2> SUFFICES ASSUME NEW z \in Pushes, push'[z].stage \in {"checked", "prepared"}
               PROVE  /\ versions[push'[z].tag] # NoCommit
                      /\ \A p \in push'[z].plan :
                            publication[p].stage = "published" /\ Names(<<p, push'[z].tag>>, versions[push'[z].tag])
      BY <1>0 DEF PlannedCurrent, Names, ArtifactAt
  <2>1. CASE z = s
      BY <1>0, <1>1, <1>6, <2>1 DEF Preflight, Serves, Names
  <2>2. CASE z # s
      BY <1>1, <2>2 DEF ServedInv, PlannedCurrent
  <2> QED
      BY <2>1, <2>2
<1>9. UnracedServed'
  <2> SUFFICES ASSUME NEW p \in Publications, NEW u \in Tags, Unraced(p, u)'
               PROVE  \/ versions[u] # NoCommit /\ Serves(<<p, u>>, versions[u])'
                      \/ p \in superseded /\ Emptied(<<p, u>>)'
                      \/ \E z \in Pushes : push'[z].tag = u /\ push'[z].stage \in {"prepared", "moved"}
      BY <1>0 DEF UnracedServed
  <2>1. Unraced(p, u)
      BY <1>0, <1>2 DEF Unraced
  <2>2. /\ Serves(<<p, u>>, versions[u])' <=> Serves(<<p, u>>, versions[u])
        /\ Emptied(<<p, u>>)' <=> Emptied(<<p, u>>)
      BY <1>0 DEF Serves, ArtifactAt, Emptied
  <2> QED
      BY <1>1, <2>1, <2>2 DEF ServedInv, UnracedServed
<1>10. Superseded'
  <2>1. ASSUME new = NoCommit PROVE Selecting(t) \subseteq superseded
    <3>1. \A p \in Selecting(t) : p \in Publications /\ t \in publication[p].tags
        BY DEF Selecting, Revisions
    <3>2. \A p \in Selecting(t) : p # published
        BY <2>1, <3>1 DEF Preflight, DeleteAllowed, PublishedTags
    <3> QED
        BY <1>6, <3>1, <3>2 DEF ServedInv, Superseded
  <2> QED
      BY <1>0, <1>1, <2>1 DEF ServedInv, Superseded
<1> QED
    BY <1>3, <1>4, <1>5, <1>7, <1>8, <1>9, <1>10 DEF ServedInv

\* What the later steps of a push, and its resolution, leave as it is.
LEMMA PushFrame ==
    ASSUME ServedInv, NEW s \in Pushes, push[s].tag \in Tags,
           \A z \in Pushes : z # s => push'[z] = push[z],
           push'[s].tag \in Tags =>
               /\ push'[s].tag = push[s].tag /\ push'[s].plan = push[s].plan
               /\ push'[s].new = push[s].new
               /\ push'[s].stage \notin {"start", "done"},
           push[s].stage \in {"checked", "prepared", "moved"},
           push'[s].tag \notin Tags => push'[s].stage = "done",
           UNCHANGED <<publication, published, raced, superseded>>,
           \A p \in Publications, u \in Tags :
               /\ disk'[<<p, u>>] = disk[<<p, u>>]
               /\ artifacts'[<<p, u>>].state = artifacts[<<p, u>>].state,
           \A u \in Tags : u # push[s].tag => refs'[u] = refs[u] /\ versions'[u] = versions[u],
           \A p \in Publications : publication[p].tags \subseteq Tags
    PROVE  PushesExclude' /\ Untagged' /\ BuildsCurrent' /\ PlanComplete' /\ Superseded'
<1>1. PushesExclude' /\ Untagged'
    BY DEF ServedInv, PushesExclude, Untagged
<1>2. BuildsCurrent'
  <2> SUFFICES ASSUME NEW p \in Publications \ raced, Underway(p), NEW u \in publication[p].tags
               PROVE  /\ \A z \in Pushes : push'[z].tag # u
                      /\ versions'[u] # NoCommit
                      /\ u \in publication[p].built => disk'[<<p, u>>] = refs'[u]
      BY DEF BuildsCurrent, Underway
  <2>1. /\ u \in Tags /\ (\A z \in Pushes : push[z].tag # u) /\ versions[u] # NoCommit
        /\ u \in publication[p].built => disk[<<p, u>>] = refs[u]
      BY DEF ServedInv, BuildsCurrent
  <2> QED
      BY <2>1
<1>3. PlanComplete'
  <2> SUFFICES ASSUME NEW p \in Publications, NEW u \in Tags
               PROVE  /\ publication[p].stage = "published" /\ u \in publication[p].tags =>
                             artifacts'[<<p, u>>].state # "none"
                      /\ Unraced(p, u) => \A z \in Pushes : push'[z].tag = u => p \in push'[z].plan
      BY DEF PlanComplete, Unraced
  <2> QED
      BY DEF ServedInv, PlanComplete
<1>4. Superseded'
    BY DEF ServedInv, Superseded
<1> QED
    BY <1>1, <1>2, <1>3, <1>4

\* A rejected push has closed nothing; a ref moves under a push that has.
LEMMA MoveServed ==
    ASSUME IInv, ServedInv, NEW s \in Pushes, Reject(s) \/ MoveRef(s)
    PROVE  ServedInv'
<1> USE Ids, NullIds DEF gcVars
<1> DEFINE t == push[s].tag
<1>0. /\ TypeOK /\ t \in Tags
      /\ UNCHANGED <<artifacts, pointers, disk, versions, publication, published, raced, superseded>>
      /\ \A p \in Publications : publication[p].tags \subseteq Tags
    BY DEF IInv, QueueInv, PushesTagged, TypeOK, Reject, MoveRef
<1>1. /\ \A z \in Pushes : z # s => push'[z] = push[z]
      /\ \/ /\ push[s].stage = "checked" /\ push'[s].stage = "done" /\ push'[s].tag \notin Tags
            /\ refs' = refs
         \/ /\ push[s].stage = "prepared" /\ push'[s].stage = "moved"
            /\ push'[s].tag = t /\ push'[s].plan = push[s].plan /\ push'[s].new = push[s].new
            /\ refs'[t] = push[s].new /\ \A u \in Tags : u # t => refs'[u] = refs[u]
  <2>1. CASE Reject(s)
      BY <1>0, <2>1 DEF Reject, NoPush, TypeOK
  <2>2. CASE MoveRef(s)
    <3>1. push' = [push EXCEPT ![s] = [push[s] EXCEPT !.stage = "moved"]] /\ push[s] \in PushRecords
        BY <1>0, <2>2 DEF MoveRef, TypeOK, PushRecords
    <3> QED
        BY <1>0, <2>2, <3>1 DEF MoveRef, TypeOK, PushRecords
  <2> QED
      BY <2>1, <2>2
<1>2. PushesExclude' /\ Untagged' /\ BuildsCurrent' /\ PlanComplete' /\ Superseded'
    BY <1>0, <1>1, PushFrame
<1>3. RefsAgree'
  <2> SUFFICES ASSUME NEW u \in Tags
               PROVE  /\ versions[u] # NoCommit =>
                            refs'[u] = versions[u] \/ \E z \in Pushes : push'[z].tag = u /\ push'[z].stage = "moved"
                      /\ \A z \in Pushes : push'[z].tag = u /\ push'[z].stage = "moved" => refs'[u] = push'[z].new
      BY <1>0 DEF RefsAgree
  <2>1. CASE u = t
      BY <1>0, <1>1, <2>1 DEF ServedInv, RefsAgree, PushesExclude
  <2>2. CASE u # t
      BY <1>0, <1>1, <2>2 DEF ServedInv, RefsAgree
  <2> QED
      BY <2>1, <2>2
<1>4. PlannedCurrent'
    BY <1>0, <1>1 DEF ServedInv, PlannedCurrent, Names, ArtifactAt
<1>5. UnracedServed'
    BY <1>0, <1>1 DEF ServedInv, UnracedServed, Unraced, Serves, ArtifactAt, Emptied
<1> QED
    BY <1>2, <1>3, <1>4, <1>5 DEF ServedInv

\* The artifacts a push stages are nobody's yet: no pointer shows the difference.
LEMMA PersistServed ==
    ASSUME IInv, ServedInv, NEW s \in Pushes, Persist(s)
    PROVE  ServedInv'
<1> USE Ids, NullIds
<1> DEFINE t == push[s].tag
<1>0. /\ TypeOK /\ QueueInv /\ t \in Tags
      /\ UNCHANGED <<refs, versions, publication, published, raced, superseded>>
      /\ \A p \in Publications : publication[p].tags \subseteq Tags
      /\ push[s].plan \subseteq Publications
    BY DEF IInv, QueueInv, PushesTagged, TypeOK, Persist
<1>1. /\ \A z \in Pushes : z # s => push'[z] = push[z]
      /\ push[s].stage = "checked" /\ push'[s].stage = "prepared"
      /\ push'[s].tag = t /\ push'[s].plan = push[s].plan /\ push'[s].new = push[s].new
    BY <1>0 DEF Persist, TypeOK
<1>2. Staged(s) \subseteq {s} \X Publications /\ \A q \in Publications : ~Referenced(<<s, q>>)
    BY <1>0, <1>1 DEF Staged, QueueInv, OwnArtifactsFresh, Fresh
<1>3. /\ \A a \in Artifacts : Referenced(a) => artifacts'[a] = artifacts[a]
      /\ \A p \in Publications, u \in Tags : /\ disk'[<<p, u>>] = disk[<<p, u>>]
                                             /\ artifacts'[<<p, u>>] = artifacts[<<p, u>>]
    BY <1>2 DEF Persist
<1>4. /\ \A i \in PointerIds : pointers'[i].artifact = pointers[i].artifact
      /\ \A i \in PointerIds : i[2] # t => pointers'[i] = pointers[i]
    BY <1>0 DEF Persist, TypeOK, PlannedPointers
<1>5. PushesExclude' /\ Untagged' /\ BuildsCurrent' /\ PlanComplete' /\ Superseded'
    BY <1>0, <1>1, <1>3, PushFrame
<1>6. RefsAgree'
    BY <1>0, <1>1 DEF ServedInv, RefsAgree
<1>7. \A i \in PointerIds : \A c : Names(i, c) => Names(i, c)'
  <2> SUFFICES ASSUME NEW i \in PointerIds, NEW c, Names(i, c) PROVE Names(i, c)'
      OBVIOUS
  <2>1. pointers[i].artifact \in Artifacts /\ Referenced(pointers[i].artifact)
      BY <1>0 DEF Names, TypeOK, Referenced
  <2> QED
      BY <1>3, <1>4, <2>1 DEF Names, ArtifactAt
<1>8. PlannedCurrent'
  <2>0. \A z \in Pushes : push'[z].stage \in {"checked", "prepared"} =>
            /\ push[z].stage \in {"checked", "prepared"} /\ push'[z].tag = push[z].tag
            /\ versions'[push'[z].tag] # NoCommit
      BY <1>0, <1>1 DEF ServedInv, PlannedCurrent
  <2> SUFFICES ASSUME NEW z \in Pushes, push'[z].stage \in {"checked", "prepared"}, NEW p \in push'[z].plan
               PROVE  publication[p].stage = "published" /\ Names(<<p, push[z].tag>>, versions[push[z].tag])'
      BY <1>0, <1>1, <2>0 DEF PlannedCurrent
  <2>1. /\ publication[p].stage = "published" /\ Names(<<p, push[z].tag>>, versions[push[z].tag])
        /\ push'[z].tag = push[z].tag /\ push[z].tag \in Tags /\ p \in Publications
      BY SMTT(30), <1>0, <1>1 DEF ServedInv, PlannedCurrent, QueueInv, PushesTagged, TypeOK
  <2> QED
      BY <1>0, <1>7, <2>1 DEF Names, ArtifactAt
<1>9. UnracedServed'
  <2> SUFFICES ASSUME NEW p \in Publications, NEW u \in Tags, Unraced(p, u)
               PROVE  \/ versions[u] # NoCommit /\ Serves(<<p, u>>, versions[u])'
                      \/ p \in superseded /\ Emptied(<<p, u>>)'
                      \/ \E z \in Pushes : push'[z].tag = u /\ push'[z].stage \in {"prepared", "moved"}
      BY <1>0 DEF UnracedServed, Unraced
  <2>1. CASE u = t
      BY <1>1, <2>1
  <2>2. CASE u # t
    <3>1. ASSUME Serves(<<p, u>>, versions[u]) PROVE Serves(<<p, u>>, versions[u])'
      <4>1. pointers'[<<p, u>>] = pointers[<<p, u>>] /\ Names(<<p, u>>, versions[u])
          BY <1>4, <2>2, <3>1 DEF Serves, Names
      <4>2. Names(<<p, u>>, versions[u])'
          BY <1>0, <1>7, <4>1 DEF Names, ArtifactAt
      <4> QED
          BY <3>1, <4>1, <4>2 DEF Serves, Names
    <3>2. Emptied(<<p, u>>) => Emptied(<<p, u>>)'
        BY <1>4, <2>2 DEF Emptied
    <3> QED
        BY <1>1, <2>2, <3>1, <3>2 DEF ServedInv, UnracedServed
  <2> QED
      BY <2>1, <2>2
<1> QED
    BY <1>5, <1>6, <1>8, <1>9 DEF ServedInv

\* completeIntent: what the push built for each revision is what it is served by.
LEMMA CompleteServed ==
    ASSUME IInv, ~CommitAckMayBeLost, ServedInv, NEW s \in Pushes, Complete(s)
    PROVE  ServedInv'
<1> USE Ids, NullIds
<1> DEFINE t == push[s].tag
           new == push[s].new
<1>0. /\ TypeOK /\ QueueInv /\ ServingInv /\ t \in Tags
      /\ UNCHANGED <<disk, refs, publication, published, raced, superseded>>
      /\ \A p \in Publications : publication[p].tags \subseteq Tags
      /\ push[s].plan \subseteq Publications /\ push[s].stage = "moved"
    BY DEF IInv, QueueInv, PushesTagged, TypeOK, Complete
<1>1. /\ \A z \in Pushes : z # s => push'[z] = push[z]
      /\ push'[s].stage = "done" /\ push'[s].tag \notin Tags
    BY <1>0 DEF Complete, TypeOK, NoPush
<1>2. versions'[t] = new /\ \A u \in Tags : u # t => versions'[u] = versions[u]
    BY <1>0 DEF Complete, TypeOK
<1>3. /\ Staged(s) = IF new # NoCommit THEN {s} \X push[s].plan ELSE {}
      /\ \A q \in Publications : ~Referenced(<<s, q>>)
    BY <1>0 DEF Staged, QueueInv, OwnArtifactsFresh, Fresh
<1>4. \A a \in Artifacts :
          /\ artifacts'[a].commit = artifacts[a].commit
          /\ artifacts'[a].state = IF a \in Staged(s) THEN "ready" ELSE artifacts[a].state
    BY <1>0 DEF Complete, TypeOK
<1>5. \A p \in Publications, u \in Tags : artifacts'[<<p, u>>].state = artifacts[<<p, u>>].state
    BY <1>0, <1>3, <1>4
<1>6. /\ \A i \in PointerIds : i[2] # t => pointers'[i] = pointers[i]
      /\ new # NoCommit => \A p \in push[s].plan :
             pointers'[<<p, t>>].artifact = <<s, p>> /\ pointers'[<<p, t>>].available
      /\ new = NoCommit => \A p \in push[s].plan : pointers'[<<p, t>>].artifact = NoArtifact
    BY <1>0 DEF Complete, PlannedPointers
<1>7. PushesExclude' /\ Untagged' /\ BuildsCurrent' /\ PlanComplete' /\ Superseded'
    BY <1>0, <1>1, <1>2, <1>5, PushFrame
<1>8. RefsAgree'
  <2> SUFFICES ASSUME NEW u \in Tags
               PROVE  /\ versions'[u] # NoCommit =>
                            refs[u] = versions'[u] \/ \E z \in Pushes : push'[z].tag = u /\ push'[z].stage = "moved"
                      /\ \A z \in Pushes : push'[z].tag = u /\ push'[z].stage = "moved" => refs[u] = push'[z].new
      BY <1>0 DEF RefsAgree
  <2>1. CASE u = t
      BY <1>0, <1>1, <1>2, <2>1 DEF ServedInv, RefsAgree
  <2>2. CASE u # t
      BY <1>0, <1>1, <1>2, <2>2 DEF ServedInv, RefsAgree
  <2> QED
      BY <2>1, <2>2
<1>9. ASSUME NEW i \in PointerIds, i[2] # t, NEW c, Names(i, c)
      PROVE  Names(i, c)'
  <2>1. pointers[i].artifact \in Artifacts /\ Referenced(pointers[i].artifact) /\ pointers'[i] = pointers[i]
      BY <1>0, <1>6, <1>9 DEF Names, TypeOK, Referenced
  <2>2. pointers[i].artifact \notin Staged(s)
      BY <1>0, <1>3, <2>1
  <2> QED
      BY <1>4, <1>9, <2>1, <2>2 DEF Names, ArtifactAt
<1>10. PlannedCurrent'
  <2>0. \A z \in Pushes : push'[z].stage \in {"checked", "prepared"} =>
            push'[z].tag = push[z].tag /\ versions'[push[z].tag] # NoCommit
      BY <1>0, <1>1, <1>2 DEF ServedInv, PlannedCurrent, PushesExclude, QueueInv, PushesTagged
  <2> SUFFICES ASSUME NEW z \in Pushes, push'[z].stage \in {"checked", "prepared"}, NEW p \in push'[z].plan
               PROVE  publication[p].stage = "published" /\ Names(<<p, push[z].tag>>, versions[push[z].tag])'
      BY <1>0, <2>0 DEF PlannedCurrent
  <2>1. /\ publication[p].stage = "published" /\ Names(<<p, push[z].tag>>, versions[push[z].tag])
        /\ push'[z] = push[z] /\ z # s /\ push[z].tag \in Tags /\ p \in Publications
      BY <1>0, <1>1 DEF ServedInv, PlannedCurrent, QueueInv, PushesTagged, TypeOK
  <2>2. push[z].tag # t
      BY <1>0, <2>1 DEF ServedInv, PushesExclude
  <2>3. ASSUME NEW c, Names(<<p, push[z].tag>>, c)
        PROVE  /\ pointers'[<<p, push[z].tag>>].artifact # NoArtifact
               /\ artifacts'[pointers'[<<p, push[z].tag>>].artifact].state = "ready"
               /\ artifacts'[pointers'[<<p, push[z].tag>>].artifact].commit = c
      BY <1>9, <2>1, <2>2, <2>3 DEF Names, ArtifactAt
  <2>4. push'[z].tag = push[z].tag /\ versions'[push[z].tag] = versions[push[z].tag]
      BY <1>2, <2>1, <2>2
  <2>5. /\ pointers'[<<p, push[z].tag>>].artifact # NoArtifact
        /\ artifacts'[pointers'[<<p, push[z].tag>>].artifact].state = "ready"
        /\ artifacts'[pointers'[<<p, push[z].tag>>].artifact].commit = versions[push[z].tag]
      BY <2>1, <2>3, Zenon
  <2> QED
      BY <2>1, <2>4, <2>5, ZenonT(60) DEF Names, ArtifactAt
<1>11. UnracedServed'
  <2> SUFFICES ASSUME NEW p \in Publications, NEW u \in Tags, Unraced(p, u)
               PROVE  \/ versions'[u] # NoCommit /\ Serves(<<p, u>>, versions[u])'
                      \/ p \in superseded /\ Emptied(<<p, u>>)'
                      \/ \E z \in Pushes : push'[z].tag = u /\ push'[z].stage \in {"prepared", "moved"}
      BY <1>0 DEF UnracedServed, Unraced
  <2>1. CASE u = t /\ new # NoCommit
    <3>1. p \in push[s].plan
        BY <1>0, <2>1 DEF ServedInv, PlanComplete
    <3>2. artifacts[<<s, p>>].commit = new
        BY <1>0, <2>1, <3>1 DEF ServingInv, BytesKept
    <3>3. artifacts'[<<s, p>>].commit = new /\ artifacts'[<<s, p>>].state = "ready"
        BY <1>0, <1>3, <1>4, <2>1, <3>1, <3>2
    <3> QED
        BY SMTT(30), <1>0, <1>2, <1>6, <2>1, <3>1, <3>3 DEF Serves, ArtifactAt
  <2>2. CASE u = t /\ new = NoCommit
    <3>1. p \in push[s].plan
        BY <1>0, <2>2 DEF ServedInv, PlanComplete
    <3>2. p \in superseded
        BY <1>0, <2>2, <3>1 DEF ServedInv, Superseded
    <3> QED
        BY <1>6, <2>2, <3>1, <3>2 DEF Emptied
  <2>3. CASE u # t
    <3>1. ASSUME Serves(<<p, u>>, versions[u]) PROVE Serves(<<p, u>>, versions[u])'
      <4>1. /\ pointers'[<<p, u>>] = pointers[<<p, u>>] /\ pointers[<<p, u>>].available
            /\ pointers[<<p, u>>].artifact \in Artifacts
            /\ Referenced(pointers[<<p, u>>].artifact)
          BY <1>0, <1>6, <2>3, <3>1 DEF Serves, TypeOK, Referenced
      <4>2. pointers[<<p, u>>].artifact \notin Staged(s)
          BY <1>0, <1>3, <4>1
      <4> QED
          BY <1>2, <1>4, <2>3, <3>1, <4>1, <4>2 DEF Serves, ArtifactAt
    <3>2. Emptied(<<p, u>>) => Emptied(<<p, u>>)'
        BY <1>6, <2>3 DEF Emptied
    <3> QED
        BY <1>1, <1>2, <2>3, <3>1, <3>2 DEF ServedInv, UnracedServed
  <2> QED
      BY <2>1, <2>2, <2>3
<1> QED
    BY <1>7, <1>8, <1>10, <1>11 DEF ServedInv

\* abortIntent: what was closed opens again, and is still what the Version names.
LEMMA AbortServed ==
    ASSUME IInv, ServedInv, NEW s \in Pushes, Abort(s)
    PROVE  ServedInv'
<1> USE Ids, NullIds
<1> DEFINE t == push[s].tag
<1>0. /\ TypeOK /\ t \in Tags /\ push[s].stage = "prepared"
      /\ UNCHANGED <<artifacts, disk, refs, versions, publication, published, raced, superseded>>
      /\ \A p \in Publications : publication[p].tags \subseteq Tags
      /\ push[s].plan \subseteq Publications
    BY DEF IInv, QueueInv, PushesTagged, TypeOK, Abort
<1>1. /\ \A z \in Pushes : z # s => push'[z] = push[z]
      /\ push'[s].stage = "done" /\ push'[s].tag \notin Tags
    BY <1>0 DEF Abort, TypeOK, NoPush
<1>2. /\ \A i \in PointerIds : /\ pointers'[i].artifact = pointers[i].artifact
                               /\ pointers[i].available => pointers'[i].available
      /\ \A p \in push[s].plan : pointers'[<<p, t>>].available
      /\ \A i \in PointerIds : i[2] # t => pointers'[i] = pointers[i]
    BY <1>0 DEF Abort, TypeOK, PlannedPointers
<1>3. PushesExclude' /\ Untagged' /\ BuildsCurrent' /\ PlanComplete' /\ Superseded'
    BY <1>0, <1>1, PushFrame
<1>4. RefsAgree'
    BY <1>0, <1>1 DEF ServedInv, RefsAgree
<1>5. PlannedCurrent'
  <2>0. \A z \in Pushes : push'[z].stage \in {"checked", "prepared"} =>
            push'[z].tag = push[z].tag /\ versions'[push[z].tag] # NoCommit
      BY <1>0, <1>1 DEF ServedInv, PlannedCurrent
  <2> SUFFICES ASSUME NEW z \in Pushes, push'[z].stage \in {"checked", "prepared"}, NEW p \in push'[z].plan
               PROVE  publication[p].stage = "published" /\ Names(<<p, push[z].tag>>, versions[push[z].tag])'
      BY <1>0, <2>0 DEF PlannedCurrent
  <2>1. /\ publication[p].stage = "published" /\ Names(<<p, push[z].tag>>, versions[push[z].tag])
        /\ push'[z] = push[z] /\ push[z].tag \in Tags /\ p \in Publications
      BY <1>0, <1>1 DEF ServedInv, PlannedCurrent, IInv, QueueInv, PushesTagged, TypeOK
  <2> QED
      BY <1>0, <1>2, <2>1 DEF Names, ArtifactAt
<1>6. UnracedServed'
  <2> SUFFICES ASSUME NEW p \in Publications, NEW u \in Tags, Unraced(p, u)
               PROVE  \/ versions[u] # NoCommit /\ Serves(<<p, u>>, versions[u])'
                      \/ p \in superseded /\ Emptied(<<p, u>>)'
                      \/ \E z \in Pushes : push'[z].tag = u /\ push'[z].stage \in {"prepared", "moved"}
      BY <1>0 DEF UnracedServed, Unraced
  <2>1. CASE u = t
    <3>1. p \in push[s].plan
        BY <1>0, <2>1 DEF ServedInv, PlanComplete
    <3>2. Names(<<p, t>>, versions[t]) /\ versions[t] # NoCommit
        BY <1>0, <3>1 DEF ServedInv, PlannedCurrent
    <3> QED
        BY <1>0, <1>2, <2>1, <3>1, <3>2 DEF Names, Serves, ArtifactAt
  <2>2. CASE u # t
      BY <1>0, <1>1, <1>2, <2>2 DEF ServedInv, UnracedServed, Serves, ArtifactAt, Emptied
  <2> QED
      BY <2>1, <2>2
<1> QED
    BY <1>3, <1>4, <1>5, <1>6 DEF ServedInv

\* A Version comes back only where the pointers of its deletion are empty.
LEMMA RecreateServed ==
    ASSUME IInv, ServedInv, NEW t \in Tags, Recreate(t)
    PROVE  ServedInv'
<1> USE Ids, NullIds DEF gcVars
<1>0. /\ versions[t] = NoCommit /\ \A s \in Pushes : push[s].tag # t
      /\ UNCHANGED <<artifacts, pointers, disk, publication, push, published, raced, superseded>>
      /\ \A p \in Publications : publication[p].tags \subseteq Tags
    BY DEF IInv, QueueInv, TypeOK, Recreate, MoveUnversionedRef, RestoreVersion
<1>1. /\ \A u \in Tags : u # t => refs'[u] = refs[u] /\ versions'[u] = versions[u]
      /\ versions'[t] # NoCommit => refs'[t] = versions'[t]
    BY <1>0 DEF IInv, QueueInv, TypeOK, Recreate, MoveUnversionedRef, RestoreVersion
<1>2. PushesExclude' /\ Untagged' /\ PlanComplete' /\ Superseded'
    BY <1>0 DEF ServedInv, PushesExclude, Untagged, PlanComplete, Superseded, Unraced
<1>3. RefsAgree'
    BY <1>0, <1>1 DEF ServedInv, RefsAgree
<1>4. BuildsCurrent'
    BY <1>0, <1>1 DEF ServedInv, BuildsCurrent, Underway
<1>5. PlannedCurrent'
  <2>1. \A s \in Pushes : push[s].stage \in {"checked", "prepared"} =>
            push[s].tag \in Tags /\ versions'[push[s].tag] = versions[push[s].tag]
      BY <1>0, <1>1 DEF IInv, QueueInv, PushesTagged
  <2> QED
      BY <1>0, <2>1 DEF ServedInv, PlannedCurrent, Names, ArtifactAt
<1>6. UnracedServed'
    BY <1>0, <1>1 DEF ServedInv, UnracedServed, Unraced, Serves, ArtifactAt, Emptied
<1> QED
    BY <1>2, <1>3, <1>4, <1>5, <1>6 DEF ServedInv

LEMMA NextServed ==
    ASSUME IInv, ~CommitAckMayBeLost, ServedInv, [Next]_vars
    PROVE  ServedInv'
<1>1. CASE UNCHANGED vars
  <2>1. BuildsCurrent'
      BY <1>1 DEF ServedInv, BuildsCurrent, Underway, vars, gcVars, ownVars
  <2>2. \A s \in Pushes : push[s].plan \subseteq Publications
      BY DEF IInv, QueueInv, TypeOK
  <2>3. \A p \in Publications : publication[p].stage = "published" /\ p # published => p \in superseded
      BY DEF ServedInv, Superseded
  <2> QED
      BY <1>1, <2>1, <2>2, <2>3, ServedFrame DEF vars, gcVars, ownVars
<1>2. ASSUME NEW p \in Publications, PublishStep(p) PROVE ServedInv'
    BY <1>2, BuildServed, PublishServed DEF PublishStep
<1>3. ASSUME NEW s \in Pushes, Receive(s) PROVE ServedInv'
    BY <1>3, PreflightServed, MoveServed, PersistServed, CompleteServed, AbortServed DEF Receive
<1>4. CASE Collect /\ UNCHANGED ownVars
    BY <1>4, CollectServed
<1>5. ASSUME NEW t \in Tags, Recreate(t) PROVE ServedInv'
    BY <1>5, RecreateServed
<1> QED
    BY <1>1, <1>2, <1>3, <1>4, <1>5 DEF Next

\* Unless a push overlapped its publication, every tag that the published revision
\* selects resolves or waits for the resolution of a receive, or was deleted while
\* another revision was published; whatever management restores.
THEOREM ServedCorrect == ~CommitAckMayBeLost => (Spec => []PublishedIsServed)
<1> SUFFICES ASSUME ~CommitAckMayBeLost PROVE Spec => []PublishedIsServed
    OBVIOUS
<1>1. IInv /\ ServedInv => PublishedIsServed
  <2> SUFFICES ASSUME IInv, ServedInv, published \notin raced, NEW t \in PublishedTags
               PROVE  \/ Resolves(t)
                      \/ published \in superseded /\ Emptied(<<published, t>>)
                      \/ \E s \in Pushes : push[s].tag = t /\ push[s].stage \in {"prepared", "moved"}
      BY DEF PublishedIsServed
  <2>1. published \in Publications /\ t \in publication[published].tags /\ t \in Tags
      BY DEF IInv, QueueInv, TypeOK, PublishedTags
  <2>2. publication[published].stage = "published"
      BY <2>1 DEF IInv, ServingInv, UnpublishedHasNoRows
  <2>3. Unraced(published, t)
      BY <2>1, <2>2 DEF Unraced
  <2> QED
      BY <2>1, <2>3 DEF ServedInv, UnracedServed, Resolves
<1>2. Init => ServedInv
    BY ServedInit
<1>3. IInv /\ ServedInv /\ [Next]_vars => ServedInv'
    BY NextServed
<1> QED
    BY <1>1, <1>2, <1>3, Invariance, PTL DEF Spec
=============================================================================
