------------------------------ MODULE Publication ------------------------------
(***************************************************************************)
(* Publication of one Marketplace template beside pushes of the tags it    *)
(* selects and the collection of projections.                              *)
(*                                                                         *)
(* PublicationService.Publish reads Versions, builds a projection for each *)
(* tag it has no PluginDistribution for, and inserts its rows in one       *)
(* transaction; it takes no lock.  A push (see Receive, of which this is   *)
(* the part a publication can see) reads the pointers of its tag, builds a *)
(* projection for each revision, closes them, moves the ref and switches   *)
(* them.  Between any two steps of the one the other may go on.            *)
(*                                                                         *)
(* A Tag is a tag of a Plugin of its own: a revision selects one tag of a  *)
(* Plugin at most.                                                         *)
(***************************************************************************)
EXTENDS ProjectionGC

CONSTANTS Tags,
          Publications,       \* calls of Publish, and the revisions they insert
          Pushes,             \* receive sessions that persist a batch
          NoRevision, NoTag,  \* NULL
          CommitAckMayBeLost  \* a COMMIT may take effect and report an error

VARIABLES refs,               \* the commit each canonical tag ref peels to
          versions,           \* commit_sha of the Version; NoCommit when deleted
          distributions,      \* PluginDistribution rows of the template
          published,          \* published_revision_id and current_projection_id
          listings,           \* stored Marketplace projections
          publication,        \* where each call of Publish stands
          push,               \* where each push stands
          raced,              \* publications that a push of their tags overlapped
          superseded          \* publications that were the published one, and then were not

history == <<raced, superseded>>
ownVars == <<refs, versions, distributions, published, listings, publication, push, history>>
vars == <<gcVars, ownVars>>

\* An artifact built for tag t by publication p, or by push s for revision p.
ASSUME ArtifactIds ==
    /\ Artifacts = (Publications \X Tags) \cup (Pushes \X Publications)
    /\ PointerIds = Publications \X Tags
ASSUME NullIds == NoRevision \notin Publications /\ NoArtifact \notin Artifacts /\ NoTag \notin Tags
ASSUME ActorIds == IsFiniteSet(Publications) /\ Publications \cap Pushes = {}
ASSUME LossAssumption == CommitAckMayBeLost \in BOOLEAN

NoPointer == [artifact |-> NoArtifact, available |-> FALSE]
Row(storage, commit, state) == [storage |-> storage, commit |-> commit, state |-> state]
NoDistribution == [storage |-> NoArtifact, commit |-> NoCommit]

PublicationStages == {"start", "building", "listed", "published", "failing", "failed"}
NewPublication == [stage |-> "start", tags |-> {}, built |-> {}, reused |-> {}, number |-> 0]
NoPush(stage) == [stage |-> stage, tag |-> NoTag, new |-> NoCommit, plan |-> {}]
PushStages == {"start", "checked", "prepared", "moved", "done"}

TypeOK ==
    /\ GCTypeOK
    /\ artifacts \in [Artifacts -> [storage : Artifacts, commit : Commits \cup {NoCommit},
                                    state : {"none", "staged", "ready"}]]
    /\ pointers \in [PointerIds -> [artifact : Artifacts \cup {NoArtifact}, available : BOOLEAN]]
    /\ refs \in [Tags -> Commits \cup {NoCommit}]
    /\ versions \in [Tags -> Commits \cup {NoCommit}]
    /\ distributions \in [Tags -> [storage : Artifacts \cup {NoArtifact},
                                   commit : Commits \cup {NoCommit}]]
    /\ published \in Publications \cup {NoRevision}
    /\ listings \subseteq Publications
    /\ publication \in [Publications -> [stage : PublicationStages, tags : SUBSET Tags,
                                         built : SUBSET Tags, reused : SUBSET Tags, number : Nat]]
    /\ push \in [Pushes -> [stage : PushStages, tag : Tags \cup {NoTag}, new : Commits \cup {NoCommit},
                            plan : SUBSET Publications]]
    /\ raced \subseteq Publications /\ superseded \subseteq Publications

\* Every tag has a published Version of some commit; nothing is published yet.
Init ==
    /\ GCInit
    /\ disk = [a \in Artifacts |-> NoCommit]
    /\ artifacts = [a \in Artifacts |-> Row(a, NoCommit, "none")]
    /\ pointers = [i \in PointerIds |-> NoPointer]
    /\ \E c \in Commits : refs = [t \in Tags |-> c]
    /\ versions = refs
    /\ distributions = [t \in Tags |-> NoDistribution]
    /\ published = NoRevision
    /\ listings = {}
    /\ publication = [p \in Publications |-> NewPublication]
    /\ push = [s \in Pushes |-> NoPush("start")]
    /\ raced = {} /\ superseded = {}

\* The revisions in the table.
Revisions == {p \in Publications : \E t \in Tags : artifacts[<<p, t>>].state # "none"}
\* Fault: only the published revision is rebuilt.
SelectingPublished(t) == {p \in {published} \ {NoRevision} : t \in publication[p].tags}
Selecting(t) == {p \in Revisions : t \in publication[p].tags}

Underway(p) == publication[p].stage \in {"building", "listed"}

-----------------------------------------------------------------------------
(* PublicationService.Publish                                              *)

\* LoadPublicationInput: every selected Version is available.
Load(p) ==
    /\ publication[p].stage = "start"
    /\ \E T \in SUBSET Tags \ {{}} :
         /\ \A t \in T : versions[t] # NoCommit
         /\ publication' = [publication EXCEPT ![p].stage = "building", ![p].tags = T]
         /\ raced' = IF \E s \in Pushes : push[s].tag \in T
                     THEN raced \cup {p} ELSE raced
    /\ UNCHANGED <<gcVars, refs, versions, distributions, published, listings, push, superseded>>

Remaining(p) == publication[p].tags \ (publication[p].built \cup publication[p].reused)

\* A tag with a PluginDistribution keeps its identity and its projection.
Reuse(p) ==
    /\ publication[p].stage = "building"
    /\ \E t \in Remaining(p) :
         /\ distributions[t] # NoDistribution
         /\ publication' = [publication EXCEPT ![p].reused = @ \cup {t}]
    /\ UNCHANGED <<gcVars, refs, versions, distributions, published, listings, push, history>>

\* BuildPluginProjection without a source object takes what the ref names now.
Build(p) ==
    /\ publication[p].stage = "building"
    /\ \E t \in Remaining(p) :
         /\ distributions[t] = NoDistribution
         /\ refs[t] # NoCommit
         /\ disk' = [disk EXCEPT ![<<p, t>>] = refs[t]]
         /\ publication' = [publication EXCEPT ![p].built = @ \cup {t}]
    /\ UNCHANGED <<artifacts, pointers, jobs, collector, refs, versions, distributions,
                   published, listings, push, history>>

\* Find or create the MarketplaceDistribution, read NextRevision, build the listing.
BuildListing(p) ==
    /\ publication[p].stage = "building" /\ Remaining(p) = {}
    /\ publication' = [publication EXCEPT ![p].stage = "listed",
                                          ![p].number = Cardinality(Revisions) + 1]
    /\ listings' = listings \cup {p}
    /\ UNCHANGED <<gcVars, refs, versions, distributions, published, push, history>>

\* The artifact of a reused distribution names the storage and commit of its row.
ArtifactOf(p, t) == IF t \in publication[p].built
                    THEN Row(<<p, t>>, disk[<<p, t>>], "ready")
                    ELSE Row(distributions[t].storage, distributions[t].commit, "ready")

\* The unique indexes: one distribution of a tag, one revision of a number, one
\* artifact of a storage key.
\* Fault: storage keys of artifacts are not unique.
InsertableShared(p) ==
    /\ \A t \in publication[p].built : distributions[t] = NoDistribution
    /\ \A q \in Revisions : publication[q].number # publication[p].number
Insertable(p) ==
    /\ \A t \in publication[p].built : distributions[t] = NoDistribution
    /\ \A q \in Revisions : publication[q].number # publication[p].number
    /\ \A t \in publication[p].tags : \A a \in Artifacts :
          artifacts[a].state # "none" => artifacts[a].storage # ArtifactOf(p, t).storage

\* The template serves revision p from now on.
SwitchTo(p) ==
    /\ published' = p
    /\ superseded' = superseded \cup ({published} \ {NoRevision})

\* The transaction: distributions, revision, items, artifacts, pointers, switch.
Insert(p) ==
    LET T == publication[p].tags IN
    /\ publication[p].stage = "listed"
    /\ Insertable(p)
    /\ distributions' = [t \in Tags |-> IF t \in publication[p].built
                            THEN [storage |-> <<p, t>>, commit |-> disk[<<p, t>>]]
                            ELSE distributions[t]]
    /\ artifacts' = [a \in Artifacts |-> IF a \in {p} \X T THEN ArtifactOf(p, a[2])
                                         ELSE artifacts[a]]
    /\ pointers' = [i \in PointerIds |-> IF i \in {p} \X T
                        THEN [artifact |-> i, available |-> TRUE] ELSE pointers[i]]
    /\ SwitchTo(p)
    /\ UNCHANGED <<disk, jobs, collector, refs, versions, listings, push, raced>>

\* Publish is told that the transaction failed although it took effect, if answers
\* may be lost.
Publish(p) ==
    /\ Insert(p)
    /\ \E stage \in {"published"} \cup (IF CommitAckMayBeLost THEN {"failing"} ELSE {}) :
          publication' = [publication EXCEPT ![p].stage = stage]

\* A build, a query or the transaction fails: a unique index among other things.
PublishFails(p) ==
    /\ Underway(p)
    /\ publication' = [publication EXCEPT ![p].stage = "failing"]
    /\ UNCHANGED <<gcVars, refs, versions, distributions, published, listings, push, history>>

\* compensate removes what this call built, and only that.
\* Fault: only the plugin projections are removed.
CompensatePlugins(p) ==
    /\ publication[p].stage = "failing"
    /\ publication' = [publication EXCEPT ![p] = [NewPublication EXCEPT !.stage = "failed"]]
    /\ disk' = [a \in Artifacts |-> IF a \in {p} \X publication[p].built THEN NoCommit ELSE disk[a]]
    /\ UNCHANGED <<artifacts, pointers, jobs, collector, refs, versions, distributions,
                   published, listings, push, history>>
Compensate(p) ==
    /\ publication[p].stage = "failing"
    /\ publication' = [publication EXCEPT ![p] = [NewPublication EXCEPT !.stage = "failed"]]
    /\ disk' = [a \in Artifacts |-> IF a \in {p} \X publication[p].built THEN NoCommit ELSE disk[a]]
    /\ listings' = listings \ {p}
    /\ UNCHANGED <<artifacts, pointers, jobs, collector, refs, versions, distributions,
                   published, push, history>>

\* Rollback to a revision whose Marketplace projection verifies.
Rollback(p) ==
    /\ published \notin {NoRevision, p}
    /\ p \in Revisions /\ p \in listings
    /\ SwitchTo(p)
    /\ UNCHANGED <<gcVars, refs, versions, distributions, listings, publication, push, raced>>

PublishStep(p) == \/ Load(p) \/ Reuse(p) \/ Build(p) \/ BuildListing(p)
                  \/ Publish(p) \/ PublishFails(p)
                  \/ Compensate(p) \/ Rollback(p)

-----------------------------------------------------------------------------
(* A push of one tag, from its preflight to the resolution of its batch.   *)

ArtifactAt(i) == artifacts[pointers[i].artifact]

\* What a pointer serves: an artifact that is ready and of the given commit.
Serves(i, commit) ==
    /\ pointers[i].available /\ pointers[i].artifact # NoArtifact
    /\ ArtifactAt(i).state = "ready" /\ ArtifactAt(i).commit = commit

\* No active published revision selects a tag that is deleted.
PublishedTags == IF published = NoRevision THEN {} ELSE publication[published].tags
DeleteAllowed(t, new) == new = NoCommit => t \notin PublishedTags

\* classify and preflightPlans.
Preflight(s, t, new) ==
    /\ push[s].stage = "start"
    /\ \A other \in Pushes : push[other].tag # t
    /\ versions[t] \notin {NoCommit, new}
    /\ DeleteAllowed(t, new)
    /\ \A p \in Selecting(t) : Serves(<<p, t>>, versions[t])
    /\ push' = [push EXCEPT ![s] =
          [stage |-> "checked", tag |-> t, new |-> new, plan |-> Selecting(t)]]
    /\ raced' = raced \cup {p \in Publications : Underway(p) /\ t \in publication[p].tags}
    /\ UNCHANGED <<gcVars, refs, versions, distributions, published, listings, publication,
                   superseded>>

PlannedPointers(s) == {<<p, push[s].tag>> : p \in push[s].plan}
Staged(s) == IF push[s].new = NoCommit THEN {} ELSE {s} \X push[s].plan

\* The builds, and persistPrepared: stage the artifacts and close the pointers.
Persist(s) ==
    /\ push[s].stage = "checked"
    /\ push' = [push EXCEPT ![s].stage = "prepared"]
    /\ disk' = [a \in Artifacts |-> IF a \in Staged(s) THEN push[s].new ELSE disk[a]]
    /\ artifacts' = [a \in Artifacts |-> IF a \in Staged(s) THEN Row(a, push[s].new, "staged")
                                         ELSE artifacts[a]]
    /\ pointers' = [i \in PointerIds |-> IF i \in PlannedPointers(s)
                        THEN [pointers[i] EXCEPT !.available = FALSE] ELSE pointers[i]]
    /\ UNCHANGED <<jobs, collector, refs, versions, distributions, published, listings,
                   publication, history>>

\* A build or a compare-and-set fails, the push is rejected and its builds removed.
Reject(s) ==
    /\ push[s].stage = "checked"
    /\ push' = [push EXCEPT ![s] = NoPush("done")]
    /\ UNCHANGED <<gcVars, refs, versions, distributions, published, listings, publication, history>>

MoveRef(s) ==
    /\ push[s].stage = "prepared"
    /\ push' = [push EXCEPT ![s].stage = "moved"]
    /\ refs' = [refs EXCEPT ![push[s].tag] = push[s].new]
    /\ UNCHANGED <<gcVars, versions, distributions, published, listings, publication, history>>

Enqueue(A) == jobs' = [a \in Artifacts |-> IF a \in A /\ jobs[a] = "none" THEN "pending" ELSE jobs[a]]

\* completeIntent, by the session or by a reconciler.  A deletion empties the
\* pointers, and no step fills them again (see RestoreVersion).
Complete(s) ==
    LET moved == push[s].new # NoCommit IN
    /\ push[s].stage = "moved"
    /\ push' = [push EXCEPT ![s] = NoPush("done")]
    /\ versions' = [versions EXCEPT ![push[s].tag] = push[s].new]
    /\ artifacts' = [a \in Artifacts |-> IF a \in Staged(s) THEN [artifacts[a] EXCEPT !.state = "ready"]
                                         ELSE artifacts[a]]
    /\ pointers' = [i \in PointerIds |-> IF i \in PlannedPointers(s)
                        THEN [artifact |-> IF moved THEN <<s, i[1]>> ELSE NoArtifact,
                              available |-> moved]
                        ELSE pointers[i]]
    /\ Enqueue({pointers[i].artifact : i \in PlannedPointers(s)})
    /\ UNCHANGED <<disk, collector, refs, distributions, published, listings, publication, history>>

\* abortIntent: the ref did not move.
\* Fault: the artifacts the pointers keep are queued.
AbortQueueingCurrent(s) ==
    /\ push[s].stage = "prepared"
    /\ push' = [push EXCEPT ![s] = NoPush("done")]
    /\ pointers' = [i \in PointerIds |-> IF i \in PlannedPointers(s)
                        THEN [pointers[i] EXCEPT !.available = TRUE] ELSE pointers[i]]
    /\ Enqueue({pointers[i].artifact : i \in PlannedPointers(s)})
    /\ UNCHANGED <<disk, artifacts, collector, refs, versions, distributions, published,
                   listings, publication, history>>
Abort(s) ==
    /\ push[s].stage = "prepared"
    /\ push' = [push EXCEPT ![s] = NoPush("done")]
    /\ pointers' = [i \in PointerIds |-> IF i \in PlannedPointers(s)
                        THEN [pointers[i] EXCEPT !.available = TRUE] ELSE pointers[i]]
    /\ Enqueue(Staged(s))
    /\ UNCHANGED <<disk, artifacts, collector, refs, versions, distributions, published,
                   listings, publication, history>>

Receive(s) == \/ \E t \in Tags, new \in Commits \cup {NoCommit} : Preflight(s, t, new)
              \/ Persist(s) \/ Reject(s) \/ MoveRef(s)
              \/ Complete(s) \/ Abort(s)

-----------------------------------------------------------------------------
(* A tag whose Version is deleted.                                         *)

\* A push of a tag without an available Version is no part of a batch: Git creates,
\* moves or deletes the ref on its own, under the Plugin's lock.
MoveUnversionedRef(t) ==
    /\ versions[t] = NoCommit
    /\ \A s \in Pushes : push[s].tag # t
    /\ \E c \in (Commits \cup {NoCommit}) \ {refs[t]} : refs' = [refs EXCEPT ![t] = c]
    /\ UNCHANGED <<gcVars, versions, distributions, published, listings, publication, push, history>>

\* The management operation Publish makes the Version available again, of the commit
\* its ref names now.  It writes no pointer.
RestoreVersion(t) ==
    /\ versions[t] = NoCommit /\ refs[t] # NoCommit
    /\ \A s \in Pushes : push[s].tag # t
    /\ versions' = [versions EXCEPT ![t] = refs[t]]
    /\ UNCHANGED <<gcVars, refs, distributions, published, listings, publication, push, history>>

Recreate(t) == MoveUnversionedRef(t) \/ RestoreVersion(t)

Next == \/ \E p \in Publications : PublishStep(p)
        \/ \E s \in Pushes : Receive(s)
        \/ \E t \in Tags : Recreate(t)
        \/ Collect /\ UNCHANGED ownVars

Spec == Init /\ [][Next]_vars

-----------------------------------------------------------------------------
(* What a client gets.                                                     *)

\* FindActivePlugin for the distribution of tag t.
Resolves(t) ==
    /\ t \in PublishedTags
    /\ versions[t] # NoCommit
    /\ Serves(<<published, t>>, versions[t])

\* A fetch that resolves finds its bytes, and they are those of the Version's
\* commit; a published revision has its listing.  No collector, no compensation
\* and no reused identity took them away.
ResolvedHasBytes ==
    /\ \A t \in Tags : Resolves(t) =>
          disk[ArtifactAt(<<published, t>>).storage] = versions[t]
    /\ published # NoRevision => published \in listings

\* Nothing is stored for the pointer any more.
Emptied(i) == pointers[i].artifact = NoArtifact

\* Whatever tag the published revision selects resolves, or waits for the resolution
\* of a receive: later pushes rebuild it, a rollback finds it current.  Two ways
\* remain in which a tag is lost: a push of it overlapped the revision's
\* publication, or another revision was published meanwhile, so that the tag could
\* be deleted, whether or not its Version was restored since.
PublishedIsServed ==
    published \notin raced =>
        \A t \in PublishedTags :
            \/ Resolves(t)
            \/ \E s \in Pushes : push[s].tag = t /\ push[s].stage \in {"prepared", "moved"}
            \/ published \in superseded /\ Emptied(<<published, t>>)

\* A publication that failed leaves no bytes, no row, and is not published.
FailedLeavesNothing ==
    \A p \in Publications : publication[p].stage = "failed" =>
        /\ p \notin Revisions \cup listings
        /\ published # p
        /\ \A t \in Tags : disk[<<p, t>>] = NoCommit
=============================================================================
