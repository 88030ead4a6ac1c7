-------------------------------- MODULE Serving --------------------------------
(***************************************************************************)
(* What a Plugin with protected receive promises to those who fetch from a *)
(* Marketplace: a serving pointer shows the commit its tag has in Git at   *)
(* that moment, or nothing; and a tag moves only while its pointers show   *)
(* nothing, so nobody is shown what the tag has left.  Nothing is said of  *)
(* batches, projections, locks or who resolves what.                       *)
(***************************************************************************)
CONSTANTS
    Tags,      \* canonical tags of the Plugin
    Commits,   \* commits
    NoCommit,  \* a tag that is not there, a pointer that shows nothing
    Pointers,  \* serving pointers
    TagOf      \* the tag a pointer's revision item selects

VARIABLES
    tip,   \* tag -> the commit its Git ref peels to
    shown  \* pointer -> the commit it serves

Dark(p) == shown[p] = NoCommit

\* Every pointer is published with the commit of its tag.
Init ==
    /\ tip \in [Tags -> Commits \cup {NoCommit}]
    /\ \A p \in Pointers : tip[TagOf[p]] # NoCommit
    /\ shown = [p \in Pointers |-> tip[TagOf[p]]]

\* A transaction closes pointers.
CloseSome(P) ==
    /\ shown' = [p \in Pointers |-> IF p \in P THEN NoCommit ELSE shown[p]]
    /\ UNCHANGED tip

\* A transaction opens closed pointers, on what their tags are now.
OpenSome(P) ==
    /\ \A p \in P : Dark(p) /\ tip[TagOf[p]] # NoCommit
    /\ shown' = [p \in Pointers |-> IF p \in P THEN tip[TagOf[p]] ELSE shown[p]]
    /\ UNCHANGED tip

\* `git update-ref` moves, creates and deletes tags, all pointers of which are
\* closed.
MoveTags ==
    /\ tip' \in [Tags -> Commits \cup {NoCommit}]
    /\ \A p \in Pointers : tip'[TagOf[p]] # tip[TagOf[p]] => Dark(p)
    /\ UNCHANGED shown

Next == (\E P \in SUBSET Pointers : CloseSome(P) \/ OpenSome(P)) \/ MoveTags

Spec == Init /\ [][Next]_<<tip, shown>>
=============================================================================
