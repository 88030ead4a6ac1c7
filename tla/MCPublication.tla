------------------------------ MODULE MCPublication ------------------------------
EXTENDS Publication, TLC

BuiltProjections == (Publications \X Tags) \cup (Pushes \X Publications)
Items == Publications \X Tags
Interchangeable ==
    Permutations(Publications) \cup Permutations(Pushes) \cup Permutations(Tags)
        \cup Permutations(Commits)
=============================================================================
