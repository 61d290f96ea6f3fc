---------------------------- MODULE MCRunControl -----------------------------
(***************************************************************************)
(* Instances of RunControl for TLC.                                        *)
(***************************************************************************)
EXTENDS RunControl, TLC

OneRun == {1}
TwoRuns == {1, 2}
OneTry == [l \in 1..Levels |-> 1]
RetryFirst == [l \in 1..Levels |-> IF l = 1 THEN 2 ELSE 1]
AskedKinds == [r \in Runs |-> {"dry", "manual"}]
AutoKinds == [r \in Runs |-> {"auto"}]
WorkerSymmetry == Permutations(Discoverers) \cup Permutations(Executors)
=============================================================================
