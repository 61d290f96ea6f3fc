--------------------------- MODULE MCTaskControl ---------------------------
(* Instances of TaskControl for TLC. *)
EXTENDS TaskControl, TLC

CONSTANTS t1, t2, c1, c2, k1, k2

TwoTasks == {t1, t2}
TwoCallers == {c1, c2}
OneKey == {k1}
\* for requests that overwrite each other, which takes MaxCalls = 4
TwoKeys == {k1, k2}
Sym == Permutations(TwoTasks) \cup Permutations(TwoCallers)
============================================================================
