--------------------------- MODULE MCRunExecution ---------------------------
(* Small instances of RunExecution for TLC.                                  *)
EXTENDS RunExecution, TLC

CONSTANTS s1, k1

OneSession == [r \in Runs |-> s1]

NoKeys == [r \in Runs |-> NoKey]

Symmetry == Permutations(Workers)
=============================================================================
