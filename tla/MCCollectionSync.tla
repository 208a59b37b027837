-------------------------- MODULE MCCollectionSync --------------------------
(* Initial states that keep the model small: two workers are given two      *)
(* items and two runs, one worker three items and one run.                  *)
EXTENDS CollectionSync, TLC

WorkerSymmetry == Permutations(Workers)

SmallInit ==
    /\ Init
    /\ Cardinality(pool) > 1 => upstream \cup docs \subseteq 1..2
    /\ Cardinality(pool) = 1 => runs = MaxRuns - 1

MCSpec == SmallInit /\ [][Next]_vars
=============================================================================
