------------------------------ MODULE MCMemmux ------------------------------
(* Memmux and its history on a small instance; see README.md, "Runs". *)
EXTENDS MemmuxHistory, TLC
SameWords == Permutations(WordsB)
=============================================================================
