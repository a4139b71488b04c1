----------------------------- MODULE MCAvsTasks -----------------------------
(* Instances of AvsTasks for TLC. *)
EXTENDS AvsTasks, TLC

Symmetry == Permutations(AVSs) \cup Permutations(Operators) \cup Permutations(Keys)
            \cup Permutations(Spellings)
=============================================================================
