------------------------- MODULE MCPersonnelActions -------------------------
(* Small instances of PersonnelActions for TLC. *)
EXTENDS PersonnelActions, TLC

(* Records, clerks, instances and deciders are interchangeable. *)
Symmetry == Permutations(Records) \cup Permutations(Clerks)
              \cup Permutations(Instances) \cup Permutations(Deciders)
=============================================================================
