-------------------------- MODULE MCApprovalEngine --------------------------
(* Small instances of ApprovalEngine for TLC. *)
EXTENDS ApprovalEngine, TLC

(* Requests are interchangeable, and so are instances. *)
Symmetry == Permutations(Deciders) \cup Permutations(Instances)
=============================================================================
