--------------------------- MODULE MCMemberships ---------------------------
(* Small instances of Memberships for TLC. Requests and invitations are    *)
(* told apart by nothing, and every property is a safety property.         *)
EXTENDS Memberships, TLC

Interchangeable == Permutations(Invitations) \cup Permutations(Requests)
=============================================================================
