------------------------ MODULE MCAccessProvisioning ------------------------
(* Small instances of AccessProvisioning. *)
EXTENDS AccessProvisioning, TLC

AccessSymmetry == Permutations(Credentials) \cup Permutations(Nodes)
=============================================================================
