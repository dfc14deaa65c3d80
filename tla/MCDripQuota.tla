----------------------------- MODULE MCDripQuota -----------------------------
(* Replicas are interchangeable. *)
EXTENDS DripQuota, TLC

CONSTANTS w1, w2

ReplicaSymmetry == Permutations(Workers)
=============================================================================
