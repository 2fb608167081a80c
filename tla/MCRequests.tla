----------------------------- MODULE MCRequests -----------------------------
(* Small instances of Requests: which kinds meet, one by one or at once.    *)
EXTENDS RequestsInvariant, TLC

RequestSymmetry == Permutations(Requests)
=============================================================================
