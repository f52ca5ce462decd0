---------------------------- MODULE MCThreadPool ----------------------------
(* TLC instance of ThreadPool: worker identities and items are interchangeable. *)
EXTENDS ThreadPool, TLC

Symmetry == Permutations(Workers) \cup Permutations(Items)
=============================================================================
