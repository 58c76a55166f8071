---------------------------- MODULE MCBundleStore -----------------------------
(***************************************************************************)
(* An instance of BundleStore: two versions of a bundle, the second with   *)
(* one file of the first's two.                                            *)
(***************************************************************************)
EXTENDS BundleStore, TLC

CONSTANTS v1, v2, f1, f2

MCPaths == v1 :> {f1, f2} @@ v2 :> {f2}

\* Threads are interchangeable; every property is a safety property.
ThreadSymmetry == Permutations(Threads)
=============================================================================
