----------------------------- MODULE MCDiscovery -----------------------------
(***************************************************************************)
(* Instances of Discovery.                                                 *)
(***************************************************************************)
EXTENDS Discovery

Info(n, d, h) == [name |-> n, id |-> d, host |-> h]

\* A device that renames itself and moves to the address of another one.
MCInfos == {Info("n1", "d1", "h1"), Info("n2", "d1", "h2"), Info("n3", "d2", "h2")}
=============================================================================
