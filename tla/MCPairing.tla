------------------------------ MODULE MCPairing ------------------------------
(***************************************************************************)
(* One peer that sends both requests.                                      *)
(***************************************************************************)
EXTENDS Pairing, TLC

CONSTANTS p1, c1, c2

MCFrom == c1 :> p1 @@ c2 :> p1
=============================================================================
