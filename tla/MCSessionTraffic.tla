-------------------------- MODULE MCSessionTraffic ---------------------------
(***************************************************************************)
(* SessionTraffic with eight counters and a window of three: frames fall   *)
(* out of the window, and the counters run out.                            *)
(***************************************************************************)
EXTENDS SessionTraffic
=============================================================================
