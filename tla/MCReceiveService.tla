-------------------------- MODULE MCReceiveService ---------------------------
(***************************************************************************)
(* Instances of ReceiveService.                                            *)
(***************************************************************************)
EXTENDS ReceiveService, TLC

CONSTANTS s1, s2, t1, t2, i1

\* Which session a loop belongs to.
MCSession  == t1 :> s1 @@ i1 :> s1 @@ t2 :> s2
MCTcpOnly  == t1 :> s1 @@ t2 :> s2

\* Two sessions without iroh, or one session with it.
MCTcpLoops  == {{t1, t2}}
MCInstances == {{t1, t2}, {t1, i1}}
=============================================================================
