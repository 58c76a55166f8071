------------------------------ MODULE MCSending ------------------------------
(* A queue of two entries and a history of two records.  Each budget makes   *)
(* one group of events meet: a text that is staged while a stored queue is   *)
(* sent; another action and a send beside the queue; pauses until the queue  *)
(* is full; a pause and a resumed entry; a send of the bridge; everyone who  *)
(* changes or lists the history; the same record sent again; a restart.      *)
EXTENDS Sending

Nothing == [k \in Kinds |-> 0]

MCBudgets ==
    {[Nothing EXCEPT !["stored"] = 2, !["texts"] = 1, !["edits"] = 1],
     [Nothing EXCEPT !["stored"] = 2, !["sends"] = 1, !["others"] = 1],
     [Nothing EXCEPT !["stored"] = 2, !["pauses"] = 2],
     [Nothing EXCEPT !["stored"] = 2, !["pauses"] = 1, !["edits"] = 1],
     [Nothing EXCEPT !["stored"] = 1, !["bridge"] = 1, !["cancels"] = 1, !["breaks"] = 1],
     [Nothing EXCEPT !["sends"] = 1, !["receives"] = 1, !["polls"] = 1, !["deletes"] = 1, !["fails"] = 1],
     [Nothing EXCEPT !["sends"] = 1, !["resends"] = 1, !["deletes"] = 1],
     [Nothing EXCEPT !["stored"] = 1, !["sends"] = 1, !["edits"] = 1, !["restarts"] = 1, !["breaks"] = 1]}
=============================================================================
