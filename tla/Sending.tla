------------------------------- MODULE Sending -------------------------------
(***************************************************************************)
(* Sending, from the window to the history.  The window                    *)
(* (context/AppContext.tsx, helpers.ts) sends at once when it is idle and  *)
(* queues when it is busy; an effect takes the queue's entries one after   *)
(* another.  The backend (commands/send.rs) runs one send at a time,       *)
(* tries again once, and records the end in the history                    *)
(* (transfer_history.rs), which the window lists.                          *)
(*                                                                         *)
(* The window is one thread, but what it awaits ends in any order, and the *)
(* handlers and effects of React work on the values of the last render,    *)
(* not on the newest.  Each command runs on a thread of the backend.  What *)
(* happens on the wire is FileTransfer and Handshake.                      *)
(***************************************************************************)
EXTENDS Naturals, Sequences, FiniteSets, SequencesExt, FiniteSetsExt, Subsequences

CONSTANTS
    MAX_SEND_QUEUE,
    TRANSFER_HISTORY_LIMIT,
    SEND_AUTO_RETRY_LIMIT,
    None,      \* no send holds the slot; no list is awaited
    Budgets    \* bounds: one is chosen, how often the user and the world may do each thing

\* What the user and the world do, how many sends may break, and whether saves may fail.
Kinds == {"stored", "sends", "texts", "edits", "bridge", "resends", "receives", "polls", "cancels",
          "pauses", "deletes", "others", "restarts", "fails", "breaks"}

ASSUME BudgetsAssumption == Budgets \subseteq [Kinds -> Nat]
ASSUME NoneAssumption == None \notin Nat
ASSUME LimitsAssumption ==
    MAX_SEND_QUEUE \in Nat \ {0} /\ TRANSFER_HISTORY_LIMIT \in Nat \ {0} /\ SEND_AUTO_RETRY_LIMIT \in Nat
\* What is stored was stored by a window that kept to the limit.
ASSUME StoredAssumption == \A b \in Budgets : b["stored"] <= MAX_SEND_QUEUE

VARIABLES
    left,          \* what is left of the budget
    \* the window
    busy,          \* what it says it is doing: "none", or the last action that began
    queue,         \* sendQueue, with every update that was asked for
    rendered,      \* busy and queue in the last render: what handlers and effects see
    effect,        \* the effects of the last render are still to run
    flushing,      \* queueFlushInFlight
    active,        \* activeSendRef: the payload of the last send was set
    staged,        \* texts being staged: the entry, and the render its handler belongs to
    asked,         \* entries so far
    dropped,       \* entries the user took out, or is told are refused
    stored,        \* localStorage: the queue of the last effect
    cancelling,    \* cancelCurrentTransfer: where it is
    editing,       \* deleteTransfer or clearTransferHistory: where it is, and what it does
    other,         \* another action that says busy is under way
    \* lists of the history
    lists,         \* requests under way: who asked, the number, and the answer when it is there
    transfersRefreshSeq,
    shown,         \* the version of the history that the window shows
    \* the backend
    jobs,          \* the send commands so far
    slot,          \* active_send_cancel: the job whose flag is in it
    history, file, \* the records, newest first, and transfer_history.json
    version,       \* history variable: how often the records changed
    \* history variables about the window
    strays,        \* entries that the window loses or doubles without a word, see below
    reset          \* busy was cleared by somebody else while a queued send was in flight

queueVars  == <<queue, flushing, active, asked, dropped, strays>>
renderVars == <<rendered, effect, stored>>
callVars   == <<staged, cancelling, editing, other>>
listVars   == <<lists, transfersRefreshSeq, shown>>
sendVars   == <<jobs, slot>>
recordVars == <<history, file, version>>
vars == <<left, busy, reset, queueVars, renderVars, callVars, listVars, sendVars, recordVars>>

Idle == [at |-> "idle"]

\* loadSendQueue: what an earlier run of the application has stored.
loadSendQueue(n) == [i \in 1..n |-> [id |-> i, paused |-> FALSE]]

Init ==
    /\ left \in Budgets
    /\ asked = left["stored"]
    /\ stored = loadSendQueue(asked)
    /\ queue = stored /\ busy = "none"
    /\ rendered = [busy |-> busy, queue |-> queue] /\ effect = TRUE
    /\ flushing = FALSE /\ active = FALSE
    /\ staged = {} /\ dropped = {}
    /\ cancelling = "no" /\ editing = Idle /\ other = FALSE
    /\ lists = {} /\ transfersRefreshSeq = 0 /\ shown = 0
    /\ jobs = <<>> /\ slot = None
    /\ history = <<>> /\ file = <<>> /\ version = 0
    /\ strays = {} /\ reset = FALSE

\* The bound of one kind of event.
Spend(k) == left[k] > 0 /\ left' = [left EXCEPT ![k] = @ - 1]

-----------------------------------------------------------------------------
(* The queue.                                                               *)

enqueueSend(q, entry) == IF Len(q) >= MAX_SEND_QUEUE THEN q ELSE Append(q, entry)

\* Mutant: the entry stays in the queue.
dequeueSend_Keeps(q) ==
    LET open == {i \in DOMAIN q : ~q[i].paused}
    IN IF open = {} THEN [head |-> None, rest |-> q]
       ELSE LET i == CHOOSE i \in open : \A k \in open : i <= k
            IN [head |-> q[i].id, rest |-> q]

\* The first entry that is not paused, and the others in their order.
dequeueSend(q) ==
    LET open == {i \in DOMAIN q : ~q[i].paused}
    IN IF open = {} THEN [head |-> None, rest |-> q]
       ELSE LET i == CHOOSE i \in open : \A k \in open : i <= k
            IN [head |-> q[i].id, rest |-> Keep(q, DOMAIN q \ {i})]

resumeQueuedSend(q, id) ==
    [i \in DOMAIN q |-> IF q[i].id = id THEN [q[i] EXCEPT !.paused = FALSE] ELSE q[i]]

Ids(q) == {q[i].id : i \in DOMAIN q}

\* The entries that go astray when one queue takes the place of another: those that are in one
\* of the two only.
Astray(old, new) == (Ids(old) \ Ids(new)) \cup (Ids(new) \ Ids(old))

\* A send command: entry None is not the queue's.  Its record has an id of its own, unless it
\* sends a record again.
Job(entry, from, record) ==
    [entry |-> entry, from |-> from, record |-> record, at |-> "planning", tries |-> 0,
     raised |-> FALSE, updated |-> 0]

NewRecord == <<"send", Len(jobs) + 1>>

\* runSend, as far as the command
runSend(entry, from) ==
    /\ active' = TRUE
    /\ busy' = "send"
    /\ jobs' = Append(jobs, Job(entry, from, NewRecord))

\* dispatchSend: an idle window sends, a busy one queues; "idle" and the queue are those of the
\* render that the handler belongs to.
dispatchSend(id, render) ==
    IF render.busy = "none"
    THEN /\ runSend(id, "direct")
         /\ UNCHANGED <<queue, dropped, strays>>
    ELSE /\ IF Len(render.queue) >= MAX_SEND_QUEUE
            THEN dropped' = dropped \cup {id} /\ UNCHANGED <<queue, strays>>
            ELSE /\ queue' = enqueueSend(render.queue, [id |-> id, paused |-> FALSE])
                 /\ strays' = strays \cup Astray(queue, render.queue)
                 /\ UNCHANGED dropped
         /\ UNCHANGED <<busy, active, jobs>>

\* Files are dropped on a device: the handler was registered once, by the effect of the first
\* render, so it never sees a busy window and never queues.  The button of a device in the list
\* (sendFilesToDevice) does not look either.  While another send runs, Claim refuses it.
Drop ==
    /\ Spend("sends")
    /\ asked' = asked + 1
    /\ runSend(asked + 1, "direct")
    /\ UNCHANGED <<queue, flushing, dropped, strays, reset, renderVars, callVars, listVars, slot,
                   recordVars>>

\* sendCurrentTransfer with files: the composer sends, or queues.
Send ==
    /\ Spend("sends")
    /\ asked' = asked + 1
    /\ dispatchSend(asked + 1, rendered)
    /\ UNCHANGED <<flushing, reset, renderVars, callVars, listVars, slot, recordVars>>

\* sendCurrentTransfer with a text: the text is staged first, and the handler goes on with the
\* values it began with.
SendText ==
    /\ Spend("texts")
    /\ asked' = asked + 1
    /\ staged' = staged \cup {[id |-> asked + 1, render |-> rendered]}
    /\ UNCHANGED <<busy, queue, flushing, active, dropped, strays, reset, renderVars, cancelling,
                   editing, other, listVars, sendVars, recordVars>>

TextStaged ==
    /\ \E t \in staged :
           /\ staged' = staged \ {t}
           /\ dispatchSend(t.id, t.render)
    /\ UNCHANGED <<left, flushing, asked, reset, renderVars, cancelling, editing, other, listVars,
                   slot, recordVars>>

\* The text is too long, or cannot be written: the user is told.
TextFails ==
    /\ \E t \in staged :
           /\ staged' = staged \ {t}
           /\ dropped' = dropped \cup {t.id}
    /\ UNCHANGED <<left, busy, queue, flushing, active, asked, strays, reset, renderVars, cancelling,
                   editing, other, listVars, sendVars, recordVars>>

\* resumeQueuedSendById, cancelQueuedSend, clearSendQueue: these work on the newest queue.
resumeQueuedSendById ==
    /\ Spend("edits")
    /\ \E i \in DOMAIN rendered.queue :
           /\ rendered.queue[i].paused
           /\ queue' = resumeQueuedSend(queue, rendered.queue[i].id)
    /\ UNCHANGED <<busy, flushing, active, asked, dropped, strays, reset, renderVars, callVars,
                   listVars, sendVars, recordVars>>

cancelQueuedSend ==
    /\ Spend("edits")
    /\ \E i \in DOMAIN rendered.queue :
           /\ ~rendered.queue[i].paused
           /\ queue' = Keep(queue, {k \in DOMAIN queue : queue[k].id # rendered.queue[i].id})
    /\ dropped' = dropped \cup ({e.id : e \in ToSet(queue)} \ {e.id : e \in ToSet(queue')})
    /\ UNCHANGED <<busy, flushing, active, asked, strays, reset, renderVars, callVars, listVars,
                   sendVars, recordVars>>

clearSendQueue ==
    /\ Spend("edits")
    /\ queue' = <<>>
    /\ dropped' = dropped \cup {e.id : e \in ToSet(queue)}
    /\ UNCHANGED <<busy, flushing, active, asked, strays, reset, renderVars, callVars, listVars,
                   sendVars, recordVars>>

-----------------------------------------------------------------------------
(* Rendering.                                                               *)

\* React renders what has changed; the effects of a render run before the next one.
Render ==
    /\ ~effect
    /\ rendered # [busy |-> busy, queue |-> queue]
    /\ rendered' = [busy |-> busy, queue |-> queue]
    /\ effect' = TRUE
    /\ UNCHANGED <<left, busy, reset, queueVars, stored, callVars, listVars, sendVars, recordVars>>

\* The queue is stored; when the window is idle and no queued send is in flight, the first entry
\* that is not paused is sent, and the queue becomes the rest of the rendered one.
Effect ==
    /\ effect
    /\ effect' = FALSE
    /\ stored' = rendered.queue
    /\ LET next == dequeueSend(rendered.queue)
       IN IF rendered.busy # "none" \/ flushing \/ next.head = None
          THEN UNCHANGED <<busy, queue, flushing, active, strays, jobs>>
          ELSE /\ flushing' = TRUE
               /\ queue' = next.rest
               /\ strays' = strays \cup Astray(queue, rendered.queue)
               /\ runSend(next.head, "queue")
    /\ UNCHANGED <<left, asked, dropped, reset, rendered, callVars, listVars, slot, recordVars>>

-----------------------------------------------------------------------------
(* The send command.                                                        *)

Stamps == {history[i].updated : i \in DOMAIN history} \cup {jobs[j].updated : j \in DOMAIN jobs}
now_ms == Max(Stamps \cup {0}) + 1

SetJob(j, rec) == jobs' = [jobs EXCEPT ![j] = rec]

\* The paths are gone, the device is not known, the record is not there any more.
PlanFails(j) ==
    /\ jobs[j].at = "planning"
    /\ SetJob(j, [jobs[j] EXCEPT !.at = "answered"])
    /\ UNCHANGED <<left, busy, reset, queueVars, renderVars, callVars, listVars, slot, recordVars>>

\* Mutant: the slot is taken whoever is in it.
Claim_Takes(j) ==
    /\ jobs[j].at = "planning"
    /\ slot' = j
    /\ SetJob(j, [jobs[j] EXCEPT !.at = "sending"])
    /\ UNCHANGED <<left, busy, reset, queueVars, renderVars, callVars, listVars, recordVars>>

\* One send at a time: whoever comes second is refused.
Claim(j) ==
    /\ jobs[j].at = "planning"
    /\ IF slot = None
       THEN slot' = j /\ SetJob(j, [jobs[j] EXCEPT !.at = "sending"])
       ELSE UNCHANGED slot /\ SetJob(j, [jobs[j] EXCEPT !.at = "answered"])
    /\ UNCHANGED <<left, busy, reset, queueVars, renderVars, callVars, listVars, recordVars>>

\* An attempt that broke in the network is repeated.
Retry(j) ==
    /\ Spend("breaks")
    /\ jobs[j].at = "sending"
    /\ jobs[j].tries < SEND_AUTO_RETRY_LIMIT
    /\ SetJob(j, [jobs[j] EXCEPT !.tries = @ + 1])
    /\ UNCHANGED <<busy, reset, queueVars, renderVars, callVars, listVars, slot, recordVars>>

\* The last attempt is over, well or not, and clear_active_send_cancel takes the flag out of the
\* slot before anything is recorded.  A flag that was raised may come too late.
SendEnds(j) ==
    /\ jobs[j].at = "sending"
    /\ slot' = IF slot = j THEN None ELSE slot
    /\ SetJob(j, [jobs[j] EXCEPT !.at = "recording", !.raised = FALSE, !.tries = 0, !.updated = now_ms])
    /\ UNCHANGED <<left, busy, reset, queueVars, renderVars, callVars, listVars, recordVars>>

\* The records of other transfers.
Others(id) == Keep(history, {i \in DOMAIN history : history[i].id # id})

\* push_transfer_history_record: newest first, one record of an id, at most the limit.
Pushed(record) ==
    LET others == Others(record.id)
        newer == {i \in DOMAIN others : others[i].updated > record.updated}
        sorted == Keep(others, newer) \o <<record>> \o Keep(others, DOMAIN others \ newer)
    IN SubSeq(sorted, 1, IF Len(sorted) > TRANSFER_HISTORY_LIMIT THEN TRANSFER_HISTORY_LIMIT
                         ELSE Len(sorted))

\* The records change under their lock, and are saved under it; a save that fails (bound) is not
\* undone.
SetHistory(records) ==
    /\ history' = records
    /\ version' = version + 1
    /\ \/ file' = records
       \/ left["fails"] > 0 /\ UNCHANGED file

Record(j) ==
    /\ jobs[j].at = "recording"
    /\ SetHistory(Pushed([id |-> jobs[j].record, updated |-> jobs[j].updated]))
    /\ SetJob(j, [jobs[j] EXCEPT !.at = "answered", !.updated = 0])
    /\ UNCHANGED <<left, busy, reset, queueVars, renderVars, callVars, listVars, slot>>

\* A receive is recorded too (ReceiveService).
ReceiveRecorded ==
    /\ Spend("receives")
    /\ SetHistory(Pushed([id |-> <<"receive", version>>, updated |-> now_ms]))
    /\ UNCHANGED <<busy, reset, queueVars, renderVars, callVars, listVars, sendVars>>

\* The worker of the local bridge sends a bundle; the window knows nothing of it.
BridgeSend ==
    /\ Spend("bridge")
    /\ jobs' = Append(jobs, Job(None, "bridge", NewRecord))
    /\ UNCHANGED <<busy, reset, queueVars, renderVars, callVars, listVars, slot, recordVars>>

\* resend_transfer: the sources of a record are sent again, under its id.
resendTransfer ==
    /\ Spend("resends")
    /\ busy' = "resend"
    /\ \E i \in DOMAIN history :
           /\ history[i].id[1] = "send"
           /\ jobs' = Append(jobs, Job(None, "resend", history[i].id))
    /\ UNCHANGED <<reset, queueVars, renderVars, callVars, listVars, slot, recordVars>>

-----------------------------------------------------------------------------
(* Lists of the history.                                                    *)

\* refreshTransfers, and the list in refreshDirectoryState: a request has a number.
Ask(who) ==
    /\ transfersRefreshSeq' = transfersRefreshSeq + 1
    /\ lists' = lists \cup {[who |-> who, seq |-> transfersRefreshSeq + 1, answer |-> None]}
    /\ UNCHANGED shown

\* Mutant: whatever comes is shown.
Show_Any(l) ==
    /\ lists' = lists \ {l}
    /\ shown' = l.answer
    /\ UNCHANGED transfersRefreshSeq

\* An answer is shown when no newer request was made.
Show(l) ==
    /\ lists' = lists \ {l}
    /\ shown' = IF l.seq = transfersRefreshSeq THEN l.answer ELSE shown
    /\ UNCHANGED transfersRefreshSeq

\* list_transfers
ListRuns ==
    /\ \E l \in lists :
           /\ l.answer = None
           /\ lists' = (lists \ {l}) \cup {[l EXCEPT !.answer = version]}
    /\ UNCHANGED <<left, busy, reset, queueVars, renderVars, callVars, transfersRefreshSeq, shown,
                   sendVars, recordVars>>

Directory == {<<"poll", 0>>, <<"cancel", 0>>}
DirectoryFree == \A l \in lists : l.who \notin Directory

\* The timer refreshes the directory, unless that is under way.
Poll ==
    /\ Spend("polls")
    /\ DirectoryFree
    /\ Ask(<<"poll", 0>>)
    /\ UNCHANGED <<busy, reset, queueVars, renderVars, callVars, sendVars, recordVars>>

PollEnds ==
    /\ \E l \in lists :
           /\ l.who = <<"poll", 0>> /\ l.answer # None
           /\ Show(l)
    /\ UNCHANGED <<left, busy, reset, queueVars, renderVars, callVars, sendVars, recordVars>>

\* One of its commands fails: nothing is shown, and the next timer tries again.
PollFails ==
    /\ \E l \in lists :
           /\ l.who = <<"poll", 0>>
           /\ lists' = lists \ {l}
    /\ UNCHANGED <<left, busy, reset, queueVars, renderVars, callVars, transfersRefreshSeq, shown,
                   sendVars, recordVars>>

-----------------------------------------------------------------------------
(* What the window awaits.                                                  *)

\* Every action's "finally": the window is idle, whatever else it is doing.
Finally(own) ==
    /\ busy' = "none"
    /\ reset' = (reset \/ (flushing /\ ~own))

\* The command has answered: the history is listed, after a failure too.
JobAnswered(j) ==
    /\ jobs[j].at = "answered"
    /\ IF jobs[j].from = "bridge"
       THEN SetJob(j, [jobs[j] EXCEPT !.at = "over"]) /\ UNCHANGED listVars
       ELSE SetJob(j, [jobs[j] EXCEPT !.at = "listing"]) /\ Ask(<<"job", j>>)
    /\ UNCHANGED <<left, busy, reset, queueVars, renderVars, callVars, slot, recordVars>>

\* Mutant: the flag stays.
JobEnds_KeepsFlag(j) ==
    /\ jobs[j].at = "listing"
    /\ \E l \in lists : l.who = <<"job", j>> /\ l.answer # None /\ Show(l)
    /\ SetJob(j, [jobs[j] EXCEPT !.at = "over"])
    /\ Finally(jobs[j].from = "queue")
    /\ UNCHANGED <<left, flushing, queue, active, asked, dropped, strays, renderVars, callVars, slot,
                   recordVars>>

\* The list is there: the window is idle, and the next queued send may go.
JobEnds(j) ==
    /\ jobs[j].at = "listing"
    /\ \E l \in lists : l.who = <<"job", j>> /\ l.answer # None /\ Show(l)
    /\ SetJob(j, [jobs[j] EXCEPT !.at = "over"])
    /\ Finally(jobs[j].from = "queue")
    /\ flushing' = (flushing /\ jobs[j].from # "queue")
    /\ UNCHANGED <<left, queue, active, asked, dropped, strays, renderVars, callVars, slot, recordVars>>

\* cancelCurrentTransfer cancels what the status of the last poll says, a send or a receive.
Cancel ==
    /\ Spend("cancels")
    /\ cancelling = "no"
    /\ cancelling' \in {"send", "receive"}
    /\ busy' = "cancel"
    /\ UNCHANGED <<reset, queueVars, renderVars, staged, editing, other, listVars, sendVars, recordVars>>

\* pauseCurrentTransfer: a paused copy of the payload of the last send is queued, and what is
\* being sent is cancelled.  The user is told that it is paused, also when the queue is full and
\* the copy is nowhere.
Pause ==
    /\ Spend("pauses")
    /\ cancelling = "no" /\ active /\ rendered.busy # "cancel"
    /\ asked' = asked + 1
    /\ queue' = enqueueSend(queue, [id |-> asked + 1, paused |-> TRUE])
    /\ strays' = strays \cup (IF queue' = queue THEN {asked + 1} ELSE {})
    /\ cancelling' = "send"
    /\ busy' = "cancel"
    /\ UNCHANGED <<reset, flushing, active, dropped, renderVars, staged, editing, other, listVars, sendVars,
                   recordVars>>

\* cancel_current_transfer raises the flag in the slot, whoever's it is by now; without one it
\* fails.  stop_receive_once is ReceiveService's.
CancelRuns ==
    /\ \/ /\ cancelling = "send" /\ slot # None
          /\ SetJob(slot, [jobs[slot] EXCEPT !.raised = TRUE])
       \/ cancelling = "receive" /\ UNCHANGED jobs
    /\ cancelling' = "refreshing"
    /\ IF DirectoryFree THEN Ask(<<"cancel", 0>>) ELSE UNCHANGED listVars
    /\ UNCHANGED <<left, busy, reset, queueVars, renderVars, staged, editing, other, slot, recordVars>>

CancelFails ==
    /\ cancelling = "send" /\ slot = None
    /\ cancelling' = "no"
    /\ Finally(FALSE)
    /\ UNCHANGED <<left, queueVars, renderVars, staged, editing, other, listVars, sendVars, recordVars>>

\* The directory is there, or somebody else is refreshing it.
CancelEnds ==
    /\ cancelling = "refreshing"
    /\ IF \E l \in lists : l.who = <<"cancel", 0>>
       THEN \E l \in lists : l.who = <<"cancel", 0>> /\ l.answer # None /\ Show(l)
       ELSE UNCHANGED listVars
    /\ cancelling' = "no"
    /\ Finally(FALSE)
    /\ UNCHANGED <<left, queueVars, renderVars, staged, editing, other, sendVars, recordVars>>

\* deleteTransfer, clearTransferHistory
Edit ==
    /\ Spend("deletes")
    /\ editing = Idle
    /\ busy' = "history"
    /\ \/ editing' = [at |-> "clear"]
       \/ \E i \in DOMAIN history : editing' = [at |-> "delete", id |-> history[i].id]
    /\ UNCHANGED <<reset, queueVars, renderVars, staged, cancelling, other, listVars, sendVars, recordVars>>

EditRuns ==
    /\ \/ editing.at = "clear" /\ SetHistory(<<>>)
       \/ /\ editing.at = "delete"
          /\ \E i \in DOMAIN history : history[i].id = editing.id
          /\ SetHistory(Others(editing.id))
    /\ editing' = [at |-> IF file' = history' THEN "done" ELSE "failed"]
    /\ UNCHANGED <<left, busy, reset, queueVars, renderVars, staged, cancelling, other, listVars, sendVars>>

\* The record is gone already, or the list could not be saved: nothing is listed.
EditFails ==
    /\ \/ editing.at = "failed"
       \/ editing.at = "delete" /\ \A i \in DOMAIN history : history[i].id # editing.id
    /\ editing' = Idle
    /\ Finally(FALSE)
    /\ UNCHANGED <<left, queueVars, renderVars, staged, cancelling, other, listVars, sendVars, recordVars>>

EditLists ==
    /\ editing.at = "done"
    /\ editing' = [at |-> "listing"]
    /\ Ask(<<"edit", 0>>)
    /\ UNCHANGED <<left, busy, reset, queueVars, renderVars, staged, cancelling, other, sendVars, recordVars>>

EditEnds ==
    /\ editing.at = "listing"
    /\ \E l \in lists : l.who = <<"edit", 0>> /\ l.answer # None /\ Show(l)
    /\ editing' = Idle
    /\ Finally(FALSE)
    /\ UNCHANGED <<left, queueVars, renderVars, staged, cancelling, other, sendVars, recordVars>>

\* Pairing, forgetting, an alias, an answer to an offer, a setting, ...: all say busy, and say
\* idle in the end.
OtherBegins ==
    /\ Spend("others")
    /\ ~other
    /\ other' = TRUE
    /\ busy' = "other"
    /\ UNCHANGED <<reset, queueVars, renderVars, staged, cancelling, editing, listVars, sendVars, recordVars>>

OtherEnds ==
    /\ other
    /\ other' = FALSE
    /\ Finally(FALSE)
    /\ UNCHANGED <<left, queueVars, renderVars, staged, cancelling, editing, listVars, sendVars, recordVars>>

-----------------------------------------------------------------------------

\* The application is closed or dies, and starts with the stored queue and the saved history;
\* what was in hand is gone.
Restart ==
    /\ Spend("restarts")
    /\ strays' = strays \cup Astray(queue, stored) \cup {t.id : t \in staged}
    /\ queue' = stored /\ busy' = "none"
    /\ rendered' = [busy |-> "none", queue |-> stored] /\ effect' = TRUE
    /\ flushing' = FALSE /\ active' = FALSE
    /\ staged' = {}
    /\ cancelling' = "no" /\ editing' = Idle /\ other' = FALSE
    /\ lists' = {} /\ transfersRefreshSeq' = 0 /\ shown' = 0
    /\ jobs' = [j \in DOMAIN jobs |-> [Job(jobs[j].entry, jobs[j].from, jobs[j].record) EXCEPT !.at = "over"]]
    /\ slot' = None
    /\ history' = file
    /\ UNCHANGED <<asked, dropped, stored, file, version, reset>>

JobStep(j) ==
    \/ PlanFails(j) \/ Claim(j) \/ Retry(j) \/ SendEnds(j) \/ Record(j)
    \/ JobAnswered(j) \/ JobEnds(j)

\* What goes on by itself.
Progress ==
    \/ \E j \in DOMAIN jobs : JobStep(j)
    \/ Render \/ Effect
    \/ TextStaged \/ TextFails
    \/ ListRuns \/ PollEnds \/ PollFails
    \/ CancelRuns \/ CancelFails \/ CancelEnds
    \/ EditRuns \/ EditFails \/ EditLists \/ EditEnds
    \/ OtherEnds

\* What the user and the world begin.
Begin ==
    \/ Drop \/ Send \/ SendText \/ resumeQueuedSendById \/ cancelQueuedSend \/ clearSendQueue
    \/ BridgeSend \/ ReceiveRecorded \/ resendTransfer
    \/ Poll \/ Cancel \/ Pause \/ Edit \/ OtherBegins

Next == Progress \/ Begin \/ Restart

Spec == Init /\ [][Next]_vars

\* Every command runs on a thread and ends (the waits on the wire have timeouts), every promise
\* is settled, React renders; and what was begun is bounded, so together they come to an end.
FairSpec == Spec /\ WF_vars(Progress)

-----------------------------------------------------------------------------
(* Properties.                                                              *)

Entries(n) == [id : 1..n, paused : BOOLEAN]
Queues(n) == {q \in Seq(Entries(n)) : Len(q) <= MAX_SEND_QUEUE}
Doings == {"none", "send", "resend", "cancel", "history", "other"}
Renders(n) == [busy : Doings, queue : Queues(n)]
RecordIds == {"send", "receive"} \X Nat
Records == [id : RecordIds, updated : Nat]
Histories == {h \in Seq(Records) : Len(h) <= TRANSFER_HISTORY_LIMIT}
Jobs(n) == [entry : 1..n \cup {None}, from : {"direct", "queue", "bridge", "resend"},
            record : {"send"} \X Nat,
            at : {"planning", "sending", "recording", "answered", "listing", "over"},
            tries : 0..SEND_AUTO_RETRY_LIMIT, raised : BOOLEAN, updated : Nat]

Requests == [who : {"poll", "cancel", "job", "edit"} \X Nat, seq : 1..transfersRefreshSeq,
             answer : 0..version \cup {None}]

\* The window's queue keeps to its limit (enqueueSend).
WindowTypeOK ==
    /\ asked \in Nat
    /\ queue \in Queues(asked) /\ stored \in Queues(asked) /\ rendered \in Renders(asked)
    /\ staged \subseteq [id : 1..asked, render : Renders(asked)]
    /\ dropped \subseteq 1..asked /\ strays \subseteq 1..asked
    /\ busy \in Doings /\ cancelling \in {"no", "send", "receive", "refreshing"}
    /\ {effect, flushing, active, other, reset} \subseteq BOOLEAN

CommandsTypeOK == jobs \in Seq(Jobs(asked)) /\ slot \in DOMAIN jobs \cup {None}

\* The history keeps to its limit (push_transfer_history_record).
HistoryTypeOK ==
    /\ history \in Histories /\ file \in Histories /\ version \in Nat
    /\ shown \in 0..version /\ transfersRefreshSeq \in Nat /\ lists \subseteq Requests
    /\ editing \in [at : {"idle", "clear", "done", "failed", "listing"}]
                    \cup [at : {"delete"}, id : RecordIds]

\* The types of the variables.
TypeOK ==
    /\ left \in [Kinds -> Nat]
    /\ WindowTypeOK /\ CommandsTypeOK /\ HistoryTypeOK

\* One send at a time, and the flag in the slot is that of the send: whoever comes while another
\* sends is refused (send_paths_to_endpoint_with_history_id), and cancel_current_transfer reaches
\* the send that runs.
SlotIsTheSenders ==
    \A j \in DOMAIN jobs : jobs[j].at = "sending" <=> slot = j

\* Where an entry is: waiting, being staged, handed to the backend, or out.
Places(e) ==
    Cardinality({i \in DOMAIN queue : queue[i].id = e})
    + Cardinality({t \in staged : t.id = e})
    + Cardinality({j \in DOMAIN jobs : jobs[j].entry = e})
    + Cardinality({e} \cap dropped)

\* Every send that was asked for is in one place: it is neither lost nor handed to the backend
\* twice.  The code does lose or double some, which are those in strays: an entry in which the
\* queue that a handler made from an older render (dispatchSend, the effect), or the stored one at
\* a restart, differs from the newest; the copy of a pause when the queue is full; a text that is
\* staged when the application ends.  All others keep their place, also beside these.
EntriesAccounted == \A e \in (1..asked) \ strays : Places(e) = 1

\* The history that is shown never goes back ("a slow stale response must never overwrite the
\* result of a newer request"), whoever asked and however the answers overtake each other.
HistoryNeverGoesBack == [][shown' >= shown \/ left'["restarts"] # left["restarts"]]_vars

\* What waits in the queue, and is not paused, is sent: again and again nothing waits.  Unless
\* another action said idle while a queued send was in flight.
QueueDrains == []<>(reset \/ \A i \in DOMAIN queue : queue[i].paused)
=============================================================================
