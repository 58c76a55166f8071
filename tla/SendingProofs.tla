---------------------------- MODULE SendingProofs ----------------------------
(***************************************************************************)
(* Proofs about sending, for any commands, entries, cancels, failures and  *)
(* restarts: the types; one send at a time, whose flag is in the slot      *)
(* (SlotInv); every entry in one place (QueuesApart, EntriesApart); and a  *)
(* history that is never shown older than it was (ListsInv).               *)
(***************************************************************************)
EXTENDS Sending, SequenceTheorems, SubsequencesProofs, TLAPS

\* The send commands so far are a sequence of jobs, and the slot has one of them or none.
JobsOK ==
  /\ \E S : jobs \in Seq(S)
  /\ \A j \in DOMAIN jobs : "at" \in DOMAIN jobs[j]
  /\ slot \in DOMAIN jobs \cup {None}

SlotInv == JobsOK /\ SlotIsTheSenders

\* The numbers of the requests are different and at most the last one; what is answered is at
\* most the newest version, and what is shown is not newer than the answer to the last request.
ListsInv ==
  /\ left \in [Kinds -> Nat]
  /\ version \in Nat /\ shown \in 0..version /\ transfersRefreshSeq \in Nat
  /\ \A l \in lists :
        /\ "answer" \in DOMAIN l
        /\ l.seq \in 1..transfersRefreshSeq
        /\ l.answer # None =>
              /\ l.answer \in 0..version
              /\ l.seq = transfersRefreshSeq => shown <= l.answer
  /\ \A l, m \in lists : l.seq = m.seq => l = m

\* No entry is in a queue twice.
Distinct(q) == \A i, k \in DOMAIN q : q[i].id = q[k].id => i = k

\* The queue, and the older ones that may take its place.
Known == {queue, rendered.queue, stored} \cup {t.render.queue : t \in staged}

\* In every one of them an entry is once, and a text that is being staged is in none.
QueuesApart ==
  /\ \A q \in Known : Distinct(q) /\ \A t \in staged : t.id \notin Ids(q)
  /\ \A t, u \in staged : t.id = u.id => t = u

\* Where an entry may be.
Waits(e) == e \in Ids(queue)
IsText(e) == \E t \in staged : t.id = e
IsSent(e) == \E j \in DOMAIN jobs : jobs[j].entry = e

\* It is handed to the backend at most once.
Once(e) == \A i, k \in DOMAIN jobs : jobs[i].entry = e /\ jobs[k].entry = e => i = k

\* It has a place, and only one.
Settled(e) ==
  /\ Once(e)
  /\ Waits(e) \/ IsText(e) \/ IsSent(e) \/ e \in dropped
  /\ Waits(e) => ~IsText(e) /\ ~IsSent(e) /\ e \notin dropped
  /\ IsText(e) => ~IsSent(e) /\ e \notin dropped
  /\ IsSent(e) => e \notin dropped

EntriesApart == \A e \in (1..asked) \ strays : Settled(e)

-----------------------------------------------------------------------------
(* The slot.                                                                *)

LEMMA JobsAreNumbered ==
  ASSUME JobsOK
  PROVE  /\ Len(jobs) \in Nat /\ DOMAIN jobs = 1..Len(jobs)
         /\ None \notin DOMAIN jobs
  BY NoneAssumption DEF JobsOK

\* A new command is planning, and nobody's.
LEMMA JobAdded ==
  ASSUME SlotInv, NEW rec, "at" \in DOMAIN rec, rec.at = "planning",
         jobs' = Append(jobs, rec), slot' = slot
  PROVE  SlotInv'
  <1>1. PICK S : jobs \in Seq(S)
    BY DEF SlotInv, JobsOK
  <1>2. jobs \in Seq(S \cup {rec}) /\ rec \in S \cup {rec}
    BY <1>1
  <1>3. /\ jobs' \in Seq(S \cup {rec})
        /\ DOMAIN jobs' = DOMAIN jobs \cup {Len(jobs) + 1}
        /\ Len(jobs) + 1 \notin DOMAIN jobs
        /\ jobs'[Len(jobs) + 1] = rec
        /\ \A j \in DOMAIN jobs : jobs'[j] = jobs[j]
    BY <1>2
  <1>4. JobsOK'
    BY <1>3 DEF SlotInv, JobsOK
  <1>5. slot # Len(jobs) + 1
    BY <1>1, <1>3, NoneAssumption DEF SlotInv, JobsOK
  <1> QED BY <1>3, <1>4, <1>5 DEF SlotInv, SlotIsTheSenders

\* A command that goes on takes the slot when it begins to send and leaves it when it ends.
LEMMA JobMoved ==
  ASSUME SlotInv, NEW j \in DOMAIN jobs, NEW rec, "at" \in DOMAIN rec, SetJob(j, rec),
         slot' \in DOMAIN jobs \cup {None},
         rec.at = "sending" <=> slot' = j,
         \A k \in DOMAIN jobs \ {j} : slot' = k <=> slot = k
  PROVE  SlotInv'
  <1>1. PICK S : jobs \in Seq(S)
    BY DEF SlotInv, JobsOK
  <1>2. jobs' \in Seq(S \cup {rec})
    BY <1>1 DEF SetJob
  <1>3. /\ DOMAIN jobs' = DOMAIN jobs
        /\ jobs'[j] = rec
        /\ \A k \in DOMAIN jobs \ {j} : jobs'[k] = jobs[k]
    BY DEF SetJob
  <1> QED BY <1>2, <1>3 DEF SlotInv, JobsOK, SlotIsTheSenders

LEMMA SlotInit == Init => SlotInv
  <1> SUFFICES ASSUME Init PROVE SlotInv
    OBVIOUS
  <1>1. jobs \in Seq({})
    BY DEF Init
  <1> QED BY <1>1 DEF Init, SlotInv, JobsOK, SlotIsTheSenders

LEMMA SameSlot == SlotInv /\ UNCHANGED sendVars => SlotInv'
  BY DEF SlotInv, JobsOK, SlotIsTheSenders, sendVars

\* A send of the window begins a job, or jobs and slot stay.
LEMMA DispatchStep ==
  ASSUME SlotInv, NEW id, NEW render, dispatchSend(id, render), slot' = slot
  PROVE  SlotInv'
  <1>1. CASE runSend(id, "direct")
    BY <1>1, JobAdded DEF runSend, Job
  <1>2. CASE UNCHANGED jobs
    BY <1>2, SameSlot DEF sendVars
  <1> QED BY <1>1, <1>2 DEF dispatchSend

LEMMA JobKeepsSlot ==
  ASSUME SlotInv, NEW j \in DOMAIN jobs, JobStep(j)
  PROVE  SlotInv'
  <1> DEFINE Stays(rec) == SetJob(j, rec) /\ slot' = slot
  <1>1. "at" \in DOMAIN jobs[j] /\ slot \in DOMAIN jobs \cup {None}
    BY DEF SlotInv, JobsOK
  <1>2. jobs[j].at = "sending" <=> slot = j
    BY DEF SlotInv, SlotIsTheSenders
  <1>3. j # None
    BY JobsAreNumbered DEF SlotInv
  <1>4. CASE PlanFails(j)
    BY <1>1, <1>2, <1>4, JobMoved DEF PlanFails
  <1>5. CASE Claim(j)
    <2>1. CASE slot = None
      <3>1. SetJob(j, [jobs[j] EXCEPT !.at = "sending"]) /\ slot' = j
        BY <1>5, <2>1 DEF Claim
      <3>2. \A k \in DOMAIN jobs : slot # k
        BY <2>1, JobsAreNumbered DEF SlotInv
      <3> QED BY <1>1, <3>1, <3>2, JobMoved
    <2>2. CASE slot # None
      BY <1>1, <1>2, <1>5, <2>2, JobMoved DEF Claim
    <2> QED BY <2>1, <2>2
  <1>6. CASE Retry(j)
    <2>1. SetJob(j, [jobs[j] EXCEPT !.tries = @ + 1]) /\ slot' = slot
      BY <1>6 DEF Retry
    <2>2. "at" \in DOMAIN [jobs[j] EXCEPT !.tries = @ + 1]
          /\ [jobs[j] EXCEPT !.tries = @ + 1].at = jobs[j].at
      BY <1>1
    <2> QED BY <1>1, <1>2, <2>1, <2>2, JobMoved
  <1>7. CASE SendEnds(j)
    <2> DEFINE rec == [jobs[j] EXCEPT !.at = "recording", !.raised = FALSE, !.tries = 0,
                                      !.updated = now_ms]
    <2>1. SetJob(j, rec) /\ jobs[j].at = "sending" /\ slot' = IF slot = j THEN None ELSE slot
      BY <1>7 DEF SendEnds
    <2>2. "at" \in DOMAIN rec /\ rec.at = "recording"
      BY <1>1
    <2>3. slot = j /\ slot' = None
      BY <1>2, <2>1
    <2>4. \A k \in DOMAIN jobs : slot' # k
      BY <2>3, JobsAreNumbered DEF SlotInv
    <2> HIDE DEF rec
    <2> QED BY <2>1, <2>2, <2>3, <2>4, JobMoved
  <1>8. CASE Record(j)
    BY <1>1, <1>2, <1>8, JobMoved DEF Record
  <1>9. CASE JobAnswered(j)
    BY <1>1, <1>2, <1>9, JobMoved DEF JobAnswered
  <1>10. CASE JobEnds(j)
    BY <1>1, <1>2, <1>10, JobMoved DEF JobEnds
  <1> QED BY <1>4, <1>5, <1>6, <1>7, <1>8, <1>9, <1>10 DEF JobStep

LEMMA SlotStep == SlotInv /\ [Next]_vars => SlotInv'
  <1> SUFFICES ASSUME SlotInv, [Next]_vars PROVE SlotInv'
    OBVIOUS
  <1>1. ASSUME NEW j \in DOMAIN jobs, JobStep(j) PROVE SlotInv'
    BY <1>1, JobKeepsSlot
  <1>2. CASE Render \/ TextFails \/ ListRuns \/ PollEnds \/ PollFails \/ CancelFails \/ CancelEnds
             \/ EditRuns \/ EditFails \/ EditLists \/ EditEnds \/ OtherEnds
    BY <1>2, SameSlot DEF Render, TextFails, ListRuns, PollEnds, PollFails, CancelFails, CancelEnds,
       EditRuns, EditFails, EditLists, EditEnds, OtherEnds
  <1>3. CASE Effect
    <2>1. slot' = slot
      BY <1>3 DEF Effect
    <2>2. CASE UNCHANGED jobs
      BY <2>1, <2>2, SameSlot DEF sendVars
    <2>3. CASE runSend(dequeueSend(rendered.queue).head, "queue")
      BY <2>1, <2>3, JobAdded DEF runSend, Job
    <2> QED BY <1>3, <2>2, <2>3 DEF Effect
  <1>4. CASE TextStaged
    BY <1>4, DispatchStep DEF TextStaged
  <1>5. CASE CancelRuns
    <2>1. CASE UNCHANGED jobs
      BY <1>5, <2>1, SameSlot DEF CancelRuns, sendVars
    <2>2. CASE slot # None /\ SetJob(slot, [jobs[slot] EXCEPT !.raised = TRUE])
      <3>1. slot \in DOMAIN jobs /\ "at" \in DOMAIN jobs[slot]
        BY <2>2 DEF SlotInv, JobsOK
      <3>2. "at" \in DOMAIN [jobs[slot] EXCEPT !.raised = TRUE]
            /\ [jobs[slot] EXCEPT !.raised = TRUE].at = jobs[slot].at
        BY <3>1
      <3>3. jobs[slot].at = "sending"
        BY <3>1 DEF SlotInv, SlotIsTheSenders
      <3>4. slot' = slot
        BY <1>5 DEF CancelRuns
      <3> QED BY <2>2, <3>1, <3>2, <3>3, <3>4, JobMoved
    <2> QED BY <1>5, <2>1, <2>2 DEF CancelRuns
  <1>6. CASE Send
    BY <1>6, DispatchStep DEF Send
  <1>7. CASE SendText \/ resumeQueuedSendById \/ cancelQueuedSend \/ clearSendQueue \/ ReceiveRecorded
             \/ Poll \/ Cancel \/ Pause \/ Edit \/ OtherBegins
    BY <1>7, SameSlot DEF SendText, resumeQueuedSendById, cancelQueuedSend, clearSendQueue,
       ReceiveRecorded, Poll, Cancel, Pause, Edit, OtherBegins
  <1>8. CASE BridgeSend
    BY <1>8, JobAdded DEF BridgeSend, Job
  <1>9. CASE resendTransfer
    BY <1>9, JobAdded DEF resendTransfer, Job
  <1>10. CASE Restart
    <2>1. /\ jobs' = [j \in DOMAIN jobs |->
                        [Job(jobs[j].entry, jobs[j].from, jobs[j].record) EXCEPT !.at = "over"]]
          /\ slot' = None
      BY <1>10 DEF Restart
    <2>2. Len(jobs) \in Nat /\ DOMAIN jobs = 1..Len(jobs) /\ None \notin DOMAIN jobs
      BY JobsAreNumbered DEF SlotInv
    <2>3. \E S : jobs' \in Seq(S)
      <3> DEFINE S == {jobs'[j] : j \in DOMAIN jobs}
      <3>1. jobs' \in [1..Len(jobs) -> S]
        BY <2>1, <2>2
      <3> HIDE DEF S
      <3>2. jobs' \in Seq(S)
        BY <2>2, <3>1
      <3> QED BY <3>2
    <2>4. \A j \in DOMAIN jobs' : "at" \in DOMAIN jobs'[j] /\ jobs'[j].at = "over"
      BY <2>1 DEF Job
    <2> QED BY <2>1, <2>2, <2>3, <2>4 DEF SlotInv, JobsOK, SlotIsTheSenders
  <1>11. CASE UNCHANGED vars
    BY <1>11, SameSlot DEF vars
  <1>12. CASE Drop
    BY <1>12, JobAdded DEF Drop, runSend, Job
  <1> QED
    BY <1>1, <1>2, <1>3, <1>4, <1>5, <1>6, <1>7, <1>8, <1>9, <1>10, <1>11, <1>12
       DEF Next, Progress, Begin

-----------------------------------------------------------------------------
(* Lists of the history.                                                    *)

LEMMA ListsInit == Init => ListsInv
  BY BudgetsAssumption DEF Init, ListsInv

\* Nothing is shown, requests go, the records may change.
LEMMA ListsShrink ==
  ASSUME ListsInv, left' \in [Kinds -> Nat], version' \in {version, version + 1},
         lists' \subseteq lists, UNCHANGED <<transfersRefreshSeq, shown>>
  PROVE  ListsInv'
  BY DEF ListsInv

\* A new request has the highest number and no answer.
LEMMA ListsAsk ==
  ASSUME ListsInv, left' \in [Kinds -> Nat], version' = version, NEW who, Ask(who)
  PROVE  ListsInv' /\ shown' = shown
  <1> DEFINE new == [who |-> who, seq |-> transfersRefreshSeq + 1, answer |-> None]
  <1>1. /\ transfersRefreshSeq' = transfersRefreshSeq + 1
        /\ lists' = lists \cup {new} /\ shown' = shown
    BY DEF Ask
  <1>2. "answer" \in DOMAIN new /\ new.seq = transfersRefreshSeq + 1 /\ new.answer = None
    OBVIOUS
  <1> HIDE DEF new
  <1> QED BY <1>1, <1>2 DEF ListsInv

\* An answer is shown only when it is the last request's: then it is as new as what is shown.
LEMMA ListsShow ==
  ASSUME ListsInv, left' \in [Kinds -> Nat], version' = version,
         NEW l \in lists, l.answer # None, Show(l)
  PROVE  ListsInv' /\ shown' >= shown
  <1>1. CASE l.seq = transfersRefreshSeq
    <2>1. \A m \in lists' : m \in lists /\ m.seq # transfersRefreshSeq
      BY <1>1 DEF Show, ListsInv
    <2> QED BY <1>1, <2>1 DEF Show, ListsInv
  <1>2. CASE l.seq # transfersRefreshSeq
    BY <1>2 DEF Show, ListsInv
  <1> QED BY <1>1, <1>2

\* A request is answered with the newest version.
LEMMA ListsAnswer ==
  ASSUME ListsInv, ListRuns
  PROVE  ListsInv' /\ shown' = shown
  <1>1. PICK l \in lists : l.answer = None /\ lists' = (lists \ {l}) \cup {[l EXCEPT !.answer = version]}
    BY DEF ListRuns
  <1> DEFINE new == [l EXCEPT !.answer = version]
  <1>2. new.seq = l.seq /\ "answer" \in DOMAIN new /\ new.answer = version
    BY DEF ListsInv
  <1>3. UNCHANGED <<left, version, transfersRefreshSeq, shown>> /\ lists' = (lists \ {l}) \cup {new}
    BY <1>1 DEF ListRuns, recordVars
  <1> HIDE DEF new
  <1> QED BY <1>2, <1>3 DEF ListsInv

LEMMA SpendLeaves ==
  ASSUME left \in [Kinds -> Nat], NEW k \in Kinds, Spend(k)
  PROVE  left' \in [Kinds -> Nat]
  BY DEF Spend

\* A step keeps the invariant, and what is shown does not go back unless the window starts anew.
LEMMA ListsStep ==
  ASSUME ListsInv, [Next]_vars
  PROVE  ListsInv' /\ (shown' >= shown \/ left'["restarts"] # left["restarts"])
  <1> DEFINE Goal == ListsInv' /\ shown' >= shown
  <1>1. left \in [Kinds -> Nat] /\ shown \in Nat
    BY DEF ListsInv
  <1>2. ASSUME left' \in [Kinds -> Nat], version' \in {version, version + 1}, lists' \subseteq lists,
               UNCHANGED <<transfersRefreshSeq, shown>>
        PROVE  Goal
    BY <1>1, <1>2, ListsShrink
  <1>3. ASSUME NEW k \in Kinds, Spend(k), UNCHANGED <<version, listVars>> PROVE Goal
    BY <1>1, <1>2, <1>3, SpendLeaves DEF listVars
  <1>4. ASSUME UNCHANGED <<left, listVars>>, version' \in {version, version + 1} PROVE Goal
    BY <1>1, <1>2, <1>4 DEF listVars
  <1>5. ASSUME NEW j \in DOMAIN jobs, JobStep(j) PROVE Goal
    <2>1. CASE PlanFails(j) \/ Claim(j) \/ SendEnds(j)
      BY <1>4, <2>1 DEF PlanFails, Claim, SendEnds, recordVars
    <2>2. CASE Retry(j)
      BY <1>3, <2>2 DEF Retry, recordVars, Kinds
    <2>3. CASE Record(j)
      BY <1>4, <2>3 DEF Record, SetHistory
    <2>4. CASE JobAnswered(j)
      <3>1. UNCHANGED <<left, version>> /\ (UNCHANGED listVars \/ Ask(<<"job", j>>))
        BY <2>4 DEF JobAnswered, recordVars
      <3> QED BY <1>1, <1>4, <3>1, ListsAsk
    <2>5. CASE JobEnds(j)
      <3>1. UNCHANGED <<left, version>> /\ \E l \in lists : l.answer # None /\ Show(l)
        BY <2>5 DEF JobEnds, recordVars
      <3> QED BY <1>1, <3>1, ListsShow
    <2> QED BY <1>5, <2>1, <2>2, <2>3, <2>4, <2>5 DEF JobStep
  <1>6. CASE Render \/ Effect \/ TextStaged \/ TextFails \/ CancelFails \/ EditFails \/ OtherEnds
    BY <1>4, <1>6 DEF Render, Effect, TextStaged, TextFails, CancelFails, EditFails, OtherEnds,
       recordVars
  <1>7. CASE EditRuns
    BY <1>4, <1>7 DEF EditRuns, SetHistory
  <1>8. CASE ListRuns
    BY <1>1, <1>8, ListsAnswer
  <1>9. CASE PollEnds \/ EditEnds
    <2>1. UNCHANGED <<left, version>> /\ \E l \in lists : l.answer # None /\ Show(l)
      BY <1>9 DEF PollEnds, EditEnds, recordVars
    <2> QED BY <1>1, <2>1, ListsShow
  <1>10. CASE CancelEnds
    <2>1. /\ UNCHANGED <<left, version>>
          /\ UNCHANGED listVars \/ \E l \in lists : l.answer # None /\ Show(l)
      BY <1>10 DEF CancelEnds, recordVars
    <2> QED BY <1>1, <1>4, <2>1, ListsShow
  <1>11. CASE PollFails
    BY <1>1, <1>2, <1>11 DEF PollFails, recordVars
  <1>12. CASE CancelRuns
    <2>1. UNCHANGED <<left, version>> /\ (UNCHANGED listVars \/ Ask(<<"cancel", 0>>))
      BY <1>12 DEF CancelRuns, recordVars
    <2> QED BY <1>1, <1>4, <2>1, ListsAsk
  <1>13. CASE EditLists
    <2>1. UNCHANGED <<left, version>> /\ Ask(<<"edit", 0>>)
      BY <1>13 DEF EditLists, recordVars
    <2> QED BY <1>1, <2>1, ListsAsk
  <1>14. CASE Drop \/ Send \/ SendText \/ resumeQueuedSendById \/ cancelQueuedSend \/ clearSendQueue
             \/ BridgeSend \/ resendTransfer \/ Cancel \/ Pause \/ Edit \/ OtherBegins
    <2>1. UNCHANGED <<version, listVars>>
      BY <1>14 DEF Drop, Send, SendText, resumeQueuedSendById, cancelQueuedSend, clearSendQueue, BridgeSend,
         resendTransfer, Cancel, Pause, Edit, OtherBegins, recordVars
    <2>2. \E k \in Kinds : Spend(k)
      BY <1>14 DEF Drop, Send, SendText, resumeQueuedSendById, cancelQueuedSend, clearSendQueue, BridgeSend,
         resendTransfer, Cancel, Pause, Edit, OtherBegins, Kinds
    <2> QED BY <1>3, <2>1, <2>2
  <1>15. CASE ReceiveRecorded
    <2>1. left' \in [Kinds -> Nat]
      BY <1>1, <1>15, SpendLeaves DEF ReceiveRecorded, Kinds
    <2> QED BY <1>2, <1>15, <2>1 DEF ReceiveRecorded, SetHistory, listVars
  <1>16. CASE Poll
    <2>1. left' \in [Kinds -> Nat] /\ version' = version /\ Ask(<<"poll", 0>>)
      BY <1>1, <1>16, SpendLeaves DEF Poll, Kinds, recordVars
    <2> QED BY <1>1, <2>1, ListsAsk
  <1>17. CASE Restart
    <2>1. left' \in [Kinds -> Nat]
      BY <1>1, <1>17, SpendLeaves DEF Restart, Kinds
    <2>2. left'["restarts"] # left["restarts"]
      BY <1>1, <1>17 DEF Restart, Spend, Kinds
    <2>3. ListsInv'
      BY <1>17, <2>1 DEF Restart, ListsInv
    <2> QED BY <2>2, <2>3
  <1>18. CASE UNCHANGED vars
    BY <1>4, <1>18 DEF vars, recordVars
  <1> HIDE DEF Goal
  <1>19. Goal => ListsInv' /\ shown' >= shown
    BY DEF Goal
  <1>20. CASE \E j \in DOMAIN jobs : JobStep(j)
    BY <1>5, <1>19, <1>20
  <1> QED
    BY <1>6, <1>7, <1>8, <1>9, <1>10, <1>11, <1>12, <1>13, <1>14, <1>15, <1>16, <1>17, <1>18, <1>19,
       <1>20 DEF Next, Progress, Begin

-----------------------------------------------------------------------------
(* The types.                                                               *)

\* What grows with the number of entries.
LEMMA TypesGrow ==
  ASSUME NEW n \in Nat
  PROVE  /\ 1..n \subseteq 1..(n + 1) /\ n + 1 \in 1..(n + 1)
         /\ Queues(n) \subseteq Queues(n + 1) /\ Renders(n) \subseteq Renders(n + 1)
         /\ Seq(Jobs(n)) \subseteq Seq(Jobs(n + 1))
  <1>1. 1..n \subseteq 1..(n + 1) /\ n + 1 \in 1..(n + 1)
    OBVIOUS
  <1>2. Entries(n) \subseteq Entries(n + 1)
    BY <1>1 DEF Entries
  <1>3. Queues(n) \subseteq Queues(n + 1)
    BY <1>2 DEF Queues
  <1>4. Renders(n) \subseteq Renders(n + 1)
    BY <1>3 DEF Renders
  <1>5. Jobs(n) \subseteq Jobs(n + 1)
    BY <1>1 DEF Jobs
  <1> QED BY <1>1, <1>3, <1>4, <1>5

\* The entries at some positions of a queue are a queue.
LEMMA QueueKept ==
  ASSUME NEW n \in Nat, NEW q \in Queues(n), NEW I \in SUBSET (DOMAIN q)
  PROVE  Keep(q, I) \in Queues(n)
  <1>1. q \in Seq(Entries(n)) /\ Len(q) \in Nat /\ Len(q) <= MAX_SEND_QUEUE
    BY DEF Queues
  <1>2. Keep(q, I) \in Seq(Entries(n)) /\ Len(Keep(q, I)) \in 0..Len(q)
    BY <1>1, KeepLists
  <1> QED BY <1>1, <1>2, LimitsAssumption DEF Queues

LEMMA QueueTyped ==
  ASSUME NEW n \in Nat, NEW q \in Queues(n)
  PROVE  /\ q \in Seq(Entries(n)) /\ Len(q) \in Nat /\ DOMAIN q = 1..Len(q)
         /\ \A i \in DOMAIN q : q[i].id \in 1..n /\ q[i].paused \in BOOLEAN
  <1>1. q \in Seq(Entries(n))
    BY DEF Queues
  <1>2. Len(q) \in Nat /\ DOMAIN q = 1..Len(q) /\ \A i \in DOMAIN q : q[i] \in Entries(n)
    BY <1>1
  <1> QED BY <1>1, <1>2 DEF Entries

\* enqueueSend, resumeQueuedSend
LEMMA QueueChanged ==
  ASSUME NEW n \in Nat, NEW q \in Queues(n), NEW e \in Entries(n)
  PROVE  enqueueSend(q, e) \in Queues(n) /\ resumeQueuedSend(q, e.id) \in Queues(n)
  <1>1. q \in Seq(Entries(n)) /\ Len(q) \in Nat /\ Len(q) <= MAX_SEND_QUEUE
    BY DEF Queues
  <1>2. enqueueSend(q, e) \in Queues(n)
    BY <1>1, LimitsAssumption DEF enqueueSend, Queues
  <1> DEFINE t == resumeQueuedSend(q, e.id)
  <1>3. t \in [1..Len(q) -> Entries(n)]
    <2>1. \A i \in 1..Len(q) : q[i] \in Entries(n) /\ [q[i] EXCEPT !.paused = FALSE] \in Entries(n)
      <3>1. \A i \in 1..Len(q) : q[i] \in Entries(n)
        BY <1>1
      <3>2. \A x \in Entries(n) : [x EXCEPT !.paused = FALSE] \in Entries(n)
        BY DEF Entries
      <3> QED BY <3>1, <3>2
    <2>2. DOMAIN q = 1..Len(q)
      BY <1>1
    <2> QED BY <2>1, <2>2 DEF resumeQueuedSend
  <1> HIDE DEF t
  <1>4. t \in Queues(n)
    BY <1>1, <1>3 DEF Queues
  <1> QED BY <1>2, <1>4 DEF t

\* dequeueSend takes an entry of the queue that is not paused, if there is one.
LEMMA QueueTaken ==
  ASSUME NEW n \in Nat, NEW q \in Queues(n), dequeueSend(q).head # None
  PROVE  \E i \in DOMAIN q :
            /\ ~q[i].paused /\ dequeueSend(q).head = q[i].id
            /\ dequeueSend(q).rest = Keep(q, DOMAIN q \ {i})
  <1> DEFINE open == {i \in DOMAIN q : ~q[i].paused}
  <1>1. open # {}
    BY DEF dequeueSend
  <1>2. open \subseteq Nat
    BY QueueTyped
  <1>3. \E i \in open : \A k \in open : i <= k
    BY <1>1, <1>2, LeastMember
  <1> DEFINE first == CHOOSE i \in open : \A k \in open : i <= k
  <1>4. first \in open
    BY <1>3
  <1>5. dequeueSend(q).head = q[first].id /\ dequeueSend(q).rest = Keep(q, DOMAIN q \ {first})
    BY <1>1 DEF dequeueSend
  <1> QED BY <1>4, <1>5

\* The clock shows a number.
LEMMA ClockTicks ==
  ASSUME history \in Histories, jobs \in Seq(Jobs(asked))
  PROVE  now_ms \in Nat
  <1> DEFINE h == [i \in 1..Len(history) |-> history[i].updated]
             w == [j \in 1..Len(jobs) |-> jobs[j].updated]
  <1>1. /\ Len(history) \in Nat /\ DOMAIN history = 1..Len(history)
        /\ \A i \in 1..Len(history) : history[i].updated \in Nat
    <2>1. history \in Seq(Records)
      BY DEF Histories
    <2>2. /\ Len(history) \in Nat /\ DOMAIN history = 1..Len(history)
          /\ \A i \in 1..Len(history) : history[i] \in Records
      BY <2>1
    <2> QED BY <2>2 DEF Records
  <1>2. /\ Len(jobs) \in Nat /\ DOMAIN jobs = 1..Len(jobs)
        /\ \A j \in 1..Len(jobs) : jobs[j].updated \in Nat
    <2>1. /\ Len(jobs) \in Nat /\ DOMAIN jobs = 1..Len(jobs)
          /\ \A j \in 1..Len(jobs) : jobs[j] \in Jobs(asked)
      OBVIOUS
    <2> QED BY <2>1 DEF Jobs
  <1>3. PICK a \in Nat : \A i \in 1..Len(history) : h[i] <= a
    BY <1>1, ValuesBounded
  <1>4. PICK b \in Nat : \A j \in 1..Len(jobs) : w[j] <= b
    BY <1>2, ValuesBounded
  <1> DEFINE m == a + b
  <1>5. m \in Nat /\ a <= m /\ b <= m
    OBVIOUS
  <1> HIDE DEF m
  <1>6. Stamps \cup {0} \in SUBSET (0..m)
    BY <1>1, <1>2, <1>3, <1>4, <1>5 DEF Stamps
  <1>7. PICK x \in Stamps \cup {0} : \A y \in Stamps \cup {0} : y <= x
    <2> DEFINE T == Stamps \cup {0}
    <2>1. T \in SUBSET (0..m) /\ T # {}
      BY <1>6
    <2> HIDE DEF T
    <2>2. \E x \in T : \A y \in T : y <= x
      BY <1>5, <2>1, GreatestMember
    <2> QED BY <2>2 DEF T
  <1>8. \A y \in Stamps \cup {0} : x >= y
    BY <1>6, <1>7
  <1>9. Max(Stamps \cup {0}) \in Stamps \cup {0}
    BY <1>7, <1>8 DEF Max
  <1> QED BY <1>6, <1>9 DEF now_ms

\* The history without some records, and with a new one, keeps to its limit.
LEMMA RecordsKept ==
  ASSUME history \in Histories, NEW id
  PROVE  Others(id) \in Histories
  <1> DEFINE I == {i \in DOMAIN history : history[i].id # id}
  <1>1. I \in SUBSET (DOMAIN history) /\ Others(id) = Keep(history, I)
    BY DEF Others
  <1>2. history \in Seq(Records) /\ Len(history) \in Nat /\ Len(history) <= TRANSFER_HISTORY_LIMIT
    BY DEF Histories
  <1> HIDE DEF I
  <1>3. Keep(history, I) \in Seq(Records) /\ Len(Keep(history, I)) \in 0..Len(history)
    BY <1>1, <1>2, KeepLists
  <1> QED BY <1>1, <1>2, <1>3, LimitsAssumption DEF Histories

LEMMA RecordPushed ==
  ASSUME history \in Histories, NEW r \in Records
  PROVE  Pushed(r) \in Histories
  <1> DEFINE others == Others(r.id)
             newer == {i \in DOMAIN others : others[i].updated > r.updated}
             sorted == Keep(others, newer) \o <<r>> \o Keep(others, DOMAIN others \ newer)
  <1>1. others \in Seq(Records)
    BY RecordsKept DEF Histories
  <1>2. newer \in SUBSET (DOMAIN others) /\ DOMAIN others \ newer \in SUBSET (DOMAIN others)
    OBVIOUS
  <1>3. Keep(others, newer) \in Seq(Records) /\ Keep(others, DOMAIN others \ newer) \in Seq(Records)
    BY <1>1, <1>2, KeepElements
  <1>4. sorted \in Seq(Records)
    BY <1>3
  <1>5. Pushed(r) = SubSeq(sorted, 1, IF Len(sorted) > TRANSFER_HISTORY_LIMIT
                                      THEN TRANSFER_HISTORY_LIMIT ELSE Len(sorted))
    BY DEF Pushed
  <1> HIDE DEF sorted
  <1> QED BY <1>4, <1>5, LimitsAssumption DEF Histories

LEMMA TypeInit == Init => TypeOK
  <1> SUFFICES ASSUME Init PROVE TypeOK
    OBVIOUS
  <1>1. left \in [Kinds -> Nat] /\ asked \in Nat /\ asked <= MAX_SEND_QUEUE
    BY BudgetsAssumption, StoredAssumption DEF Init, Kinds
  <1>2. queue \in Queues(asked)
    <2>1. queue = [i \in 1..asked |-> [id |-> i, paused |-> FALSE]]
      BY DEF Init, loadSendQueue
    <2>2. \A i \in 1..asked : [id |-> i, paused |-> FALSE] \in Entries(asked)
      BY DEF Entries
    <2>3. queue \in [1..asked -> Entries(asked)]
      BY <2>1, <2>2
    <2> QED BY <1>1, <2>3 DEF Queues
  <1>3. stored = queue /\ rendered = [busy |-> "none", queue |-> queue]
    BY DEF Init
  <1>4. WindowTypeOK
    <2>1. stored \in Queues(asked) /\ rendered \in Renders(asked)
      BY <1>2, <1>3 DEF Renders, Doings
    <2>2. staged = {} /\ dropped = {} /\ strays = {} /\ busy \in Doings /\ cancelling = "no"
      BY DEF Init, Doings
    <2>3. {effect, flushing, active, other, reset} \subseteq BOOLEAN
      BY DEF Init
    <2> QED BY <1>1, <1>2, <2>1, <2>2, <2>3 DEF WindowTypeOK
  <1>5. CommandsTypeOK
    BY DEF Init, CommandsTypeOK
  <1>6. <<>> \in Histories
    BY LimitsAssumption DEF Histories
  <1>7. HistoryTypeOK
    BY <1>6 DEF Init, HistoryTypeOK, Idle
  <1> QED BY <1>1, <1>4, <1>5, <1>7 DEF TypeOK

\* A budget is spent, or left alone.
LEMMA LeftStep ==
  ASSUME TypeOK, [Next]_vars
  PROVE  left' \in [Kinds -> Nat]
  <1>0. left \in [Kinds -> Nat]
    BY DEF TypeOK
  <1>1. ASSUME NEW k \in Kinds, Spend(k) PROVE left' \in [Kinds -> Nat]
    BY <1>0, <1>1, SpendLeaves
  <1>2. CASE Begin
    <2>1. \E k \in Kinds : Spend(k)
      BY <1>2 DEF Begin, Drop, Send, SendText, resumeQueuedSendById, cancelQueuedSend, clearSendQueue,
         BridgeSend, ReceiveRecorded, resendTransfer, Poll, Cancel, Pause, Edit, OtherBegins, Kinds
    <2> QED BY <1>1, <2>1
  <1>3. CASE Restart
    BY <1>1, <1>3 DEF Restart, Kinds
  <1>4. ASSUME NEW j \in DOMAIN jobs, JobStep(j) PROVE left' \in [Kinds -> Nat]
    <2>1. CASE Retry(j)
      BY <1>1, <2>1 DEF Retry, Kinds
    <2>2. CASE ~Retry(j)
      BY <1>0, <1>4, <2>2 DEF JobStep, PlanFails, Claim, SendEnds, Record, JobAnswered, JobEnds
    <2> QED BY <2>1, <2>2
  <1>5. CASE Render \/ Effect \/ TextStaged \/ TextFails \/ ListRuns \/ PollEnds \/ PollFails
             \/ CancelRuns \/ CancelFails \/ CancelEnds \/ EditRuns \/ EditFails \/ EditLists
             \/ EditEnds \/ OtherEnds
    BY <1>0, <1>5 DEF Render, Effect, TextStaged, TextFails, ListRuns, PollEnds, PollFails, CancelRuns,
       CancelFails, CancelEnds, EditRuns, EditFails, EditLists, EditEnds, OtherEnds
  <1>6. CASE UNCHANGED vars
    BY <1>0, <1>6 DEF vars
  <1> QED BY <1>2, <1>3, <1>4, <1>5, <1>6 DEF Next, Progress

\* A command that is added, and one that goes on.
LEMMA CommandAdded ==
  ASSUME CommandsTypeOK, asked \in Nat, asked' \in {asked, asked + 1}, slot' = slot,
         NEW rec \in Jobs(asked'), jobs' = Append(jobs, rec)
  PROVE  CommandsTypeOK'
  <1>1. jobs \in Seq(Jobs(asked'))
    BY TypesGrow DEF CommandsTypeOK
  <1>2. jobs' \in Seq(Jobs(asked')) /\ DOMAIN jobs \subseteq DOMAIN jobs'
    BY <1>1
  <1> QED BY <1>2 DEF CommandsTypeOK

LEMMA CommandMoved ==
  ASSUME CommandsTypeOK, asked' = asked, NEW j \in DOMAIN jobs, NEW rec \in Jobs(asked),
         SetJob(j, rec), slot' \in DOMAIN jobs \cup {None}
  PROVE  CommandsTypeOK'
  <1>1. jobs' \in Seq(Jobs(asked)) /\ DOMAIN jobs' = DOMAIN jobs
    BY DEF CommandsTypeOK, SetJob
  <1> QED BY <1>1 DEF CommandsTypeOK

LEMMA CommandsKept ==
  ASSUME CommandsTypeOK, asked \in Nat, asked' \in {asked, asked + 1}, UNCHANGED sendVars
  PROVE  CommandsTypeOK'
  <1>1. jobs \in Seq(Jobs(asked'))
    BY TypesGrow DEF CommandsTypeOK
  <1> QED BY <1>1 DEF CommandsTypeOK, sendVars

\* What the window or the history gives a command.
LEMMA JobTyped ==
  ASSUME jobs \in Seq(Jobs(asked)), NEW n \in Nat, NEW entry \in 1..n \cup {None},
         NEW from \in {"direct", "queue", "bridge", "resend"}
  PROVE  /\ Job(entry, from, NewRecord) \in Jobs(n)
         /\ \A x \in {"send"} \X Nat : Job(entry, from, x) \in Jobs(n)
  <1>1. Len(jobs) + 1 \in Nat
    OBVIOUS
  <1>2. NewRecord \in {"send"} \X Nat
    BY <1>1 DEF NewRecord
  <1> QED BY <1>2, LimitsAssumption DEF Job, Jobs

LEMMA DispatchedTyped ==
  ASSUME CommandsTypeOK, asked \in Nat, asked' \in {asked, asked + 1}, slot' = slot,
         NEW id \in 1..asked', NEW render, dispatchSend(id, render)
  PROVE  CommandsTypeOK'
  <1>1. CASE runSend(id, "direct")
    <2>1. Job(id, "direct", NewRecord) \in Jobs(asked')
      BY JobTyped DEF CommandsTypeOK
    <2> QED BY <1>1, <2>1, CommandAdded DEF runSend
  <1>2. CASE UNCHANGED jobs
    BY <1>2, CommandsKept DEF sendVars
  <1> QED BY <1>1, <1>2 DEF dispatchSend

LEMMA CommandsStep ==
  ASSUME TypeOK, [Next]_vars
  PROVE  CommandsTypeOK'
  <1>0. /\ CommandsTypeOK /\ jobs \in Seq(Jobs(asked)) /\ slot \in DOMAIN jobs \cup {None}
        /\ asked \in Nat /\ asked + 1 \in Nat
    BY DEF TypeOK, CommandsTypeOK, WindowTypeOK
  <1>1. ASSUME NEW j \in DOMAIN jobs, JobStep(j) PROVE CommandsTypeOK'
    <2>0. jobs[j] \in Jobs(asked) /\ asked' = asked
      <3>1. asked' = asked
        BY <1>1 DEF JobStep, PlanFails, Claim, Retry, SendEnds, Record, JobAnswered, JobEnds, queueVars
      <3> QED BY <1>0, <3>1
    <2>1. \A a \in {"answered", "sending", "over", "listing"} : [jobs[j] EXCEPT !.at = a] \in Jobs(asked)
      BY <2>0 DEF Jobs
    <2>2. CASE PlanFails(j) \/ Claim(j) \/ JobAnswered(j) \/ JobEnds(j)
      <3>1. /\ \E a \in {"answered", "sending", "over", "listing"} : SetJob(j, [jobs[j] EXCEPT !.at = a])
            /\ slot' \in DOMAIN jobs \cup {None}
        BY <1>0, <2>2 DEF PlanFails, Claim, JobAnswered, JobEnds
      <3> QED BY <1>0, <2>0, <2>1, <3>1, CommandMoved
    <2>3. CASE Retry(j)
      <3>1. [jobs[j] EXCEPT !.tries = @ + 1] \in Jobs(asked)
        BY <2>0, <2>3, LimitsAssumption DEF Retry, Jobs
      <3> QED BY <1>0, <2>0, <2>3, <3>1, CommandMoved DEF Retry
    <2>4. CASE SendEnds(j)
      <3>1. now_ms \in Nat
        BY <1>0, ClockTicks DEF TypeOK, HistoryTypeOK
      <3> DEFINE rec == [jobs[j] EXCEPT !.at = "recording", !.raised = FALSE, !.tries = 0,
                                        !.updated = now_ms]
      <3>2. rec \in Jobs(asked)
        <4> DEFINE x == [jobs[j] EXCEPT !.at = "recording", !.raised = FALSE]
        <4>1. x \in Jobs(asked)
          BY <2>0 DEF Jobs
        <4>2. rec = [x EXCEPT !.tries = 0, !.updated = now_ms]
          OBVIOUS
        <4> HIDE DEF x
        <4>3. 0 \in 0..SEND_AUTO_RETRY_LIMIT
          BY LimitsAssumption
        <4>4. [x EXCEPT !.tries = 0] \in Jobs(asked)
          BY <4>1, <4>3 DEF Jobs
        <4>5. \A y \in Jobs(asked) : [y EXCEPT !.updated = now_ms] \in Jobs(asked)
          BY <3>1 DEF Jobs
        <4>6. [x EXCEPT !.tries = 0, !.updated = now_ms] = [[x EXCEPT !.tries = 0] EXCEPT !.updated = now_ms]
          OBVIOUS
        <4> QED BY <4>2, <4>4, <4>5, <4>6
      <3>3. SetJob(j, rec) /\ slot' \in DOMAIN jobs \cup {None}
        BY <1>0, <2>4 DEF SendEnds
      <3> HIDE DEF rec
      <3> QED BY <1>0, <2>0, <3>2, <3>3, CommandMoved
    <2>5. CASE Record(j)
      <3>1. [jobs[j] EXCEPT !.at = "answered", !.updated = 0] \in Jobs(asked)
        BY <2>0 DEF Jobs
      <3> QED BY <1>0, <2>0, <2>5, <3>1, CommandMoved DEF Record
    <2> QED BY <1>1, <2>2, <2>3, <2>4, <2>5 DEF JobStep
  <1>2. CASE Render \/ TextFails \/ ListRuns \/ PollEnds \/ PollFails \/ CancelFails \/ CancelEnds
             \/ EditRuns \/ EditFails \/ EditLists \/ EditEnds \/ OtherEnds
    <2>1. asked' = asked /\ UNCHANGED sendVars
      BY <1>2 DEF Render, TextFails, ListRuns, PollEnds, PollFails, CancelFails, CancelEnds, EditRuns,
         EditFails, EditLists, EditEnds, OtherEnds, queueVars
    <2> QED BY <1>0, <2>1, CommandsKept
  <1>3. CASE Effect
    <2>1. slot' = slot /\ asked' = asked
      BY <1>3 DEF Effect
    <2>2. CASE UNCHANGED jobs
      BY <1>0, <2>1, <2>2, CommandsKept DEF sendVars
    <2>3. CASE /\ dequeueSend(rendered.queue).head # None
               /\ runSend(dequeueSend(rendered.queue).head, "queue")
      <3>1. rendered.queue \in Queues(asked)
        BY DEF TypeOK, WindowTypeOK, Renders
      <3>2. dequeueSend(rendered.queue).head \in 1..asked
        BY <1>0, <2>3, <3>1, QueueTaken, QueueTyped
      <3>3. Job(dequeueSend(rendered.queue).head, "queue", NewRecord) \in Jobs(asked')
        BY <1>0, <2>1, <3>2, JobTyped
      <3> QED BY <1>0, <2>1, <2>3, <3>3, CommandAdded DEF runSend
    <2> QED BY <1>3, <2>2, <2>3 DEF Effect
  <1>4. CASE TextStaged
    <2>1. PICK t \in staged : dispatchSend(t.id, t.render)
      BY <1>4 DEF TextStaged
    <2>2. t.id \in 1..asked /\ slot' = slot /\ asked' = asked
      BY <1>4 DEF TextStaged, TypeOK, WindowTypeOK
    <2> QED BY <1>0, <2>1, <2>2, DispatchedTyped
  <1>5. CASE CancelRuns
    <2>0. asked' = asked /\ slot' = slot
      BY <1>5 DEF CancelRuns, queueVars
    <2>1. CASE UNCHANGED jobs
      BY <1>0, <2>0, <2>1, CommandsKept DEF sendVars
    <2>2. CASE slot # None /\ SetJob(slot, [jobs[slot] EXCEPT !.raised = TRUE])
      <3>1. slot \in DOMAIN jobs /\ jobs[slot] \in Jobs(asked)
        BY <1>0, <2>2
      <3>2. [jobs[slot] EXCEPT !.raised = TRUE] \in Jobs(asked)
        BY <3>1 DEF Jobs
      <3> QED BY <1>0, <2>0, <2>2, <3>1, <3>2, CommandMoved
    <2> QED BY <1>5, <2>1, <2>2 DEF CancelRuns
  <1>6. CASE Send
    BY <1>0, <1>6, DispatchedTyped DEF Send
  <1>7. CASE SendText \/ resumeQueuedSendById \/ cancelQueuedSend \/ clearSendQueue \/ ReceiveRecorded
             \/ Poll \/ Cancel \/ Pause \/ Edit \/ OtherBegins
    <2>1. asked' \in {asked, asked + 1} /\ UNCHANGED sendVars
      BY <1>7 DEF SendText, resumeQueuedSendById, cancelQueuedSend, clearSendQueue, ReceiveRecorded, Poll,
         Cancel, Pause, Edit, OtherBegins, queueVars
    <2> QED BY <1>0, <2>1, CommandsKept
  <1>8. CASE BridgeSend
    <2>1. Job(None, "bridge", NewRecord) \in Jobs(asked)
      BY <1>0, JobTyped
    <2> QED BY <1>0, <1>8, <2>1, CommandAdded DEF BridgeSend, queueVars
  <1>9. CASE resendTransfer
    <2>1. PICK i \in DOMAIN history :
             history[i].id[1] = "send" /\ jobs' = Append(jobs, Job(None, "resend", history[i].id))
      BY <1>9 DEF resendTransfer
    <2>2. history[i].id \in {"send"} \X Nat
      <3>1. history \in Seq(Records)
        BY DEF TypeOK, HistoryTypeOK, Histories
      <3>2. history[i] \in Records
        BY <3>1
      <3> QED BY <2>1, <3>2 DEF Records, RecordIds
    <2>3. Job(None, "resend", history[i].id) \in Jobs(asked)
      BY <1>0, <2>2, JobTyped
    <2> QED BY <1>0, <1>9, <2>1, <2>3, CommandAdded DEF resendTransfer, queueVars
  <1>10. CASE Restart
    <2>1. /\ jobs' = [j \in DOMAIN jobs |->
                        [Job(jobs[j].entry, jobs[j].from, jobs[j].record) EXCEPT !.at = "over"]]
          /\ slot' = None /\ asked' = asked
      BY <1>10 DEF Restart
    <2>2. Len(jobs) \in Nat /\ DOMAIN jobs = 1..Len(jobs) /\ \A j \in 1..Len(jobs) : jobs[j] \in Jobs(asked)
      BY <1>0
    <2>3. \A x \in Jobs(asked) :
             [Job(x.entry, x.from, x.record) EXCEPT !.at = "over"] \in Jobs(asked)
      <3>1. \A x \in Jobs(asked) : Job(x.entry, x.from, x.record) \in Jobs(asked)
        BY LimitsAssumption DEF Jobs, Job
      <3>2. \A y \in Jobs(asked) : [y EXCEPT !.at = "over"] \in Jobs(asked)
        BY DEF Jobs
      <3> QED BY <3>1, <3>2
    <2>4. jobs' \in [1..Len(jobs) -> Jobs(asked)]
      BY <2>1, <2>2, <2>3
    <2>5. jobs' \in Seq(Jobs(asked))
      BY <2>2, <2>4
    <2> QED BY <2>1, <2>5 DEF CommandsTypeOK
  <1>11. CASE UNCHANGED vars
    BY <1>0, <1>11, CommandsKept DEF vars, queueVars
  <1>12. CASE Drop
    <2>1. jobs' = Append(jobs, Job(asked + 1, "direct", NewRecord)) /\ slot' = slot /\ asked' = asked + 1
      BY <1>12 DEF Drop, runSend
    <2>2. asked + 1 \in 1..asked'
      BY <1>0, <2>1
    <2>3. Job(asked + 1, "direct", NewRecord) \in Jobs(asked')
      BY <1>0, <2>1, <2>2, JobTyped
    <2> QED BY <1>0, <2>1, <2>3, CommandAdded
  <1> QED
    BY <1>1, <1>2, <1>3, <1>4, <1>5, <1>6, <1>7, <1>8, <1>9, <1>10, <1>11, <1>12
       DEF Next, Progress, Begin

\* What goes astray was asked for.
LEMMA StraysTyped ==
  ASSUME NEW n \in Nat, NEW q \in Queues(n), NEW r \in Queues(n)
  PROVE  Astray(q, r) \subseteq 1..n
  <1>1. (\A i \in DOMAIN q : q[i].id \in 1..n) /\ (\A i \in DOMAIN r : r[i].id \in 1..n)
    BY QueueTyped
  <1> QED BY <1>1 DEF Astray, Ids

\* The window: nothing of the queue changes, or more entries were asked for.
LEMMA WindowKept ==
  ASSUME WindowTypeOK, asked' \in {asked, asked + 1},
         UNCHANGED <<queue, stored, rendered>>,
         staged' \subseteq [id : 1..asked', render : Renders(asked')], dropped' \subseteq 1..asked',
         strays' \subseteq 1..asked',
         busy' \in Doings, cancelling' \in {"no", "send", "receive", "refreshing"},
         {effect', flushing', active', other', reset'} \subseteq BOOLEAN
  PROVE  WindowTypeOK'
  <1>1. /\ asked' \in Nat /\ queue \in Queues(asked') /\ stored \in Queues(asked')
        /\ rendered \in Renders(asked')
    BY TypesGrow DEF WindowTypeOK
  <1> QED BY <1>1 DEF WindowTypeOK

LEMMA DispatchedWindow ==
  ASSUME WindowTypeOK, NEW n \in Nat, queue \in Queues(n), dropped \subseteq 1..n,
         strays \subseteq 1..n, NEW id \in 1..n, NEW render \in Renders(n), dispatchSend(id, render)
  PROVE  /\ queue' \in Queues(n) /\ dropped' \subseteq 1..n
         /\ busy' \in Doings /\ active' \in BOOLEAN /\ strays' \subseteq 1..n
  <1>1. render.queue \in Queues(n) /\ [id |-> id, paused |-> FALSE] \in Entries(n)
    BY DEF Renders, Entries
  <1>2. enqueueSend(render.queue, [id |-> id, paused |-> FALSE]) \in Queues(n)
    BY <1>1, QueueChanged
  <1>3. busy \in Doings /\ active \in BOOLEAN
    BY DEF WindowTypeOK
  <1>4. CASE render.busy = "none"
    BY <1>3, <1>4 DEF dispatchSend, runSend, Doings
  <1>5. CASE render.busy # "none" /\ Len(render.queue) >= MAX_SEND_QUEUE
    BY <1>3, <1>5 DEF dispatchSend
  <1>6. CASE render.busy # "none" /\ ~(Len(render.queue) >= MAX_SEND_QUEUE)
    <2>1. /\ queue' = enqueueSend(render.queue, [id |-> id, paused |-> FALSE])
          /\ strays' = strays \cup Astray(queue, render.queue)
          /\ UNCHANGED <<dropped, busy, active>>
      BY <1>6 DEF dispatchSend
    <2>2. strays' \subseteq 1..n
      BY <1>1, <2>1, StraysTyped
    <2> QED BY <1>2, <1>3, <2>1, <2>2
  <1> QED BY <1>4, <1>5, <1>6

LEMMA WindowStep ==
  ASSUME TypeOK, [Next]_vars
  PROVE  WindowTypeOK'
  <1>0. /\ WindowTypeOK /\ asked \in Nat /\ asked + 1 \in Nat
        /\ queue \in Queues(asked) /\ stored \in Queues(asked) /\ rendered \in Renders(asked)
        /\ staged \subseteq [id : 1..asked, render : Renders(asked)] /\ dropped \subseteq 1..asked
        /\ strays \subseteq 1..asked
        /\ busy \in Doings /\ cancelling \in {"no", "send", "receive", "refreshing"}
    BY DEF TypeOK, WindowTypeOK
  <1>b. {effect, flushing, active, other, reset} \subseteq BOOLEAN
    BY DEF TypeOK, WindowTypeOK
  <1>d. "none" \in Doings /\ "send" \in Doings /\ "resend" \in Doings /\ "cancel" \in Doings
        /\ "history" \in Doings /\ "other" \in Doings
    BY DEF Doings
  \* What leaves queue, renders, texts and what is out alone.
  <1> DEFINE Quiet ==
        /\ asked' = asked /\ UNCHANGED <<queue, stored, rendered, staged, dropped, strays>>
        /\ busy' \in Doings /\ cancelling' \in {"no", "send", "receive", "refreshing"}
        /\ {effect', flushing', active', other', reset'} \subseteq BOOLEAN
  <1>q. ASSUME Quiet PROVE WindowTypeOK'
    BY <1>0, <1>q, WindowKept
  <1>n. ASSUME UNCHANGED <<busy, reset, queueVars, renderVars, staged, cancelling, other>>
        PROVE  WindowTypeOK'
    BY <1>0, <1>b, <1>n, <1>q DEF queueVars, renderVars
  <1>f. ASSUME NEW own, Finally(own), UNCHANGED <<queueVars, renderVars, staged>>,
               cancelling' \in {"no", "send", "receive", "refreshing"}, other' \in BOOLEAN
        PROVE  WindowTypeOK'
    <2>1. busy' = "none" /\ reset' \in BOOLEAN
      BY <1>b, <1>f DEF Finally
    <2> QED BY <1>0, <1>b, <1>d, <1>f, <1>q, <2>1 DEF queueVars, renderVars
  <1> HIDE DEF Quiet
  <1>1. ASSUME NEW j \in DOMAIN jobs, JobStep(j) PROVE WindowTypeOK'
    <2>1. CASE JobEnds(j)
      <3>1. busy' = "none" /\ reset' \in BOOLEAN /\ flushing' \in BOOLEAN
        BY <1>b, <2>1 DEF JobEnds, Finally
      <3> QED BY <1>0, <1>b, <1>d, <1>q, <2>1, <3>1 DEF JobEnds, renderVars, callVars, Quiet
    <2>2. CASE ~JobEnds(j)
      BY <1>1, <1>n, <2>2 DEF JobStep, PlanFails, Claim, Retry, SendEnds, Record, JobAnswered, callVars
    <2> QED BY <2>1, <2>2
  <1>2. CASE ListRuns \/ PollEnds \/ PollFails \/ EditRuns \/ EditLists \/ BridgeSend
             \/ ReceiveRecorded \/ Poll \/ UNCHANGED vars
    BY <1>2, <1>n DEF ListRuns, PollEnds, PollFails, EditRuns, EditLists, BridgeSend, ReceiveRecorded,
       Poll, callVars, vars
  <1>3. CASE CancelFails \/ CancelEnds \/ EditFails \/ EditEnds \/ OtherEnds
    <2>1. Finally(FALSE) /\ UNCHANGED <<queueVars, renderVars, staged>>
      BY <1>3 DEF CancelFails, CancelEnds, EditFails, EditEnds, OtherEnds
    <2>2. cancelling' \in {"no", "send", "receive", "refreshing"} /\ other' \in BOOLEAN
      BY <1>0, <1>b, <1>3 DEF CancelFails, CancelEnds, EditFails, EditEnds, OtherEnds
    <2> QED BY <1>f, <2>1, <2>2
  <1>4. CASE CancelRuns
    <2>1. cancelling' = "refreshing" /\ UNCHANGED <<busy, reset, queueVars, renderVars, staged, other>>
      BY <1>4 DEF CancelRuns
    <2> QED BY <1>0, <1>b, <1>q, <2>1 DEF queueVars, renderVars, Quiet
  <1>5. CASE resendTransfer \/ Cancel \/ Edit \/ OtherBegins
    <2>1. UNCHANGED <<reset, queueVars, renderVars, staged>>
      BY <1>5 DEF resendTransfer, Cancel, Edit, OtherBegins, callVars
    <2>2. busy' \in Doings
      BY <1>5, <1>d DEF resendTransfer, Cancel, Edit, OtherBegins
    <2>3. cancelling' \in {"no", "send", "receive", "refreshing"} /\ other' \in BOOLEAN
      BY <1>0, <1>b, <1>5 DEF resendTransfer, Cancel, Edit, OtherBegins, callVars
    <2> QED BY <1>0, <1>b, <1>q, <2>1, <2>2, <2>3 DEF queueVars, renderVars, Quiet
  <1>6. CASE Render
    <2>1. /\ rendered' = [busy |-> busy, queue |-> queue] /\ effect' = TRUE
          /\ UNCHANGED <<busy, reset, queueVars, stored, callVars>>
      BY <1>6 DEF Render
    <2>2. [busy |-> busy, queue |-> queue] \in Renders(asked)
      BY <1>0 DEF Renders
    <2> QED BY <1>0, <1>b, <2>1, <2>2 DEF queueVars, callVars, WindowTypeOK
  <1>7. CASE Effect
    <2> DEFINE next == dequeueSend(rendered.queue)
    <2>1. /\ effect' = FALSE /\ stored' = rendered.queue
          /\ UNCHANGED <<asked, dropped, reset, rendered, callVars>>
      BY <1>7 DEF Effect
    <2>2. rendered.queue \in Queues(asked)
      BY <1>0 DEF Renders
    <2>3. CASE UNCHANGED <<busy, queue, flushing, active, strays>>
      BY <1>0, <1>b, <2>1, <2>2, <2>3 DEF callVars, WindowTypeOK
    <2>4. CASE /\ next.head # None /\ flushing' = TRUE /\ queue' = next.rest
               /\ strays' = strays \cup Astray(queue, rendered.queue) /\ runSend(next.head, "queue")
      <3>1. queue' \in Queues(asked)
        <4>1. PICK i \in DOMAIN rendered.queue : next.rest = Keep(rendered.queue, DOMAIN rendered.queue \ {i})
          BY <1>0, <2>2, <2>4, QueueTaken
        <4>2. DOMAIN rendered.queue \ {i} \in SUBSET (DOMAIN rendered.queue)
          OBVIOUS
        <4>3. Keep(rendered.queue, DOMAIN rendered.queue \ {i}) \in Queues(asked)
          BY <1>0, <2>2, <4>2, QueueKept
        <4> QED BY <2>4, <4>1, <4>3
      <3>2. strays' \subseteq 1..asked
        BY <1>0, <2>2, <2>4, StraysTyped
      <3>3. busy' = "send" /\ active' = TRUE
        BY <2>4 DEF runSend
      <3> HIDE DEF next
      <3> QED BY <1>0, <1>b, <1>d, <2>1, <2>2, <2>4, <3>1, <3>2, <3>3 DEF callVars, WindowTypeOK
    <2> QED BY <1>7, <2>3, <2>4 DEF Effect
  <1>8. CASE Send
    <2>1. /\ asked' = asked + 1 /\ dispatchSend(asked + 1, rendered)
          /\ UNCHANGED <<flushing, reset, renderVars, callVars>>
      BY <1>8 DEF Send
    <2>2. /\ queue \in Queues(asked + 1) /\ stored \in Queues(asked + 1)
          /\ rendered \in Renders(asked + 1) /\ asked + 1 \in 1..(asked + 1)
          /\ dropped \subseteq 1..(asked + 1) /\ strays \subseteq 1..(asked + 1)
          /\ staged \subseteq [id : 1..(asked + 1), render : Renders(asked + 1)]
      BY <1>0, TypesGrow
    <2>3. /\ queue' \in Queues(asked + 1) /\ dropped' \subseteq 1..(asked + 1)
          /\ busy' \in Doings /\ active' \in BOOLEAN /\ strays' \subseteq 1..(asked + 1)
      BY <1>0, <2>1, <2>2, DispatchedWindow
    <2> QED BY <1>0, <1>b, <2>1, <2>2, <2>3 DEF renderVars, callVars, WindowTypeOK
  <1>9. CASE TextStaged
    <2>1. PICK t \in staged : staged' = staged \ {t} /\ dispatchSend(t.id, t.render)
      BY <1>9 DEF TextStaged
    <2>2. UNCHANGED <<flushing, asked, reset, renderVars, cancelling, other>>
      BY <1>9 DEF TextStaged
    <2>3. t.id \in 1..asked /\ t.render \in Renders(asked)
      BY <1>0, <2>1
    <2>4. /\ queue' \in Queues(asked) /\ dropped' \subseteq 1..asked
          /\ busy' \in Doings /\ active' \in BOOLEAN /\ strays' \subseteq 1..asked
      BY <1>0, <2>1, <2>3, DispatchedWindow
    <2> QED BY <1>0, <1>b, <2>1, <2>2, <2>4 DEF renderVars, WindowTypeOK
  <1>10. CASE SendText
    <2>1. /\ asked' = asked + 1 /\ staged' = staged \cup {[id |-> asked + 1, render |-> rendered]}
          /\ UNCHANGED <<busy, queue, flushing, active, dropped, strays, reset, renderVars, cancelling, other>>
      BY <1>10 DEF SendText
    <2>2. staged' \subseteq [id : 1..(asked + 1), render : Renders(asked + 1)]
      BY <1>0, <2>1, TypesGrow
    <2>3. dropped \subseteq 1..(asked + 1) /\ strays \subseteq 1..(asked + 1)
      BY <1>0, TypesGrow
    <2> QED BY <1>0, <1>b, <2>1, <2>2, <2>3, WindowKept DEF renderVars
  <1>11. CASE TextFails
    <2>1. PICK t \in staged : staged' = staged \ {t} /\ dropped' = dropped \cup {t.id}
      BY <1>11 DEF TextFails
    <2>2. UNCHANGED <<busy, queue, flushing, active, asked, strays, reset, renderVars, cancelling, other>>
      BY <1>11 DEF TextFails
    <2>3. dropped' \subseteq 1..asked
      BY <1>0, <2>1
    <2> QED BY <1>0, <1>b, <2>1, <2>2, <2>3, WindowKept DEF renderVars
  <1>12. CASE resumeQueuedSendById
    <2>1. PICK i \in DOMAIN rendered.queue : queue' = resumeQueuedSend(queue, rendered.queue[i].id)
      BY <1>12 DEF resumeQueuedSendById
    <2>2. UNCHANGED <<busy, flushing, active, asked, dropped, strays, reset, renderVars, callVars>>
      BY <1>12 DEF resumeQueuedSendById
    <2>3. rendered.queue[i].id \in 1..asked
      BY <1>0, QueueTyped DEF Renders
    <2>4. queue' \in Queues(asked)
      <3> DEFINE e == [id |-> rendered.queue[i].id, paused |-> FALSE]
      <3>1. e \in Entries(asked) /\ e.id = rendered.queue[i].id
        BY <2>3 DEF Entries
      <3> HIDE DEF e
      <3> QED BY <1>0, <2>1, <3>1, QueueChanged
    <2> QED BY <1>0, <1>b, <2>2, <2>4 DEF renderVars, callVars, WindowTypeOK
  <1>13. CASE cancelQueuedSend
    <2>1. PICK I \in SUBSET (DOMAIN queue) : queue' = Keep(queue, I)
      BY <1>13 DEF cancelQueuedSend
    <2>2. UNCHANGED <<busy, flushing, active, asked, strays, reset, renderVars, callVars>>
      BY <1>13 DEF cancelQueuedSend
    <2>3. queue' \in Queues(asked)
      BY <1>0, <2>1, QueueKept
    <2>4. dropped' \subseteq 1..asked
      <3>1. dropped' \subseteq dropped \cup {e.id : e \in ToSet(queue)}
        BY <1>13 DEF cancelQueuedSend
      <3> QED BY <1>0, <3>1, QueueTyped DEF ToSet
    <2> QED BY <1>0, <1>b, <2>2, <2>3, <2>4 DEF renderVars, callVars, WindowTypeOK
  <1>14. CASE clearSendQueue
    <2>1. /\ queue' = <<>> /\ dropped' = dropped \cup {e.id : e \in ToSet(queue)}
          /\ UNCHANGED <<busy, flushing, active, asked, strays, reset, renderVars, callVars>>
      BY <1>14 DEF clearSendQueue
    <2>2. queue' \in Queues(asked)
      BY <2>1, LimitsAssumption DEF Queues
    <2>3. dropped' \subseteq 1..asked
      <3>1. \A e \in ToSet(queue) : e.id \in 1..asked
        BY <1>0, QueueTyped DEF ToSet
      <3> QED BY <1>0, <2>1, <3>1
    <2> QED BY <1>0, <1>b, <2>1, <2>2, <2>3 DEF renderVars, callVars, WindowTypeOK
  <1>15. CASE Pause
    <2> DEFINE e == [id |-> asked + 1, paused |-> TRUE]
    <2>1. /\ asked' = asked + 1 /\ queue' = enqueueSend(queue, e)
          /\ strays' = strays \cup (IF queue' = queue THEN {asked + 1} ELSE {})
          /\ cancelling' = "send" /\ busy' = "cancel"
          /\ UNCHANGED <<reset, flushing, active, dropped, renderVars, staged, other>>
      BY <1>15 DEF Pause
    <2>2. /\ queue \in Queues(asked + 1) /\ stored \in Queues(asked + 1)
          /\ rendered \in Renders(asked + 1) /\ asked + 1 \in 1..(asked + 1)
          /\ dropped \subseteq 1..(asked + 1) /\ strays \subseteq 1..(asked + 1)
          /\ staged \subseteq [id : 1..(asked + 1), render : Renders(asked + 1)]
      BY <1>0, TypesGrow
    <2>3. e \in Entries(asked + 1)
      BY <2>2 DEF Entries
    <2> HIDE DEF e
    <2>4. queue' \in Queues(asked + 1) /\ strays' \subseteq 1..(asked + 1)
      BY <1>0, <2>1, <2>2, <2>3, QueueChanged
    <2> QED BY <1>0, <1>b, <1>d, <2>1, <2>2, <2>4 DEF renderVars, WindowTypeOK
  <1>16. CASE Restart
    <2>1. /\ strays' = strays \cup Astray(queue, stored) \cup {t.id : t \in staged}
          /\ queue' = stored /\ busy' = "none"
          /\ rendered' = [busy |-> "none", queue |-> stored] /\ effect' = TRUE
          /\ flushing' = FALSE /\ active' = FALSE
          /\ staged' = {}
          /\ cancelling' = "no" /\ other' = FALSE /\ UNCHANGED <<asked, dropped, stored, reset>>
      BY <1>16 DEF Restart
    <2>2. Astray(queue, stored) \subseteq 1..asked
      BY <1>0, StraysTyped
    <2>3. rendered' \in Renders(asked)
      BY <1>0, <1>d, <2>1 DEF Renders
    <2>4. strays' \subseteq 1..asked
      BY <1>0, <2>1, <2>2
    <2> QED BY <1>0, <1>b, <1>d, <2>1, <2>3, <2>4 DEF WindowTypeOK
  <1>17. CASE Drop
    <2>1. /\ asked' = asked + 1 /\ active' = TRUE /\ busy' = "send"
          /\ UNCHANGED <<queue, flushing, dropped, strays, reset, renderVars, callVars>>
      BY <1>17 DEF Drop, runSend
    <2>2. /\ dropped \subseteq 1..(asked + 1) /\ strays \subseteq 1..(asked + 1)
          /\ staged \subseteq [id : 1..(asked + 1), render : Renders(asked + 1)]
      BY <1>0, TypesGrow
    <2> QED BY <1>0, <1>b, <1>d, <2>1, <2>2, WindowKept DEF renderVars, callVars
  <1> QED
    BY <1>1, <1>2, <1>3, <1>4, <1>5, <1>6, <1>7, <1>8, <1>9, <1>10, <1>11, <1>12, <1>13, <1>14, <1>15,
       <1>16, <1>17 DEF Next, Progress, Begin

\* Requests go, or wait on while the records change.
LEMMA RequestsKept ==
  ASSUME HistoryTypeOK, lists' \subseteq lists, UNCHANGED <<transfersRefreshSeq, shown>>,
         version' \in {version, version + 1}, history' \in Histories, file' \in Histories,
         editing' \in [at : {"idle", "clear", "done", "failed", "listing"}]
                      \cup [at : {"delete"}, id : RecordIds]
  PROVE  HistoryTypeOK'
  <1>1. version' \in Nat /\ 0..version \subseteq 0..version'
    BY DEF HistoryTypeOK
  <1>2. Requests \subseteq [who : {"poll", "cancel", "job", "edit"} \X Nat, seq : 1..transfersRefreshSeq',
                            answer : 0..version' \cup {None}]
    BY <1>1 DEF Requests
  <1>3. lists' \subseteq Requests' /\ shown' \in 0..version'
    BY <1>1, <1>2 DEF HistoryTypeOK, Requests
  <1> QED BY <1>1, <1>3 DEF HistoryTypeOK

LEMMA RequestAdded ==
  ASSUME HistoryTypeOK, UNCHANGED recordVars, NEW who \in {"poll", "cancel", "job", "edit"} \X Nat, Ask(who),
         editing' \in [at : {"idle", "clear", "done", "failed", "listing"}]
                      \cup [at : {"delete"}, id : RecordIds]
  PROVE  HistoryTypeOK'
  <1> DEFINE new == [who |-> who, seq |-> transfersRefreshSeq + 1, answer |-> None]
  <1>1. /\ transfersRefreshSeq' = transfersRefreshSeq + 1 /\ transfersRefreshSeq' \in Nat
        /\ lists' = lists \cup {new} /\ UNCHANGED <<shown, history, file, version>>
    BY DEF Ask, HistoryTypeOK, recordVars
  <1>2. Requests \subseteq Requests' /\ new \in Requests'
    <2>1. 1..transfersRefreshSeq \subseteq 1..transfersRefreshSeq'
          /\ transfersRefreshSeq + 1 \in 1..transfersRefreshSeq'
      BY <1>1 DEF HistoryTypeOK
    <2> QED BY <1>1, <2>1 DEF Requests
  <1> HIDE DEF new
  <1> QED BY <1>1, <1>2 DEF HistoryTypeOK

LEMMA RequestShown ==
  ASSUME HistoryTypeOK, UNCHANGED recordVars, NEW l \in lists, l.answer # None, Show(l),
         editing' \in [at : {"idle", "clear", "done", "failed", "listing"}]
                      \cup [at : {"delete"}, id : RecordIds]
  PROVE  HistoryTypeOK'
  <1>1. /\ lists' = lists \ {l} /\ transfersRefreshSeq' = transfersRefreshSeq
        /\ UNCHANGED <<history, file, version>>
    BY DEF Show, recordVars
  <1>2. l.answer \in 0..version
    BY DEF HistoryTypeOK, Requests
  <1>3. shown' \in 0..version
    BY <1>2 DEF Show, HistoryTypeOK
  <1>4. Requests' = Requests
    BY <1>1 DEF Requests
  <1> QED BY <1>1, <1>3, <1>4 DEF HistoryTypeOK

LEMMA HistoryStep ==
  ASSUME TypeOK, [Next]_vars
  PROVE  HistoryTypeOK'
  <1> DEFINE Edits == [at : {"idle", "clear", "done", "failed", "listing"}]
                      \cup [at : {"delete"}, id : RecordIds]
  <1>0. /\ HistoryTypeOK /\ history \in Histories /\ file \in Histories /\ editing \in Edits
        /\ version \in Nat /\ version + 1 \in Nat
    BY DEF TypeOK, HistoryTypeOK
  <1>e. Idle \in Edits /\ \A a \in {"idle", "clear", "done", "failed", "listing"} : [at |-> a] \in Edits
    BY DEF Idle
  <1>r. ASSUME NEW r \in Histories, SetHistory(r), UNCHANGED listVars, editing' \in Edits
        PROVE  HistoryTypeOK'
    <2>1. history' \in Histories /\ file' \in Histories /\ version' = version + 1
      BY <1>0, <1>r DEF SetHistory
    <2> QED BY <1>0, <1>r, <2>1, RequestsKept DEF listVars
  <1>n. ASSUME UNCHANGED <<listVars, recordVars>>, editing' \in Edits PROVE HistoryTypeOK'
    BY <1>0, <1>n, RequestsKept DEF listVars, recordVars
  <1>a. ASSUME NEW who \in {"poll", "cancel", "job", "edit"} \X Nat, Ask(who), UNCHANGED recordVars,
               editing' \in Edits
        PROVE  HistoryTypeOK'
    BY <1>0, <1>a, RequestAdded
  <1>s. ASSUME NEW l \in lists, l.answer # None, Show(l), UNCHANGED recordVars, editing' \in Edits
        PROVE  HistoryTypeOK'
    BY <1>0, <1>s, RequestShown
  <1> HIDE DEF Edits
  <1>1. ASSUME NEW j \in DOMAIN jobs, JobStep(j) PROVE HistoryTypeOK'
    <2>0. editing' = editing
      BY <1>1 DEF JobStep, PlanFails, Claim, Retry, SendEnds, Record, JobAnswered, JobEnds, callVars
    <2>1. CASE PlanFails(j) \/ Claim(j) \/ Retry(j) \/ SendEnds(j)
      BY <1>0, <1>n, <2>0, <2>1 DEF PlanFails, Claim, Retry, SendEnds
    <2>2. CASE Record(j)
      <3> DEFINE r == [id |-> jobs[j].record, updated |-> jobs[j].updated]
      <3>1. jobs[j] \in Jobs(asked)
        BY DEF TypeOK, CommandsTypeOK
      <3>2. r \in Records
        BY <3>1 DEF Jobs, Records, RecordIds
      <3>3. SetHistory(Pushed(r)) /\ UNCHANGED listVars
        BY <2>2 DEF Record
      <3> HIDE DEF r
      <3>4. Pushed(r) \in Histories
        BY <1>0, <3>2, RecordPushed
      <3> QED BY <1>0, <1>r, <2>0, <3>3, <3>4
    <2>3. CASE JobAnswered(j)
      <3>1. <<"job", j>> \in {"poll", "cancel", "job", "edit"} \X Nat
        BY DEF TypeOK, CommandsTypeOK
      <3>2. UNCHANGED recordVars /\ (UNCHANGED listVars \/ Ask(<<"job", j>>))
        BY <2>3 DEF JobAnswered
      <3> QED BY <1>0, <1>a, <1>n, <2>0, <3>1, <3>2
    <2>4. CASE JobEnds(j)
      <3>1. UNCHANGED recordVars /\ \E l \in lists : l.answer # None /\ Show(l)
        BY <2>4 DEF JobEnds
      <3> QED BY <1>0, <1>s, <2>0, <3>1
    <2> QED BY <1>1, <2>1, <2>2, <2>3, <2>4 DEF JobStep
  <1>2. CASE Render \/ Effect \/ TextStaged \/ TextFails \/ CancelFails \/ OtherEnds \/ Send \/ Drop
             \/ SendText \/ resumeQueuedSendById \/ cancelQueuedSend \/ clearSendQueue \/ BridgeSend
             \/ resendTransfer \/ Cancel \/ Pause \/ OtherBegins \/ UNCHANGED vars
    <2>1. editing' = editing /\ UNCHANGED <<listVars, recordVars>>
      BY <1>2 DEF Render, Effect, TextStaged, TextFails, CancelFails, OtherEnds, Send, Drop, SendText,
         resumeQueuedSendById, cancelQueuedSend, clearSendQueue, BridgeSend, resendTransfer, Cancel, Pause,
         OtherBegins, vars, callVars
    <2> QED BY <1>0, <1>n, <2>1
  <1>3. CASE ListRuns
    <2>1. PICK l \in lists : lists' = (lists \ {l}) \cup {[l EXCEPT !.answer = version]}
      BY <1>3 DEF ListRuns
    <2>2. UNCHANGED <<transfersRefreshSeq, shown, recordVars>> /\ editing' = editing
      BY <1>3 DEF ListRuns, callVars
    <2>3. version \in 0..version /\ l \in Requests
      BY <1>0, <2>1 DEF HistoryTypeOK
    <2>4. [l EXCEPT !.answer = version] \in Requests
      BY <2>3 DEF Requests
    <2>5. Requests' = Requests
      BY <2>2 DEF Requests, recordVars
    <2>6. lists' \subseteq Requests
      BY <1>0, <2>1, <2>4 DEF HistoryTypeOK
    <2>7. lists' \subseteq Requests'
      BY <2>5, <2>6
    <2> HIDE DEF Requests
    <2> QED BY <1>0, <2>2, <2>7 DEF HistoryTypeOK, recordVars
  <1>4. CASE PollEnds \/ EditEnds
    <2>1. UNCHANGED recordVars /\ \E l \in lists : l.answer # None /\ Show(l)
      BY <1>4 DEF PollEnds, EditEnds
    <2>2. editing' \in Edits
      BY <1>0, <1>4, <1>e DEF PollEnds, EditEnds, callVars
    <2> QED BY <1>s, <2>1, <2>2
  <1>5. CASE CancelEnds
    <2>1. /\ UNCHANGED recordVars /\ editing' = editing
          /\ UNCHANGED listVars \/ \E l \in lists : l.answer # None /\ Show(l)
      BY <1>5 DEF CancelEnds
    <2> QED BY <1>0, <1>n, <1>s, <2>1
  <1>6. CASE PollFails
    <2>1. /\ lists' \subseteq lists /\ UNCHANGED <<transfersRefreshSeq, shown, recordVars>>
          /\ editing' = editing
      BY <1>6 DEF PollFails, callVars
    <2> QED BY <1>0, <2>1, RequestsKept DEF recordVars, Edits
  <1>7. CASE CancelRuns
    <2>1. /\ UNCHANGED recordVars /\ editing' = editing
          /\ UNCHANGED listVars \/ Ask(<<"cancel", 0>>)
      BY <1>7 DEF CancelRuns
    <2>2. <<"cancel", 0>> \in {"poll", "cancel", "job", "edit"} \X Nat
      OBVIOUS
    <2> QED BY <1>0, <1>a, <1>n, <2>1, <2>2
  <1>8. CASE Poll
    <2>1. UNCHANGED recordVars /\ editing' = editing /\ Ask(<<"poll", 0>>)
      BY <1>8 DEF Poll, callVars
    <2>2. <<"poll", 0>> \in {"poll", "cancel", "job", "edit"} \X Nat
      OBVIOUS
    <2> QED BY <1>0, <1>a, <2>1, <2>2
  <1>9. CASE EditLists
    <2>1. UNCHANGED recordVars /\ editing' = [at |-> "listing"] /\ Ask(<<"edit", 0>>)
      BY <1>9 DEF EditLists
    <2>2. <<"edit", 0>> \in {"poll", "cancel", "job", "edit"} \X Nat
      OBVIOUS
    <2> QED BY <1>a, <1>e, <2>1, <2>2
  <1>10. CASE EditRuns
    <2>1. UNCHANGED listVars /\ \E r : SetHistory(r) /\ r \in {<<>>, Others(editing.id)}
      BY <1>10 DEF EditRuns
    <2>2. <<>> \in Histories /\ Others(editing.id) \in Histories
      BY <1>0, LimitsAssumption, RecordsKept DEF Histories
    <2>3. editing' \in Edits
      BY <1>10, <1>e DEF EditRuns
    <2> QED BY <1>r, <2>1, <2>2, <2>3
  <1>11. CASE EditFails
    <2>1. UNCHANGED <<listVars, recordVars>> /\ editing' = Idle
      BY <1>11 DEF EditFails
    <2> QED BY <1>e, <1>n, <2>1
  <1>12. CASE Edit
    <2>1. UNCHANGED <<listVars, recordVars>>
      BY <1>12 DEF Edit
    <2>2. editing' \in Edits
      <3>1. history \in Seq(Records)
        BY <1>0 DEF Histories
      <3>2. \A i \in DOMAIN history : history[i].id \in RecordIds
        <4>1. \A i \in DOMAIN history : history[i] \in Records
          BY <3>1
        <4> QED BY <4>1 DEF Records
      <3> QED BY <1>12, <1>e, <3>2 DEF Edit, Edits
    <2> QED BY <1>n, <2>1, <2>2
  <1>13. CASE ReceiveRecorded
    <2> DEFINE r == [id |-> <<"receive", version>>, updated |-> now_ms]
    <2>1. now_ms \in Nat
      BY <1>0, ClockTicks DEF TypeOK, CommandsTypeOK
    <2>2. r \in Records
      BY <1>0, <2>1 DEF Records, RecordIds
    <2>3. SetHistory(Pushed(r)) /\ UNCHANGED listVars /\ editing' = editing
      BY <1>13 DEF ReceiveRecorded, callVars
    <2> HIDE DEF r
    <2>4. Pushed(r) \in Histories
      BY <1>0, <2>2, RecordPushed
    <2> QED BY <1>0, <1>r, <2>3, <2>4
  <1>14. CASE Restart
    <2>1. /\ lists' = {} /\ transfersRefreshSeq' = 0 /\ shown' = 0 /\ history' = file
          /\ editing' = Idle /\ UNCHANGED <<file, version>>
      BY <1>14 DEF Restart
    <2> QED BY <1>0, <1>e, <2>1 DEF HistoryTypeOK, Edits
  <1> QED
    BY <1>1, <1>2, <1>3, <1>4, <1>5, <1>6, <1>7, <1>8, <1>9, <1>10, <1>11, <1>12, <1>13, <1>14
       DEF Next, Progress, Begin

LEMMA TypeStep == TypeOK /\ [Next]_vars => TypeOK'
  BY LeftStep, WindowStep, CommandsStep, HistoryStep DEF TypeOK

-----------------------------------------------------------------------------
(* The entries.                                                             *)

\* One place, counted.
LEMMA OnePlace ==
  ASSUME TypeOK, QueuesApart, EntriesApart, NEW e \in (1..asked) \ strays
  PROVE  Places(e) = 1
  <1> DEFINE Q == {i \in DOMAIN queue : queue[i].id = e}
             T == {t \in staged : t.id = e}
             J == {j \in DOMAIN jobs : jobs[j].entry = e}
             D == {e} \cap dropped
  <1>0. Settled(e)
    BY DEF EntriesApart
  <1>1. Waits(e) <=> Q # {}
    BY DEF Waits, Ids
  <1>2. IsText(e) <=> T # {}
    BY DEF IsText
  <1>3. IsSent(e) <=> J # {}
    BY DEF IsSent
  <1>5. \A x, y \in Q : x = y
    BY DEF QueuesApart, Known, Distinct
  <1>6. \A x, y \in T : x = y
    BY DEF QueuesApart
  <1>7. \A x, y \in J : x = y
    BY <1>0 DEF Settled, Once
  <1>8. \A x, y \in D : x = y
    OBVIOUS
  <1>9. \A S : (\A x, y \in S : x = y) => Cardinality(S) = IF S = {} THEN 0 ELSE 1
    <2> SUFFICES ASSUME NEW S, \A x, y \in S : x = y
                 PROVE  Cardinality(S) = IF S = {} THEN 0 ELSE 1
      OBVIOUS
    <2>1. CASE S = {}
      BY <2>1, FS_EmptySet
    <2>2. CASE S # {}
      <3>1. PICK x \in S : S = {x}
        BY <2>2
      <3> QED BY <2>2, <3>1, FS_Singleton
    <2> QED BY <2>1, <2>2
  <1>10. Places(e) = Cardinality(Q) + Cardinality(T) + Cardinality(J) + Cardinality(D)
    BY DEF Places
  <1>11. D # {} <=> e \in dropped
    OBVIOUS
  <1> HIDE DEF Q, T, J, D
  <1>12. /\ Cardinality(Q) = IF Q = {} THEN 0 ELSE 1
         /\ Cardinality(T) = IF T = {} THEN 0 ELSE 1
         /\ Cardinality(J) = IF J = {} THEN 0 ELSE 1
         /\ Cardinality(D) = IF D = {} THEN 0 ELSE 1
    BY <1>5, <1>6, <1>7, <1>8, <1>9
  <1>13. /\ Q # {} \/ T # {} \/ J # {} \/ D # {}
         /\ Q # {} => T = {} /\ J = {} /\ D = {}
         /\ T # {} => J = {} /\ D = {}
         /\ J # {} => D = {}
    BY <1>0, <1>1, <1>2, <1>3, <1>11 DEF Settled
  <1> QED BY <1>10, <1>12, <1>13

LEMMA EntriesInit == Init => QueuesApart /\ EntriesApart
  <1> SUFFICES ASSUME Init PROVE QueuesApart /\ EntriesApart
    OBVIOUS
  <1>1. queue = [i \in 1..asked |-> [id |-> i, paused |-> FALSE]]
    BY DEF Init, loadSendQueue
  <1>2. DOMAIN queue = 1..asked /\ \A i \in 1..asked : queue[i].id = i
    BY <1>1
  <1>3. staged = {} /\ dropped = {} /\ DOMAIN jobs = {} /\ stored = queue /\ rendered.queue = queue
    BY DEF Init
  <1>4. Distinct(queue)
    BY <1>2 DEF Distinct
  <1>5. QueuesApart
    BY <1>3, <1>4 DEF QueuesApart, Known
  <1>6. EntriesApart
    BY <1>2, <1>3 DEF EntriesApart, Settled, Once, Waits, Ids, IsText, IsSent
  <1> QED BY <1>5, <1>6

\* What is kept of a queue is in it once, as before.
LEMMA KeptApart ==
  ASSUME NEW n \in Nat, NEW q \in Queues(n), NEW I \in SUBSET (DOMAIN q), Distinct(q)
  PROVE  /\ Distinct(Keep(q, I))
         /\ \A e : e \in Ids(Keep(q, I)) <=> \E i \in I : q[i].id = e
  <1>1. q \in Seq(Entries(n)) /\ DOMAIN q = 1..Len(q) /\ Len(q) \in Nat
    BY QueueTyped
  <1> DEFINE t == Keep(q, I)
             at == [k \in DOMAIN t |-> Nth(I, k)]
  <1>2. /\ t \in Seq(Entries(n))
        /\ \A k \in DOMAIN t : at[k] \in I /\ t[k] = q[at[k]]
        /\ \A i, k \in DOMAIN t : i < k => at[i] < at[k]
        /\ \A i \in I : \E k \in DOMAIN t : at[k] = i
    BY <1>1, KeepLists
  <1> HIDE DEF t, at
  <1>3. \A i, k \in DOMAIN t : at[i] = at[k] => i = k
    <2>1. \A k \in DOMAIN t : k \in Nat /\ at[k] \in Nat
      BY <1>1, <1>2
    <2> QED BY <1>2, <2>1
  <1>4. Distinct(t)
    BY <1>2, <1>3 DEF Distinct
  <1>5. \A e : e \in Ids(t) <=> \E i \in I : q[i].id = e
    BY <1>2 DEF Ids
  <1> QED BY <1>4, <1>5 DEF t

\* The new one is at the end of a queue, unless the queue is full.
LEMMA QueuedLast ==
  ASSUME NEW n \in Nat, NEW q \in Queues(n), NEW x, ~(Len(q) >= MAX_SEND_QUEUE)
  PROVE  /\ enqueueSend(q, x) # q
         /\ \A e : e \in Ids(enqueueSend(q, x)) <=> e \in Ids(q) \/ x.id = e
         /\ Distinct(q) /\ x.id \notin Ids(q) => Distinct(enqueueSend(q, x))
  <1> DEFINE t == enqueueSend(q, x)
  <1>1. q \in Seq(Entries(n)) /\ Len(q) \in Nat /\ DOMAIN q = 1..Len(q) /\ t = Append(q, x)
    BY QueueTyped DEF enqueueSend
  <1>2. /\ DOMAIN t = DOMAIN q \cup {Len(q) + 1} /\ Len(q) + 1 \notin DOMAIN q
        /\ t[Len(q) + 1] = x /\ \A i \in DOMAIN q : t[i] = q[i]
    BY <1>1
  <1> HIDE DEF t
  <1>3. t # q
    BY <1>2
  <1>4. \A e : e \in Ids(t) <=> e \in Ids(q) \/ x.id = e
    BY <1>2 DEF Ids
  <1>5. ASSUME Distinct(q), x.id \notin Ids(q) PROVE Distinct(t)
    BY <1>2, <1>5 DEF Distinct, Ids
  <1> QED BY <1>3, <1>4, <1>5 DEF t

\* A full queue stays.
LEMMA QueuedFull ==
  ASSUME NEW q, NEW x, Len(q) >= MAX_SEND_QUEUE
  PROVE  enqueueSend(q, x) = q
  BY DEF enqueueSend

\* Resuming moves no entry.
LEMMA QueueResumed ==
  ASSUME NEW n \in Nat, NEW q \in Queues(n), NEW id, Distinct(q)
  PROVE  Distinct(resumeQueuedSend(q, id)) /\ Ids(resumeQueuedSend(q, id)) = Ids(q)
  <1> DEFINE t == resumeQueuedSend(q, id)
  <1>1. \A x \in Entries(n) : [x EXCEPT !.paused = FALSE].id = x.id
    BY DEF Entries
  <1>2. \A i \in DOMAIN q : q[i] \in Entries(n)
    BY QueueTyped
  <1>3. DOMAIN t = DOMAIN q /\ \A i \in DOMAIN q : t[i].id = q[i].id
    BY <1>1, <1>2 DEF resumeQueuedSend
  <1> HIDE DEF t
  <1>4. Distinct(t) /\ Ids(t) = Ids(q)
    BY <1>3 DEF Distinct, Ids
  <1> QED BY <1>4 DEF t

\* Steps that make no queue but perhaps one, and begin no text.
LEMMA QueuesKept ==
  ASSUME QueuesApart, staged' \subseteq staged, NEW r, Distinct(r),
         \A t \in staged : t.id \notin Ids(r), \A q \in Known' : q \in Known \/ q = r
  PROVE  QueuesApart'
  BY DEF QueuesApart

LEMMA QueuesSame ==
  ASSUME QueuesApart, staged' \subseteq staged, Known' \subseteq Known
  PROVE  QueuesApart'
  BY DEF QueuesApart

\* The queues of the window, and its texts.
LEMMA WindowQueues ==
  ASSUME TypeOK
  PROVE  /\ asked \in Nat /\ \A q \in Known : q \in Queues(asked)
         /\ \A q \in Known : \A e \in Ids(q) : e \in 1..asked
         /\ \A t \in staged : t.id \in 1..asked /\ t.render.queue \in Known
         /\ queue \in Known /\ rendered.queue \in Known /\ stored \in Known
  <1>1. asked \in Nat /\ \A q \in Known : q \in Queues(asked)
    BY DEF TypeOK, WindowTypeOK, Known, Renders
  <1>2. \A q \in Known : \A i \in DOMAIN q : q[i].id \in 1..asked
    BY <1>1, QueueTyped
  <1>3. \A t \in staged : t.id \in 1..asked
    BY DEF TypeOK, WindowTypeOK
  <1> QED BY <1>1, <1>2, <1>3 DEF Known, Ids

\* A handler sends or queues: the new queue is apart from the texts that are still staged.
LEMMA DispatchedQueues ==
  ASSUME TypeOK, QueuesApart, NEW id, NEW render, render.queue \in Known, dispatchSend(id, render),
         UNCHANGED <<stored, rendered>>, staged' \subseteq staged,
         id \notin Ids(render.queue), \A t \in staged' : t.id # id
  PROVE  QueuesApart'
  <1>1. CASE queue' = queue
    <2>1. Known' \subseteq Known
      BY <1>1 DEF Known
    <2> QED BY <2>1, QueuesSame
  <1>2. CASE queue' = enqueueSend(render.queue, [id |-> id, paused |-> FALSE])
             /\ ~(Len(render.queue) >= MAX_SEND_QUEUE)
    <2> DEFINE x == [id |-> id, paused |-> FALSE]
    <2>1. x.id = id /\ queue' = enqueueSend(render.queue, x)
      BY <1>2
    <2> HIDE DEF x
    <2>2. asked \in Nat /\ render.queue \in Queues(asked) /\ Distinct(render.queue)
      BY WindowQueues DEF QueuesApart
    <2>3. /\ Distinct(enqueueSend(render.queue, x))
          /\ \A e : e \in Ids(enqueueSend(render.queue, x)) <=> e \in Ids(render.queue) \/ x.id = e
      BY <1>2, <2>1, <2>2, QueuedLast
    <2>4. Distinct(queue') /\ \A t \in staged' : t.id \notin Ids(queue')
      BY <2>1, <2>3 DEF QueuesApart
    <2>5. \A q \in Known' : q \in Known \/ q = queue'
      BY DEF Known
    <2>6. \A q \in Known' : Distinct(q) /\ \A t \in staged' : t.id \notin Ids(q)
      BY <2>4, <2>5 DEF QueuesApart
    <2> QED BY <2>6 DEF QueuesApart
  <1> QED BY <1>1, <1>2 DEF dispatchSend

LEMMA QueuesStep ==
  ASSUME TypeOK, QueuesApart, [Next]_vars
  PROVE  QueuesApart'
  <1>0. /\ asked \in Nat /\ \A q \in Known : q \in Queues(asked)
        /\ \A q \in Known : \A e \in Ids(q) : e \in 1..asked
        /\ \A t \in staged : t.id \in 1..asked /\ t.render.queue \in Known
        /\ queue \in Known /\ rendered.queue \in Known /\ stored \in Known
        /\ asked + 1 \notin 1..asked
    BY WindowQueues
  <1>n. ASSUME UNCHANGED <<queue, stored, rendered, staged>> PROVE QueuesApart'
    BY <1>n DEF QueuesApart, Known
  <1>r. ASSUME UNCHANGED <<stored, rendered, staged>>, Distinct(queue'),
               \A e \in Ids(queue') : e \in Ids(queue) \/ e \notin 1..asked
        PROVE  QueuesApart'
    <2>1. \A q \in Known' : q \in Known \/ q = queue'
      BY <1>r DEF Known
    <2>2. \A t \in staged : t.id \notin Ids(queue')
      BY <1>0, <1>r DEF QueuesApart
    <2> QED BY <1>r, <2>1, <2>2, QueuesKept
  <1>1. ASSUME NEW j \in DOMAIN jobs, JobStep(j) PROVE QueuesApart'
    BY <1>1, <1>n DEF JobStep, PlanFails, Claim, Retry, SendEnds, Record, JobAnswered, JobEnds,
       queueVars, renderVars, callVars
  <1>2. CASE \/ ListRuns \/ PollEnds \/ PollFails \/ CancelFails \/ CancelEnds \/ EditRuns
             \/ EditFails \/ EditLists \/ EditEnds \/ OtherEnds \/ ReceiveRecorded \/ Poll \/ Cancel
             \/ CancelRuns \/ BridgeSend \/ resendTransfer \/ Edit \/ OtherBegins \/ Drop
             \/ UNCHANGED vars
    BY <1>2, <1>n DEF ListRuns, PollEnds, PollFails, CancelFails, CancelEnds, EditRuns, EditFails,
       EditLists, EditEnds, OtherEnds, ReceiveRecorded, Poll, Cancel, CancelRuns, BridgeSend,
       resendTransfer, Edit, OtherBegins, Drop, queueVars, renderVars, callVars, vars
  <1>3. CASE Render
    <2>1. UNCHANGED <<queue, stored, staged>> /\ rendered'.queue = queue
      BY <1>3 DEF Render, queueVars, callVars
    <2>2. Known' \subseteq Known
      BY <2>1 DEF Known
    <2> QED BY <2>1, <2>2, QueuesSame
  <1>4. CASE Effect
    <2>1. stored' = rendered.queue /\ UNCHANGED <<rendered, staged>>
      BY <1>4 DEF Effect, callVars
    <2>2. CASE queue' = queue
      <3>1. Known' \subseteq Known
        BY <2>1, <2>2 DEF Known
      <3> QED BY <2>1, <3>1, QueuesSame
    <2> DEFINE next == dequeueSend(rendered.queue)
    <2>3. CASE next.head # None /\ queue' = next.rest
      <3>1. PICK i \in DOMAIN rendered.queue : next.rest = Keep(rendered.queue, DOMAIN rendered.queue \ {i})
        BY <1>0, <2>3, QueueTaken
      <3> DEFINE I == DOMAIN rendered.queue \ {i}
      <3>2. I \in SUBSET (DOMAIN rendered.queue) /\ queue' = Keep(rendered.queue, I)
        BY <2>3, <3>1
      <3> HIDE DEF I
      <3>3. Distinct(queue') /\ Ids(queue') \subseteq Ids(rendered.queue)
        <4>1. rendered.queue \in Queues(asked) /\ Distinct(rendered.queue)
          BY <1>0 DEF QueuesApart
        <4>2. /\ Distinct(Keep(rendered.queue, I))
              /\ \A e : e \in Ids(Keep(rendered.queue, I)) <=> \E k \in I : rendered.queue[k].id = e
          BY <1>0, <3>2, <4>1, KeptApart
        <4>3. \A e \in Ids(Keep(rendered.queue, I)) : e \in Ids(rendered.queue)
          BY <3>2, <4>2 DEF Ids
        <4> QED BY <3>2, <4>2, <4>3
      <3>4. \A t \in staged : t.id \notin Ids(queue')
        BY <1>0, <3>3 DEF QueuesApart
      <3>5. \A q \in Known' : q \in Known \/ q = queue'
        BY <2>1 DEF Known
      <3> QED BY <2>1, <3>3, <3>4, <3>5, QueuesKept
    <2> QED BY <1>4, <2>2, <2>3 DEF Effect
  <1>5. CASE Send
    <2>1. dispatchSend(asked + 1, rendered) /\ UNCHANGED <<stored, rendered, staged>>
      BY <1>5 DEF Send, renderVars, callVars
    <2>2. asked + 1 \notin Ids(rendered.queue) /\ \A t \in staged' : t.id # asked + 1
      BY <1>0, <2>1
    <2> QED BY <1>0, <2>1, <2>2, DispatchedQueues
  <1>6. CASE TextStaged
    <2>1. PICK t \in staged : staged' = staged \ {t} /\ dispatchSend(t.id, t.render)
      BY <1>6 DEF TextStaged
    <2>2. UNCHANGED <<stored, rendered>>
      BY <1>6 DEF TextStaged, renderVars
    <2>3. t.id \notin Ids(t.render.queue) /\ \A u \in staged' : u.id # t.id
      BY <1>0, <2>1 DEF QueuesApart
    <2> QED BY <1>0, <2>1, <2>2, <2>3, DispatchedQueues
  <1>7. CASE TextFails
    <2>1. staged' \subseteq staged /\ UNCHANGED <<queue, stored, rendered>>
      BY <1>7 DEF TextFails, renderVars
    <2>2. Known' \subseteq Known
      BY <2>1 DEF Known
    <2> QED BY <2>1, <2>2, QueuesSame
  <1>8. CASE SendText
    <2>1. /\ staged' = staged \cup {[id |-> asked + 1, render |-> rendered]}
          /\ UNCHANGED <<queue, stored, rendered>>
      BY <1>8 DEF SendText, renderVars
    <2>2. Known' \subseteq Known
      BY <2>1 DEF Known
    <2>3. \A q \in Known : asked + 1 \notin Ids(q)
      BY <1>0
    <2>4. \A t \in staged : t.id # asked + 1
      BY <1>0
    <2> QED BY <2>1, <2>2, <2>3, <2>4 DEF QueuesApart
  <1>9. CASE resumeQueuedSendById
    <2>1. PICK id : queue' = resumeQueuedSend(queue, id)
      BY <1>9 DEF resumeQueuedSendById
    <2>2. UNCHANGED <<stored, rendered, staged>>
      BY <1>9 DEF resumeQueuedSendById, renderVars, callVars
    <2>3. Distinct(queue') /\ Ids(queue') = Ids(queue)
      BY <1>0, <2>1, QueueResumed DEF QueuesApart
    <2> QED BY <1>r, <2>2, <2>3
  <1>10. CASE cancelQueuedSend
    <2>1. PICK I \in SUBSET (DOMAIN queue) : queue' = Keep(queue, I)
      BY <1>10 DEF cancelQueuedSend
    <2>2. UNCHANGED <<stored, rendered, staged>>
      BY <1>10 DEF cancelQueuedSend, renderVars, callVars
    <2>3. /\ Distinct(Keep(queue, I))
          /\ \A e : e \in Ids(Keep(queue, I)) <=> \E k \in I : queue[k].id = e
      BY <1>0, KeptApart DEF QueuesApart
    <2>4. \A e \in Ids(Keep(queue, I)) : e \in Ids(queue)
      BY <2>3 DEF Ids
    <2> QED BY <1>r, <2>1, <2>2, <2>3, <2>4
  <1>11. CASE clearSendQueue
    <2>1. queue' = <<>> /\ UNCHANGED <<stored, rendered, staged>>
      BY <1>11 DEF clearSendQueue, renderVars, callVars
    <2>2. Distinct(queue') /\ Ids(queue') = {}
      BY <2>1 DEF Distinct, Ids
    <2> QED BY <1>r, <2>1, <2>2
  <1>12. CASE Pause
    <2> DEFINE x == [id |-> asked + 1, paused |-> TRUE]
    <2>1. queue' = enqueueSend(queue, x) /\ UNCHANGED <<stored, rendered, staged>>
      BY <1>12 DEF Pause, renderVars
    <2>2. x.id = asked + 1
      OBVIOUS
    <2> HIDE DEF x
    <2>3. CASE Len(queue) >= MAX_SEND_QUEUE
      BY <1>n, <2>1, <2>3, QueuedFull
    <2>4. CASE ~(Len(queue) >= MAX_SEND_QUEUE)
      <3>1. asked + 1 \notin Ids(queue) /\ Distinct(queue)
        BY <1>0 DEF QueuesApart
      <3>2. /\ Distinct(enqueueSend(queue, x))
            /\ \A e : e \in Ids(enqueueSend(queue, x)) <=> e \in Ids(queue) \/ x.id = e
        BY <1>0, <2>2, <2>4, <3>1, QueuedLast
      <3> QED BY <1>0, <1>r, <2>1, <2>2, <3>2
    <2> QED BY <2>3, <2>4
  <1>13. CASE Restart
    <2>1. queue' = stored /\ rendered'.queue = stored /\ stored' = stored /\ staged' = {}
      BY <1>13 DEF Restart
    <2>2. Known' \subseteq Known
      BY <2>1 DEF Known
    <2> QED BY <2>1, <2>2, QueuesSame
  <1> QED
    BY <1>1, <1>2, <1>3, <1>4, <1>5, <1>6, <1>7, <1>8, <1>9, <1>10, <1>11, <1>12, <1>13
       DEF Next, Progress, Begin

\* The commands go on, and no entry moves.
LEMMA EntriesStay ==
  ASSUME EntriesApart, UNCHANGED <<queue, staged, asked, dropped>>, strays \subseteq strays',
         DOMAIN jobs' = DOMAIN jobs, \A j \in DOMAIN jobs : jobs'[j].entry = jobs[j].entry
  PROVE  EntriesApart'
  <1>1. \A e : /\ Waits(e)' <=> Waits(e)
               /\ IsText(e)' <=> IsText(e)
               /\ IsSent(e)' <=> IsSent(e)
               /\ Once(e)' <=> Once(e)
    BY DEF Waits, Ids, IsText, IsSent, Once
  <1> QED BY <1>1 DEF EntriesApart, Settled

\* The window or the history begins a command.
LEMMA SentMore ==
  ASSUME TypeOK, NEW entry, NEW from, NEW record, jobs' = Append(jobs, Job(entry, from, record))
  PROVE  \A e : /\ IsSent(e)' <=> IsSent(e) \/ e = entry
                /\ Once(e) /\ (e = entry => ~IsSent(e)) => Once(e)'
  <1>1. jobs \in Seq(Jobs(asked)) /\ Len(jobs) \in Nat /\ DOMAIN jobs = 1..Len(jobs)
    BY DEF TypeOK, CommandsTypeOK
  <1>2. Job(entry, from, record).entry = entry
    BY DEF Job
  <1>3. /\ DOMAIN jobs' = DOMAIN jobs \cup {Len(jobs) + 1} /\ Len(jobs) + 1 \notin DOMAIN jobs
        /\ jobs'[Len(jobs) + 1] = Job(entry, from, record)
        /\ \A j \in DOMAIN jobs : jobs'[j] = jobs[j]
    BY <1>1
  <1>4. \A e : IsSent(e)' <=> IsSent(e) \/ e = entry
    BY <1>2, <1>3 DEF IsSent
  <1>5. ASSUME NEW e, Once(e), e = entry => ~IsSent(e) PROVE Once(e)'
    BY <1>2, <1>3, <1>5 DEF Once, IsSent
  <1> QED BY <1>4, <1>5

\* A command of somebody else's.
LEMMA EntriesStayBeside ==
  ASSUME TypeOK, EntriesApart, UNCHANGED <<queue, staged, asked, dropped, strays>>, NEW from, NEW record,
         jobs' = Append(jobs, Job(None, from, record))
  PROVE  EntriesApart'
  <1>1. \A e : /\ IsSent(e)' <=> IsSent(e) \/ e = None
               /\ Once(e) /\ (e = None => ~IsSent(e)) => Once(e)'
    BY SentMore
  <1>2. \A e : (Waits(e)' <=> Waits(e)) /\ (IsText(e)' <=> IsText(e))
    BY DEF Waits, Ids, IsText
  <1>3. \A e \in 1..asked : e # None
    BY NoneAssumption DEF TypeOK, WindowTypeOK
  <1> QED BY <1>1, <1>2, <1>3 DEF EntriesApart, Settled

\* A command of an entry that is nowhere, beside the queue.
LEMMA EntrySent ==
  ASSUME TypeOK, EntriesApart, NEW id, id \notin 1..asked, (1..asked)' = (1..asked) \cup {id},
         UNCHANGED <<queue, staged, dropped, strays>>, NEW from, NEW record,
         ~Waits(id), ~IsText(id), ~IsSent(id), id \notin dropped,
         jobs' = Append(jobs, Job(id, from, record))
  PROVE  EntriesApart'
  <1>1. \A e : /\ IsSent(e)' <=> IsSent(e) \/ e = id
               /\ Once(e) /\ (e = id => ~IsSent(e)) => Once(e)'
    BY SentMore
  <1>2. \A e : (Waits(e)' <=> Waits(e)) /\ (IsText(e)' <=> IsText(e))
    BY DEF Waits, Ids, IsText
  <1>3. Once(id)
    BY DEF Once, IsSent
  <1> QED BY <1>1, <1>2, <1>3 DEF EntriesApart, Settled

\* An entry that is nowhere is sent, queued or refused; every other one stays where it is, or goes
\* astray because the handler's queue is older than the newest.
LEMMA DispatchedApart ==
  ASSUME TypeOK, QueuesApart, NEW id, NEW render, render.queue \in Known, dispatchSend(id, render),
         id \notin Ids(queue), id \notin Ids(render.queue)
  PROVE  /\ strays \subseteq strays'
         /\ \A e : e # id /\ e \notin strays' =>
               /\ Waits(e)' <=> Waits(e)
               /\ IsSent(e)' <=> IsSent(e)
               /\ e \in dropped' <=> e \in dropped
               /\ Once(e) => Once(e)'
         /\ ~IsSent(id) /\ id \notin dropped =>
               /\ Once(id)'
               /\ \/ Waits(id)' /\ ~IsSent(id)' /\ id \notin dropped'
                  \/ ~Waits(id)' /\ IsSent(id)' /\ id \notin dropped'
                  \/ ~Waits(id)' /\ ~IsSent(id)' /\ id \in dropped'
  <1>0. ~IsSent(id) => Once(id)
    BY DEF Once, IsSent
  <1>1. CASE render.busy = "none"
    <2>1. jobs' = Append(jobs, Job(id, "direct", NewRecord)) /\ UNCHANGED <<queue, dropped, strays>>
      BY <1>1 DEF dispatchSend, runSend
    <2>2. \A e : /\ IsSent(e)' <=> IsSent(e) \/ e = id
                 /\ Once(e) /\ (e = id => ~IsSent(e)) => Once(e)'
      BY <2>1, SentMore
    <2>3. \A e : Waits(e)' <=> Waits(e)
      BY <2>1 DEF Waits
    <2>4. ~Waits(id)
      BY DEF Waits
    <2> QED BY <1>0, <2>1, <2>2, <2>3, <2>4
  <1>2. CASE render.busy # "none" /\ Len(render.queue) >= MAX_SEND_QUEUE
    <2>1. dropped' = dropped \cup {id} /\ UNCHANGED <<queue, jobs, strays>>
      BY <1>2 DEF dispatchSend
    <2>2. \A e : (Waits(e)' <=> Waits(e)) /\ (IsSent(e)' <=> IsSent(e)) /\ (Once(e)' <=> Once(e))
      BY <2>1 DEF Waits, IsSent, Once
    <2>3. ~Waits(id)
      BY DEF Waits
    <2> QED BY <1>0, <2>1, <2>2, <2>3
  <1>3. CASE render.busy # "none" /\ ~(Len(render.queue) >= MAX_SEND_QUEUE)
    <2> DEFINE x == [id |-> id, paused |-> FALSE]
    <2>1. /\ queue' = enqueueSend(render.queue, x)
          /\ strays' = strays \cup Astray(queue, render.queue)
          /\ UNCHANGED <<dropped, jobs>>
      BY <1>3 DEF dispatchSend
    <2>2. x.id = id
      OBVIOUS
    <2> HIDE DEF x
    <2>3. \A e : e \in Ids(queue') <=> e \in Ids(render.queue) \/ e = id
      <3>1. asked \in Nat /\ render.queue \in Queues(asked)
        BY WindowQueues
      <3>2. \A e : e \in Ids(enqueueSend(render.queue, x)) <=> e \in Ids(render.queue) \/ x.id = e
        BY <1>3, <3>1, QueuedLast
      <3> QED BY <2>1, <2>2, <3>2
    <2>4. \A e : e # id /\ e \notin strays' => (Waits(e)' <=> Waits(e))
      BY <2>1, <2>3 DEF Waits, Astray
    <2>5. \A e : (IsSent(e)' <=> IsSent(e)) /\ (Once(e)' <=> Once(e))
      BY <2>1 DEF IsSent, Once
    <2>6. Waits(id)' /\ strays \subseteq strays'
      BY <2>1, <2>3 DEF Waits
    <2> QED BY <1>0, <2>1, <2>4, <2>5, <2>6
  <1> QED BY <1>1, <1>2, <1>3

LEMMA EntriesStep ==
  ASSUME TypeOK, QueuesApart, EntriesApart, [Next]_vars
  PROVE  EntriesApart'
  <1>0. /\ asked \in Nat /\ \A q \in Known : q \in Queues(asked)
        /\ \A q \in Known : \A e \in Ids(q) : e \in 1..asked
        /\ \A t \in staged : t.id \in 1..asked /\ t.render.queue \in Known
        /\ queue \in Known /\ rendered.queue \in Known /\ stored \in Known
        /\ asked + 1 \notin 1..asked /\ 1..(asked + 1) = 1..asked \cup {asked + 1}
    BY WindowQueues
  <1>t. /\ dropped \subseteq 1..asked
        /\ jobs \in Seq(Jobs(asked)) /\ \A j \in DOMAIN jobs : jobs[j].entry \in 1..asked \cup {None}
        /\ asked + 1 # None
    <2>1. dropped \subseteq 1..asked
      BY DEF TypeOK, WindowTypeOK
    <2>2. jobs \in Seq(Jobs(asked)) /\ \A j \in DOMAIN jobs : jobs[j] \in Jobs(asked)
      BY DEF TypeOK, CommandsTypeOK
    <2>3. \A j \in DOMAIN jobs : jobs[j].entry \in 1..asked \cup {None}
      BY <2>2 DEF Jobs
    <2> QED BY <1>0, <2>1, <2>2, <2>3, NoneAssumption
  <1>n. ASSUME UNCHANGED <<queueVars, staged, jobs>> PROVE EntriesApart'
    BY <1>n, EntriesStay DEF queueVars
  <1>new. ~Waits(asked + 1) /\ ~IsText(asked + 1) /\ ~IsSent(asked + 1) /\ asked + 1 \notin dropped
    BY <1>0, <1>t DEF Waits, IsText, IsSent
  <1>1. ASSUME NEW j \in DOMAIN jobs, JobStep(j) PROVE EntriesApart'
    <2>1. UNCHANGED <<queue, staged, asked, dropped, strays>>
      BY <1>1 DEF JobStep, PlanFails, Claim, Retry, SendEnds, Record, JobAnswered, JobEnds, queueVars,
         callVars
    <2>2. jobs[j] \in Jobs(asked)
      BY <1>t
    <2>3. \E rec : SetJob(j, rec) /\ rec.entry = jobs[j].entry
      <3>1. DOMAIN jobs[j] = {"entry", "from", "record", "at", "tries", "raised", "updated"}
        BY <2>2 DEF Jobs
      <3>2. CASE PlanFails(j) \/ Claim(j) \/ JobAnswered(j) \/ JobEnds(j)
        <4>1. \E a : SetJob(j, [jobs[j] EXCEPT !.at = a])
          BY <3>2 DEF PlanFails, Claim, JobAnswered, JobEnds
        <4>2. \A a : [jobs[j] EXCEPT !.at = a].entry = jobs[j].entry
          BY <3>1
        <4> QED BY <4>1, <4>2
      <3>3. CASE Retry(j)
        BY <3>1, <3>3 DEF Retry
      <3>4. CASE SendEnds(j)
        <4> DEFINE rec == [jobs[j] EXCEPT !.at = "recording", !.raised = FALSE, !.tries = 0,
                                          !.updated = now_ms]
        <4>1. rec.entry = jobs[j].entry
          BY <3>1
        <4>2. SetJob(j, rec)
          BY <3>4 DEF SendEnds
        <4> HIDE DEF rec
        <4> QED BY <4>1, <4>2
      <3>5. CASE Record(j)
        <4>1. \A a, b : [jobs[j] EXCEPT !.at = a, !.updated = b].entry = jobs[j].entry
          BY <3>1
        <4> QED BY <3>5, <4>1 DEF Record
      <3> QED BY <1>1, <3>2, <3>3, <3>4, <3>5 DEF JobStep
    <2>4. DOMAIN jobs' = DOMAIN jobs /\ \A k \in DOMAIN jobs : jobs'[k].entry = jobs[k].entry
      BY <2>3 DEF SetJob
    <2> QED BY <2>1, <2>4, EntriesStay
  <1>2. CASE Render \/ ListRuns \/ PollEnds \/ PollFails \/ CancelFails \/ CancelEnds \/ EditRuns
             \/ EditFails \/ EditLists \/ EditEnds \/ OtherEnds \/ ReceiveRecorded \/ Poll \/ Cancel
             \/ Edit \/ OtherBegins \/ UNCHANGED vars
    BY <1>2, <1>n DEF Render, ListRuns, PollEnds, PollFails, CancelFails, CancelEnds, EditRuns, EditFails,
       EditLists, EditEnds, OtherEnds, ReceiveRecorded, Poll, Cancel, Edit, OtherBegins, callVars, sendVars,
       vars
  <1>3. CASE CancelRuns
    <2>1. UNCHANGED <<queue, staged, asked, dropped, strays>>
      BY <1>3 DEF CancelRuns, queueVars
    <2>2. CASE UNCHANGED jobs
      BY <2>1, <2>2, EntriesStay
    <2>3. CASE slot # None /\ SetJob(slot, [jobs[slot] EXCEPT !.raised = TRUE])
      <3>1. slot \in DOMAIN jobs /\ jobs[slot] \in Jobs(asked)
        BY <1>t, <2>3 DEF TypeOK, CommandsTypeOK
      <3>2. [jobs[slot] EXCEPT !.raised = TRUE].entry = jobs[slot].entry
        BY <3>1 DEF Jobs
      <3>3. DOMAIN jobs' = DOMAIN jobs /\ \A k \in DOMAIN jobs : jobs'[k].entry = jobs[k].entry
        BY <2>3, <3>1, <3>2 DEF SetJob
      <3> QED BY <2>1, <3>3, EntriesStay
    <2> QED BY <1>3, <2>2, <2>3 DEF CancelRuns
  <1>4. CASE BridgeSend
    <2>1. /\ jobs' = Append(jobs, Job(None, "bridge", NewRecord))
          /\ UNCHANGED <<queue, staged, asked, dropped, strays>>
      BY <1>4 DEF BridgeSend, queueVars, callVars
    <2> QED BY <2>1, EntriesStayBeside
  <1>5. CASE resendTransfer
    <2>1. /\ \E x : jobs' = Append(jobs, Job(None, "resend", x))
          /\ UNCHANGED <<queue, staged, asked, dropped, strays>>
      BY <1>5 DEF resendTransfer, queueVars, callVars
    <2> QED BY <2>1, EntriesStayBeside
  <1>6. CASE Effect
    <2>0. UNCHANGED <<asked, dropped, staged>>
      BY <1>6 DEF Effect, callVars
    <2>1. CASE UNCHANGED <<queue, jobs, strays>>
      BY <2>0, <2>1, EntriesStay
    <2> DEFINE next == dequeueSend(rendered.queue)
    <2>2. CASE /\ next.head # None /\ queue' = next.rest
               /\ strays' = strays \cup Astray(queue, rendered.queue)
               /\ runSend(next.head, "queue")
      <3>1. rendered.queue \in Queues(asked) /\ Distinct(rendered.queue)
        BY <1>0 DEF QueuesApart
      <3>2. PICK i \in DOMAIN rendered.queue :
               /\ next.head = rendered.queue[i].id
               /\ next.rest = Keep(rendered.queue, DOMAIN rendered.queue \ {i})
        BY <1>0, <2>2, <3>1, QueueTaken
      <3>3. PICK id : id = rendered.queue[i].id
        OBVIOUS
      <3>4. jobs' = Append(jobs, Job(id, "queue", NewRecord))
        BY <2>2, <3>2, <3>3 DEF runSend
      <3>5. \A e : e \in Ids(queue') <=> e \in Ids(rendered.queue) /\ e # id
        <4> DEFINE I == DOMAIN rendered.queue \ {i}
        <4>1. I \in SUBSET (DOMAIN rendered.queue) /\ queue' = Keep(rendered.queue, I)
          BY <2>2, <3>2
        <4>2. \A e : (\E k \in I : rendered.queue[k].id = e) <=> e \in Ids(rendered.queue) /\ e # id
          BY <3>1, <3>3 DEF Ids, Distinct
        <4> HIDE DEF I
        <4>3. \A e : e \in Ids(Keep(rendered.queue, I)) <=> \E k \in I : rendered.queue[k].id = e
          BY <1>0, <3>1, <4>1, KeptApart
        <4> QED BY <4>1, <4>2, <4>3
      <3>6. \A e : /\ IsSent(e)' <=> IsSent(e) \/ e = id
                   /\ Once(e) /\ (e = id => ~IsSent(e)) => Once(e)'
        BY <3>4, SentMore
      <3>7. \A e : IsText(e)' <=> IsText(e)
        BY <2>0 DEF IsText
      <3>8. \A e : e \notin strays' => e \notin strays /\ (e \in Ids(queue) <=> e \in Ids(rendered.queue))
        BY <2>2 DEF Astray
      <3>9. id \in Ids(rendered.queue)
        BY <3>3 DEF Ids
      <3> SUFFICES ASSUME NEW e \in (1..asked') \ strays' PROVE Settled(e)'
        BY DEF EntriesApart
      <3>10. e \in (1..asked) \ strays /\ Settled(e)
        BY <2>0, <3>8 DEF EntriesApart
      <3>11. CASE e = id
        BY <2>0, <3>5, <3>6, <3>7, <3>8, <3>9, <3>10, <3>11 DEF Settled, Waits
      <3>12. CASE e # id
        BY <2>0, <3>5, <3>6, <3>7, <3>8, <3>10, <3>12 DEF Settled, Waits
      <3> QED BY <3>11, <3>12
    <2> QED BY <1>6, <2>1, <2>2 DEF Effect
  <1>7. CASE Send
    <2>0. PICK id : id = asked + 1
      OBVIOUS
    <2>1. asked' = id /\ dispatchSend(id, rendered) /\ UNCHANGED staged
      BY <1>7, <2>0 DEF Send, callVars
    <2>2. \A e : IsText(e)' <=> IsText(e)
      BY <2>1 DEF IsText
    <2>n. /\ ~Waits(id) /\ ~IsSent(id) /\ id \notin dropped /\ ~IsText(id)
          /\ id \notin Ids(queue) /\ id \notin Ids(rendered.queue)
      BY <1>0, <1>new, <2>0
    <2>3. /\ strays \subseteq strays'
          /\ \A e : e # id /\ e \notin strays' =>
                /\ Waits(e)' <=> Waits(e)
                /\ IsSent(e)' <=> IsSent(e)
                /\ e \in dropped' <=> e \in dropped
                /\ Once(e) => Once(e)'
          /\ Once(id)'
          /\ \/ Waits(id)' /\ ~IsSent(id)' /\ id \notin dropped'
             \/ ~Waits(id)' /\ IsSent(id)' /\ id \notin dropped'
             \/ ~Waits(id)' /\ ~IsSent(id)' /\ id \in dropped'
      BY <1>0, <2>1, <2>n, DispatchedApart
    <2>4. 1..asked' = 1..asked \cup {id}
      BY <1>0, <2>0, <2>1
    <2> QED BY <2>2, <2>3, <2>4, <2>n DEF EntriesApart, Settled
  <1>8. CASE TextStaged
    <2>1. PICK t \in staged : staged' = staged \ {t} /\ dispatchSend(t.id, t.render)
      BY <1>8 DEF TextStaged
    <2>2. asked' = asked
      BY <1>8 DEF TextStaged
    <2>3. IsText(t.id) /\ t.id \in 1..asked /\ t.render.queue \in Known
      BY <1>0, <2>1 DEF IsText
    <2>4. t.id \notin Ids(queue) /\ t.id \notin Ids(t.render.queue)
      BY <1>0, <2>1, <2>3 DEF QueuesApart
    <2>5. /\ strays \subseteq strays'
          /\ \A e : e # t.id /\ e \notin strays' =>
                /\ Waits(e)' <=> Waits(e)
                /\ IsSent(e)' <=> IsSent(e)
                /\ e \in dropped' <=> e \in dropped
                /\ Once(e) => Once(e)'
          /\ ~IsSent(t.id) /\ t.id \notin dropped =>
                /\ Once(t.id)'
                /\ \/ Waits(t.id)' /\ ~IsSent(t.id)' /\ t.id \notin dropped'
                   \/ ~Waits(t.id)' /\ IsSent(t.id)' /\ t.id \notin dropped'
                   \/ ~Waits(t.id)' /\ ~IsSent(t.id)' /\ t.id \in dropped'
      BY <2>1, <2>3, <2>4, DispatchedApart
    <2>6. \A e : IsText(e)' <=> IsText(e) /\ e # t.id
      BY <2>1 DEF IsText, QueuesApart
    <2> SUFFICES ASSUME NEW e \in (1..asked) \ strays' PROVE Settled(e)'
      BY <2>2 DEF EntriesApart
    <2>7. Settled(e)
      BY <2>5 DEF EntriesApart
    <2>8. CASE e = t.id
      BY <2>3, <2>5, <2>6, <2>7, <2>8 DEF Settled
    <2>9. CASE e # t.id
      BY <2>5, <2>6, <2>7, <2>9 DEF Settled
    <2> QED BY <2>8, <2>9
  <1>9. CASE TextFails
    <2>1. PICK t \in staged : staged' = staged \ {t} /\ dropped' = dropped \cup {t.id}
      BY <1>9 DEF TextFails
    <2>2. UNCHANGED <<asked, queue, jobs, strays>>
      BY <1>9 DEF TextFails, sendVars
    <2>3. IsText(t.id)
      BY <2>1 DEF IsText
    <2>4. \A e : /\ IsText(e)' <=> IsText(e) /\ e # t.id
                 /\ Waits(e)' <=> Waits(e)
                 /\ IsSent(e)' <=> IsSent(e)
                 /\ Once(e)' <=> Once(e)
      BY <2>1, <2>2 DEF IsText, Waits, IsSent, Once, QueuesApart
    <2> QED BY <2>1, <2>2, <2>3, <2>4 DEF EntriesApart, Settled
  <1>10. CASE SendText
    <2>1. PICK t : t.id = asked + 1 /\ staged' = staged \cup {t}
      BY <1>10 DEF SendText
    <2>2. asked' = asked + 1 /\ UNCHANGED <<queue, jobs, dropped, strays>>
      BY <1>10 DEF SendText, sendVars
    <2>3. \A e : /\ IsText(e)' <=> IsText(e) \/ e = asked + 1
                 /\ Waits(e)' <=> Waits(e)
                 /\ IsSent(e)' <=> IsSent(e)
                 /\ Once(e)' <=> Once(e)
      BY <2>1, <2>2 DEF IsText, Waits, IsSent, Once
    <2>4. Once(asked + 1)
      BY <1>new DEF Once, IsSent
    <2> QED BY <1>0, <1>new, <2>2, <2>3, <2>4 DEF EntriesApart, Settled
  <1>11. CASE resumeQueuedSendById
    <2>1. PICK id : queue' = resumeQueuedSend(queue, id)
      BY <1>11 DEF resumeQueuedSendById
    <2>2. UNCHANGED <<asked, dropped, strays, staged, jobs>>
      BY <1>11 DEF resumeQueuedSendById, callVars, sendVars
    <2>3. Ids(queue') = Ids(queue)
      BY <1>0, <2>1, QueueResumed DEF QueuesApart
    <2>4. \A e : /\ IsText(e)' <=> IsText(e)
                 /\ Waits(e)' <=> Waits(e)
                 /\ IsSent(e)' <=> IsSent(e)
                 /\ Once(e)' <=> Once(e)
      BY <2>2, <2>3 DEF IsText, Waits, IsSent, Once
    <2> QED BY <2>2, <2>4 DEF EntriesApart, Settled
  <1>12. CASE cancelQueuedSend
    <2>1. PICK I \in SUBSET (DOMAIN queue) : queue' = Keep(queue, I)
      BY <1>12 DEF cancelQueuedSend
    <2>2. UNCHANGED <<asked, staged, jobs, strays>>
      BY <1>12 DEF cancelQueuedSend, callVars, sendVars
    <2>3. \A e : Waits(e)' => Waits(e)
      <3>1. \A e : e \in Ids(Keep(queue, I)) <=> \E i \in I : queue[i].id = e
        BY <1>0, KeptApart DEF QueuesApart
      <3> QED BY <2>1, <3>1 DEF Waits, Ids
    <2>4. \A e : e \in dropped' <=> e \in dropped \/ (Waits(e) /\ ~Waits(e)')
      <3>1. dropped' = dropped \cup ({e.id : e \in ToSet(queue)} \ {e.id : e \in ToSet(queue')})
        BY <1>12 DEF cancelQueuedSend
      <3>2. \A e : /\ e \in {x.id : x \in ToSet(queue)} <=> Waits(e)
                   /\ e \in {x.id : x \in ToSet(queue')} <=> Waits(e)'
        BY DEF ToSet, Waits, Ids
      <3> QED BY <3>1, <3>2
    <2>5. \A e : (IsText(e)' <=> IsText(e)) /\ (IsSent(e)' <=> IsSent(e)) /\ (Once(e)' <=> Once(e))
      BY <2>2 DEF IsText, IsSent, Once
    <2> QED BY <2>2, <2>3, <2>4, <2>5 DEF EntriesApart, Settled
  <1>13. CASE clearSendQueue
    <2>1. queue' = <<>> /\ dropped' = dropped \cup {e.id : e \in ToSet(queue)}
      BY <1>13 DEF clearSendQueue
    <2>2. UNCHANGED <<asked, staged, jobs, strays>>
      BY <1>13 DEF clearSendQueue, callVars, sendVars
    <2>3. \A e : /\ ~Waits(e)'
                 /\ e \in {x.id : x \in ToSet(queue)} <=> Waits(e)
      BY <2>1 DEF ToSet, Waits, Ids
    <2>4. \A e : (IsText(e)' <=> IsText(e)) /\ (IsSent(e)' <=> IsSent(e)) /\ (Once(e)' <=> Once(e))
      BY <2>2 DEF IsText, IsSent, Once
    <2> QED BY <2>1, <2>2, <2>3, <2>4 DEF EntriesApart, Settled
  <1>14. CASE Pause
    <2> DEFINE x == [id |-> asked + 1, paused |-> TRUE]
    <2>1. /\ asked' = asked + 1 /\ queue' = enqueueSend(queue, x)
          /\ strays' = strays \cup (IF queue' = queue THEN {asked + 1} ELSE {})
          /\ UNCHANGED <<staged, jobs, dropped>>
      BY <1>14 DEF Pause, sendVars
    <2>2. \A e : (IsText(e)' <=> IsText(e)) /\ (IsSent(e)' <=> IsSent(e)) /\ (Once(e)' <=> Once(e))
      BY <2>1 DEF IsText, IsSent, Once
    <2>3. x.id = asked + 1
      OBVIOUS
    <2> HIDE DEF x
    <2>4. CASE Len(queue) >= MAX_SEND_QUEUE
      <3>1. queue' = queue /\ strays' = strays \cup {asked + 1}
        BY <2>1, <2>4, QueuedFull
      <3>2. \A e : Waits(e)' <=> Waits(e)
        BY <3>1 DEF Waits
      <3> QED BY <1>0, <2>1, <2>2, <3>1, <3>2 DEF EntriesApart, Settled
    <2>5. CASE ~(Len(queue) >= MAX_SEND_QUEUE)
      <3>1. queue' # queue /\ \A e : Waits(e)' <=> Waits(e) \/ e = asked + 1
        <4>1. /\ enqueueSend(queue, x) # queue
              /\ \A e : e \in Ids(enqueueSend(queue, x)) <=> e \in Ids(queue) \/ x.id = e
          BY <1>0, <2>5, QueuedLast
        <4> QED BY <2>1, <2>3, <4>1 DEF Waits
      <3>2. Once(asked + 1)
        BY <1>new DEF Once, IsSent
      <3> QED BY <1>0, <1>new, <2>1, <2>2, <3>1, <3>2 DEF EntriesApart, Settled
    <2> QED BY <2>4, <2>5
  <1>15. CASE Restart
    <2>1. /\ queue' = stored /\ UNCHANGED <<asked, dropped>> /\ staged' = {}
          /\ strays' = strays \cup Astray(queue, stored) \cup {t.id : t \in staged}
      BY <1>15 DEF Restart
    <2>2. DOMAIN jobs' = DOMAIN jobs /\ \A j \in DOMAIN jobs : jobs'[j].entry = jobs[j].entry
      <3>1. jobs' = [j \in DOMAIN jobs |->
                        [Job(jobs[j].entry, jobs[j].from, jobs[j].record) EXCEPT !.at = "over"]]
        BY <1>15 DEF Restart
      <3> DEFINE over == [j \in DOMAIN jobs |->
                            [Job(jobs[j].entry, jobs[j].from, jobs[j].record) EXCEPT !.at = "over"]]
      <3>2. \A j \in DOMAIN jobs : over[j].entry = jobs[j].entry
        BY DEF Job
      <3>3. jobs' = over /\ DOMAIN over = DOMAIN jobs
        BY <3>1
      <3> HIDE DEF over
      <3> QED BY <3>2, <3>3
    <2>3. \A e : e \notin strays' => /\ e \notin strays
                                     /\ Waits(e)' <=> Waits(e)
                                     /\ ~IsText(e) /\ ~IsText(e)'
      BY <2>1 DEF Waits, Astray, IsText
    <2>4. \A e : (IsSent(e)' <=> IsSent(e)) /\ (Once(e)' <=> Once(e))
      BY <2>2 DEF IsSent, Once
    <2> QED BY <2>1, <2>3, <2>4 DEF EntriesApart, Settled
  <1>16. CASE Drop
    <2>0. PICK id : id = asked + 1
      OBVIOUS
    <2>1. /\ asked' = id /\ jobs' = Append(jobs, Job(id, "direct", NewRecord))
          /\ UNCHANGED <<queue, staged, dropped, strays>>
      BY <1>16, <2>0 DEF Drop, runSend, callVars
    <2>2. /\ ~Waits(id) /\ ~IsText(id) /\ ~IsSent(id) /\ id \notin dropped /\ id \notin 1..asked
          /\ 1..asked' = 1..asked \cup {id}
      BY <1>0, <1>new, <2>0, <2>1
    <2> QED BY <2>1, <2>2, EntrySent
  <1> QED
    BY <1>1, <1>2, <1>3, <1>4, <1>5, <1>6, <1>7, <1>8, <1>9, <1>10, <1>11, <1>12, <1>13, <1>14, <1>15,
       <1>16 DEF Next, Progress, Begin

-----------------------------------------------------------------------------

\* One send at a time, and its flag is the one in the slot: for any number of sends of the window,
\* the bridge and the history, and any limits.
THEOREM OneSendAtATime == Spec => []SlotIsTheSenders
  <1>1. SlotInv => SlotIsTheSenders
    BY DEF SlotInv
  <1> QED BY <1>1, SlotInit, SlotStep, PTL DEF Spec

\* The history that is shown never goes back, however many lists are under way.
THEOREM ShownHistoryAdvances == Spec => HistoryNeverGoesBack
  <1> DEFINE Advances == shown' >= shown \/ left'["restarts"] # left["restarts"]
  <1>1. ListsInv /\ [Next]_vars => ListsInv' /\ Advances
    BY ListsStep
  <1> HIDE DEF Advances
  <1>2. Spec => [][Advances]_vars
    BY <1>1, ListsInit, PTL DEF Spec
  <1> QED BY <1>2 DEF Advances, HistoryNeverGoesBack


\* Every variable of window, commands and history keeps its type, and the limits of queue and
\* history hold, for any limits and budgets.
THEOREM SendingTypeCorrect == Spec => []TypeOK
  BY TypeInit, TypeStep, PTL DEF Spec

\* Every send that was asked for is in one place: waiting, being staged, handed to the backend or
\* out, for any number of entries, renders, effects, drops, pauses, commands and restarts in any
\* order, but for those that the code loses or doubles (strays): an overwritten queue leads
\* only those entries astray in which the two queues differ.
THEOREM EveryEntryHasItsPlace == Spec => []EntriesAccounted
  <1> DEFINE EntriesInv == QueuesApart /\ EntriesApart
  <1>1. Init => EntriesInv
    BY EntriesInit
  <1>2. TypeOK /\ EntriesInv => EntriesAccounted
    BY OnePlace DEF EntriesAccounted
  <1>3. TypeOK /\ EntriesInv /\ [Next]_vars => EntriesInv'
    BY QueuesStep, EntriesStep
  <1> QED BY <1>1, <1>2, <1>3, TypeInit, TypeStep, PTL DEF Spec
=============================================================================
