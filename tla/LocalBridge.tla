----------------------------- MODULE LocalBridge -----------------------------
(***************************************************************************)
(* The action queue of the local bridge: applications of this computer ask *)
(* the desktop to send, import or roll back a bundle; each connection is a *)
(* thread that looks the request up, queues it or answers a retry; a       *)
(* worker executes the queue in order; the user removes, accepts or takes  *)
(* actions from the settings page.  Only authorized requests are here: the *)
(* others change nothing.                                                  *)
(*                                                                         *)
(* Queue and results each have a mutex: a step is what happens under one,  *)
(* or under the queue's with the results' inside it.                       *)
(***************************************************************************)
EXTENDS Naturals, Sequences, FiniteSets, SequencesExt, Subsequences

CONSTANTS
    Requests,     \* request_id, kind and client: what identifies an action
    Kind,         \* [r]: "send", "import" or "rollback"
    Id,           \* [r]: the request_id alone, by which the user's commands name an action
    Payloads,     \* what is to be sent, imported or rolled back
    Comes,        \* [r]: the payloads a request is posted with
    NoPayload,    \* a result that does not say what it was about
    Detected,     \* a result that names the bundle found on the disk, which is not the one asked for
    Handlers,     \* connections of the local HTTP server
    Commands,     \* threads of the settings page's commands
    Worker,       \* the thread that executes the queue
    NoAction,     \* an executor without an action
    QueueLimit,   \* LOCAL_BRIDGE_PENDING_ACTION_QUEUE_LIMIT
    ResultLimit,  \* LOCAL_BRIDGE_PENDING_ACTION_RESULT_LIMIT
    Budgets       \* bounds: how many posts and commands there may be, and of which requests

ASSUME KindAssumption == Kind \in [Requests -> {"send", "import", "rollback"}]
ASSUME ComesAssumption == Comes \in [Requests -> SUBSET Payloads]
ASSUME NoneAssumption == NoPayload \notin Payloads /\ Detected \notin Payloads /\ Worker \notin Commands
ASSUME CommandsAssumption == IsFiniteSet(Commands)
ASSUME LimitsAssumption == QueueLimit \in Nat \ {0} /\ ResultLimit \in Nat \ {0}

VARIABLES
    queue,      \* pending_actions
    results,    \* pending_action_results, oldest first
    handler,    \* [h]: the request a connection handles, and its copies of results and queue
    exec,       \* [e]: the action an executor holds, why, and how far it is
    told,       \* [r]: the action.updated events of a request, in order
    executed,   \* [r] (history): how often it was executed
    overlapped, \* (history): requests two connections brought at the same time
    evicted,    \* (history): requests whose result was dropped at the limit
    abandoned,  \* (history): requests that were dropped, handed out or failed without a record
    came,       \* [r] (history): the payloads it was posted with so far
    refused,    \* (history): retries refused as another payload, and what they were compared with
    left        \* posts and commands still to come, and the requests there are

answers == <<came, refused>>
history == <<executed, overlapped, evicted, abandoned>>
vars    == <<queue, results, handler, exec, told, history, answers, left>>

Action    == [req : Requests, payload : Payloads]
Terminal  == {"succeeded", "failed", "conflict", "cancelled"}
Status    == {"queued", "running", "preflight"} \cup Terminal
Result    == [req : Requests, status : Status, payload : Payloads \cup {NoPayload, Detected}]
Executors == Commands \cup {Worker}
Modes     == {"worker", "accept", "decline", "next_send", "next_import", "preflight"}

Idle == [at |-> "idle", action |-> NoAction, mode |-> "worker"]
Free == [at |-> "free"]

Init ==
    /\ queue = <<>>
    /\ results = <<>>
    /\ handler = [h \in Handlers |-> Free]
    /\ exec = [e \in Executors |-> Idle]
    /\ told = [r \in Requests |-> <<>>]
    /\ executed = [r \in Requests |-> 0]
    /\ overlapped = {} /\ evicted = {} /\ abandoned = {}
    /\ came = [r \in Requests |-> {}] /\ refused = {}
    /\ left \in Budgets

-----------------------------------------------------------------------------
(* Results and events.                                                      *)

\* A result replaces the request's former one; the oldest result goes when there are too many.
PushRecord(res) ==
    LET others == {i \in DOMAIN results : results[i].req # res.req} IN
    /\ results' = LastOf(Append(Keep(results, others), res), ResultLimit)
    /\ evicted' = evicted \cup ({results[i].req : i \in DOMAIN results}
                              \ {results'[i].req : i \in DOMAIN results'})

\* A lifecycle result, and the event that tells the client.
PushResult(a, status, payload) ==
    /\ PushRecord([req |-> a.req, status |-> status, payload |-> payload])
    /\ told' = [told EXCEPT ![a.req] = Append(@, status)]

\* What the result of an action that was cancelled, or failed outside its own code, says it
\* was about: the bundle of an import is left out.
Shape(a) == IF Kind[a.req] = "import" THEN NoPayload ELSE a.payload

\* What a result may say instead of what was asked for: results of sends and imports carry the
\* type and the id found in the bundle's manifest, if there is one.
Unasked(r) == IF Kind[r] = "rollback" THEN {} ELSE {NoPayload, Detected}

-----------------------------------------------------------------------------
(* The requests of the applications.                                        *)

Spend(what) == left[what] > 0 /\ left' = [left EXCEPT ![what] = @ - 1]

\* A request arrives, is found authorized, and the results are copied.
Post(h, r, p) ==
    /\ handler[h] = Free
    /\ r \in left.of
    /\ Spend("posts")
    /\ handler' = [handler EXCEPT ![h] =
                      [at |-> "results", req |-> r, payload |-> p, results |-> results]]
    /\ overlapped' = IF \E k \in Handlers : handler[k] # Free /\ handler[k].req = r
                     THEN overlapped \cup {r} ELSE overlapped
    /\ came' = [came EXCEPT ![r] = @ \cup {p}]
    /\ UNCHANGED <<queue, results, exec, told, executed, evicted, abandoned, refused>>

\* Mutant: a request is recognized by its request_id alone.
SameRequest_IdOnly(x, r) == Id[x.req] = Id[r]

\* Two requests are one if request_id, kind of action and client are the same.
SameRequest(x, r) == x.req = r

\* ... and the same action if what is to be done is the same as well.
SameAction(x, r, p) == SameRequest(x, r) /\ x.payload = p

\* Where a request is known from: the queue is looked at first, the copied results after it.
Seen(h) == queue \o handler[h].results
KnownAt(h) == {i \in DOMAIN Seen(h) : SameRequest(Seen(h)[i], handler[h].req)}

\* A retry is answered from what is known of it, or refused if it comes with another payload.
AnswerRetry(h) ==
    /\ handler[h] # Free /\ handler[h].at = "results"
    /\ \E i \in KnownAt(h) :
          LET r == handler[h].req
              known == Seen(h)[i] IN
          /\ \A k \in KnownAt(h) : i <= k
          /\ refused' = IF SameAction(known, r, handler[h].payload) THEN refused
                        ELSE refused \cup {[req |-> r, was |-> known.payload]}
    /\ handler' = [handler EXCEPT ![h] = Free]
    /\ UNCHANGED <<queue, results, exec, told, history, came, left>>

\* The queue is copied: neither copy knows the request.
NotSeen(h) ==
    /\ handler[h] # Free /\ handler[h].at = "results"
    /\ KnownAt(h) = {}
    /\ handler' = [handler EXCEPT ![h] =
                      [at |-> "queue", req |-> handler[h].req, payload |-> handler[h].payload]]
    /\ UNCHANGED <<queue, results, exec, told, history, answers, left>>

\* Nothing is known of it: the action is queued, the oldest is dropped at the limit, the
\* worker is woken and the result says queued, before the queue's lock is let go.
Enqueue(h) ==
    /\ handler[h] # Free /\ handler[h].at = "queue"
    /\ LET a == [req |-> handler[h].req, payload |-> handler[h].payload]
           others == {i \in DOMAIN queue : ~SameAction(queue[i], a.req, a.payload)}
           all == Append(Keep(queue, others), a)
       IN /\ queue' = LastOf(all, QueueLimit)
          /\ abandoned' = (abandoned \cup {all[i].req : i \in 1..(Len(all) - Len(queue'))})
                          \ {a.req}
          /\ PushResult(a, "queued", a.payload)
    /\ handler' = [handler EXCEPT ![h] = Free]
    /\ UNCHANGED <<exec, executed, overlapped, answers, left>>

-----------------------------------------------------------------------------
(* Taking actions from the queue.                                           *)

Hold(e, a, mode) == exec' = [exec EXCEPT ![e] = [at |-> "taken", action |-> a, mode |-> mode]]

\* Mutant: the worker looks at the head of the queue and leaves it there.
WorkerTakes_Peeks ==
    /\ exec[Worker] = Idle
    /\ queue # <<>>
    /\ Hold(Worker, Head(queue), "worker")
    /\ UNCHANGED <<queue, results, handler, told, history, answers, left>>

WorkerTakes ==
    /\ exec[Worker] = Idle
    /\ queue # <<>>
    /\ Hold(Worker, Head(queue), "worker")
    /\ queue' = Tail(queue)
    /\ UNCHANGED <<results, handler, told, history, answers, left>>

Command(c) ==
    /\ exec[c] = Idle
    /\ Spend("commands")
    /\ UNCHANGED <<results, handler, told, executed, overlapped, evicted, answers>>

\* The user answers an action, named by its request_id: the first of that id is taken.
RespondTakes(c, i, mode) ==
    /\ Command(c)
    /\ \E n \in DOMAIN queue :
          /\ Id[queue[n].req] = i
          /\ \A m \in 1..(n - 1) : Id[queue[m].req] # i
          /\ Hold(c, queue[n], mode)
          /\ queue' = RemoveAt(queue, n)
    /\ UNCHANGED abandoned

\* The next action is taken to be executed, if it is of the command's kind.
NextTakes(c, mode) ==
    /\ Command(c)
    /\ queue # <<>>
    /\ Hold(c, Head(queue), mode)
    /\ queue' = Tail(queue)
    /\ UNCHANGED abandoned

\* The next action is handed to the caller, its result stays as it is.
TakeNext(c) ==
    /\ Command(c)
    /\ queue # <<>>
    /\ queue' = Tail(queue)
    /\ abandoned' = abandoned \cup {Head(queue).req}
    /\ UNCHANGED exec

\* The next action is taken to be checked only, if it is a send.
PreflightTakes(c) ==
    /\ Command(c)
    /\ queue # <<>>
    /\ Kind[Head(queue).req] = "send"
    /\ Hold(c, Head(queue), "preflight")
    /\ queue' = Tail(queue)
    /\ UNCHANGED abandoned

-----------------------------------------------------------------------------
(* Executing them.                                                          *)

Holds(e) == exec[e].at # "idle"
Held(e)  == exec[e].action

\* Mutant: an action of another kind is dropped.
PutBack_Drops(c) ==
    /\ exec[c].at = "taken"
    /\ \/ exec[c].mode = "next_send" /\ Kind[Held(c).req] # "send"
       \/ exec[c].mode = "next_import" /\ Kind[Held(c).req] # "import"
    /\ exec' = [exec EXCEPT ![c] = Idle]
    /\ UNCHANGED <<queue, results, handler, told, history, answers, left>>

\* An action of another kind goes back to the front of the queue, whatever its length.
PutBack(c) ==
    /\ exec[c].at = "taken"
    /\ \/ exec[c].mode = "next_send" /\ Kind[Held(c).req] # "send"
       \/ exec[c].mode = "next_import" /\ Kind[Held(c).req] # "import"
    /\ queue' = Cons(Held(c), queue)
    /\ exec' = [exec EXCEPT ![c] = Idle]
    /\ UNCHANGED <<results, handler, told, history, answers, left>>

\* The user's no.
Cancel(c) ==
    /\ exec[c].at = "taken"
    /\ exec[c].mode = "decline"
    /\ PushResult(Held(c), "cancelled", Shape(Held(c)))
    /\ exec' = [exec EXCEPT ![c] = Idle]
    /\ UNCHANGED <<queue, handler, executed, overlapped, abandoned, answers, left>>

\* The check of a send: its result has no lifecycle status, and the action is not put back.
Preflight(c) ==
    /\ exec[c].at = "taken"
    /\ exec[c].mode = "preflight"
    /\ \E p \in {Held(c).payload} \cup Unasked(Held(c).req) :
          PushRecord([req |-> Held(c).req, status |-> "preflight", payload |-> p])
    /\ abandoned' = abandoned \cup {Held(c).req}
    /\ exec' = [exec EXCEPT ![c] = Idle]
    /\ UNCHANGED <<queue, handler, told, executed, overlapped, answers, left>>

\* Sends say that they run; imports only when the settings page started them.
SaysRunning(e) ==
    \/ Kind[Held(e).req] = "send" /\ exec[e].mode \in {"worker", "accept", "next_send"}
    \/ Kind[Held(e).req] = "import" /\ exec[e].mode = "next_import"

Run(e) ==
    /\ exec[e].at = "taken"
    /\ SaysRunning(e)
    /\ PushResult(Held(e), "running", Shape(Held(e)))
    /\ exec' = [exec EXCEPT ![e].at = "running"]
    /\ UNCHANGED <<queue, handler, executed, overlapped, abandoned, answers, left>>

Executes(e) ==
    \/ exec[e].at = "running"
    \/ exec[e].at = "taken" /\ exec[e].mode \in {"worker", "accept"} /\ ~SaysRunning(e)

\* How an action may end, and what its result says it was about.  A send whose bundle is missing
\* or invalid fails its preflight and its result has no bundle; one whose bundle is of another
\* type than requested fails as well, and the result has the type that was found.
SendOutcomes(p) == {"succeeded"} \X {p} \cup {"failed"} \X {p, NoPayload, Detected}

\* ... an import that finds no valid bundle in the staging area has none either; once there is a
\* manifest, the result has its bundle_id and type, whatever was asked for and however the import
\* ends; one whose destination exists is a conflict.
ImportOutcomes(p) ==
    {"succeeded", "conflict", "failed"} \X {p, Detected} \cup {"failed"} \X {NoPayload}

\* ... and a rollback always names its bundle.
RollbackOutcomes(p) == {"succeeded", "failed"} \X {p}

Outcomes(a) ==
    CASE Kind[a.req] = "send"     -> SendOutcomes(a.payload)
      [] Kind[a.req] = "import"   -> ImportOutcomes(a.payload)
      [] Kind[a.req] = "rollback" -> RollbackOutcomes(a.payload)

\* The worker and the user's yes record the result of an import, and push no event of it.
Silent(e) == Kind[Held(e).req] = "import" /\ exec[e].mode \in {"worker", "accept"}

\* Mutant: only a success is recorded.
Finish_SuccessOnly(e) ==
    /\ Executes(e)
    /\ \E o \in Outcomes(Held(e)) :
          IF o[1] # "succeeded" THEN UNCHANGED <<results, evicted, told>>
          ELSE IF Silent(e)
          THEN /\ PushRecord([req |-> Held(e).req, status |-> o[1], payload |-> o[2]])
               /\ UNCHANGED told
          ELSE PushResult(Held(e), o[1], o[2])
    /\ executed' = [executed EXCEPT ![Held(e).req] = @ + 1]
    /\ exec' = [exec EXCEPT ![e] = Idle]
    /\ UNCHANGED <<queue, handler, overlapped, abandoned, answers, left>>

\* The end of an action: its result, with an event unless it is silent.
Finish(e) ==
    /\ Executes(e)
    /\ \E o \in Outcomes(Held(e)) :
          IF Silent(e)
          THEN /\ PushRecord([req |-> Held(e).req, status |-> o[1], payload |-> o[2]])
               /\ UNCHANGED told
          ELSE PushResult(Held(e), o[1], o[2])
    /\ executed' = [executed EXCEPT ![Held(e).req] = @ + 1]
    /\ exec' = [exec EXCEPT ![e] = Idle]
    /\ UNCHANGED <<queue, handler, overlapped, abandoned, answers, left>>

\* An import or a rollback ends with an error outside its own code.  An accepted one is recorded
\* as failed if it was begun; when its directories cannot be had, and for the worker and the
\* next-commands always, the error is returned without a record and the action is gone.
Breaks(e) ==
    /\ Executes(e)
    /\ Kind[Held(e).req] # "send"
    /\ \/ /\ exec[e].mode = "accept"
          /\ PushResult(Held(e), "failed", Shape(Held(e)))
          /\ UNCHANGED abandoned
       \/ /\ abandoned' = abandoned \cup {Held(e).req}
          /\ UNCHANGED <<results, evicted, told>>
    /\ exec' = [exec EXCEPT ![e] = Idle]
    /\ UNCHANGED <<queue, handler, executed, overlapped, answers, left>>

-----------------------------------------------------------------------------
HandlerStep(h) == AnswerRetry(h) \/ NotSeen(h) \/ Enqueue(h)

Execute(e) == Run(e) \/ Finish(e) \/ Breaks(e)

CommandStep(c) == PutBack(c) \/ Cancel(c) \/ Preflight(c) \/ Execute(c)

UserCommand(c) ==
    \/ \E i \in {Id[r] : r \in Requests}, mode \in {"accept", "decline"} : RespondTakes(c, i, mode)
    \/ \E mode \in {"next_send", "next_import"} : NextTakes(c, mode)
    \/ TakeNext(c) \/ PreflightTakes(c)

Next ==
    \/ \E h \in Handlers, r \in Requests : \E p \in Comes[r] : Post(h, r, p)
    \/ \E h \in Handlers : HandlerStep(h)
    \/ WorkerTakes \/ Execute(Worker)
    \/ \E c \in Commands : UserCommand(c) \/ CommandStep(c)

Spec == Init /\ [][Next]_vars

\* The worker's thread runs for as long as the desktop does, and so does every command and
\* connection until it returns; a send ends as FileTransfer's AttemptsEnd says.
FairSpec ==
    /\ Spec
    /\ WF_vars(WorkerTakes \/ Execute(Worker))
    /\ \A h \in Handlers : WF_vars(HandlerStep(h))
    /\ \A c \in Commands : WF_vars(CommandStep(c))

-----------------------------------------------------------------------------
(* Properties.                                                              *)

TypeOK ==
    /\ queue \in Seq(Action)
    /\ Len(queue) <= QueueLimit + Cardinality(Commands)
    /\ results \in Seq(Result) /\ Len(results) <= ResultLimit
    /\ \A e \in Executors :
          \/ exec[e] = Idle
          \/ exec[e] \in [at : {"taken", "running"}, action : Action, mode : Modes]
    /\ told \in [Requests -> Seq(Status)]

Latest(r) == {x \in {results[i] : i \in DOMAIN results} : x.req = r}

InHand(r) ==
    \/ \E i \in DOMAIN queue : queue[i].req = r
    \/ \E e \in Executors : Holds(e) /\ Held(e).req = r

\* request_id is an idempotency key: a request is executed once, however often it is retried
\* and whoever executes it (local_bridge_retry_*_response), as long as its retries do not
\* overtake each other and its result is still there.
ExecutedOnce ==
    \A r \in Requests : executed[r] > 1 => r \in overlapped \cup evicted \cup abandoned

\* A request that is reported as queued or running is in the queue or with an executor: only
\* the limit, a hand-out or an error of the surroundings takes one away (queue.rs).
PendingIsInHand ==
    \A r \in Requests :
        (\E x \in Latest(r) : x.status \in {"queued", "running"}) =>
            InHand(r) \/ r \in abandoned

\* A retry is refused as "another payload" only if the request did come with another one, or
\* the record it is compared with does not name what was asked for: other requests of that
\* request_id, limits and the two copies made one after the other never make it so
\* (local_bridge_retry_*_response).  The second case is real: a send or an import whose result
\* has no bundle, or the bundle found on the disk (queue.rs:1007-1021, 1172-1182), is refused
\* when the same request comes again.  A rollback has no such results.
RefusedOnlyForAnother ==
    \A x \in refused : x.was \in Unasked(x.req) \/ \E p, q \in came[x.req] : p # q

\* The events a client sees of a request follow queued -> running -> succeeded / failed /
\* conflict / cancelled (ADAPTER_SPEC.md, action.updated).  Not meant are requests that two
\* connections brought at the same time, whose result a limit dropped, or that were given up
\* without a record: these may run, and be told of, again.
EventsInOrder ==
    \A r \in Requests : r \notin overlapped \cup evicted \cup abandoned =>
        \A i \in DOMAIN told[r] :
            /\ i = 1 <=> told[r][i] = "queued"
            /\ told[r][i] = "running" => i = 2
            /\ told[r][i] \in Terminal => i = Len(told[r])

\* A request that is queued gets a terminal result, or is one of those the queue gave up.
RequestEnds ==
    \A r \in Requests :
        InHand(r) ~> \/ \E x \in Latest(r) : x.status \in Terminal
                     \/ r \in abandoned \cup evicted \cup overlapped

=============================================================================
