# NekoDrop: TLA+ specification, model checking and proofs

NekoDrop sends files and folders between desktops, over TCP in a LAN or over iroh (QUIC) across
networks, and lets other applications of the same computer ask for transfers through a local
HTTP bridge.  This directory specifies the parts of it whose correctness depends on order,
failure and concurrency.

| Question | Module | How it is answered |
| --- | --- | --- |
| Does the receive directory only ever show complete, verified files? | `FileTransfer` implements `VerifiedInbox` | TLC, and proved for one listener |
| Is received data kept across failures, and does a resumed transfer agree with itself? | `FileTransfer` | TLC, safety proved for one listener |
| Do starts, stops, answers, timeouts and two transports leave the receive service consistent? | `ReceiveService` | TLC, safety proved |
| Is what the user sends sent once, one at a time, and is the history shown in order? | `Sending` | TLC, safety proved |
| Is a nonce ever reused, a control frame ever opened twice? | `SessionTraffic` | TLC, and proved |
| Is an application's request executed once, and does it end? | `LocalBridge` | TLC, safety proved |
| Do two devices that open a session end with the same one, and does an offer reach the device that is meant? | `Handshake` | TLC, safety proved |
| Is what the user and a peer were told about trust so, in memory and on disk? | `Pairing` | TLC, safety proved |
| Do the tables of nearby devices agree, and is a receiving desktop advertised? | `Discovery` | TLC, safety proved |
| Do an application's grants and its view of events follow what the user allowed and what happened? | `BridgeClients` | TLC, safety proved |
| Do imports and rollbacks of bundles lose or overwrite anything, whatever breaks off? | `BundleStore` | TLC, safety proved |

Paths in this file are relative to the repository; `RF` is
`crates/nekodrop-storage/src/received_file.rs`, `RC` is
`apps/desktop/src-tauri/src/commands/receive.rs`.

## How to run

    tlc -workers 2 -config MCFileTransfer.cfg MCFileTransfer      # and so on: one cfg per run
    tlapm FileTransferProofs.tla                                  # and every other *Proofs.tla

The theorems about `FileTransfer` are in `FileTransferProofs`, those about `SessionTraffic` and
`Handshake` in `SessionProofs`, about `LocalBridge` and `BridgeClients` in `BridgeProofs`, about `Pairing`
and `Discovery` in `PairingProofs`, about `Sending`, `ReceiveService` and `BundleStore` in the module of
that name with `Proofs` behind it; `SubsequencesProofs` has the facts about lists that several need.
Modules that meet in one proof module do not share names of variables or of their specification.

`PROJECT.json` lists the components, the runs with what each expects, the source lines of every
definition, the mutants (a plausible bug for every property that holds, which the property's run
finds), the hazards, the findings and the theorems.

## Inventory

### 1. File transfer

*Code*: `nekodrop-service` `lib.rs` (offer, decision, sending and receiving one after the
other), `nekodrop-network` `tcp_file.rs` (frames), `nekodrop-storage` `received_file.rs`,
`resume.rs`, `manifest_builder.rs`, `checksum.rs`, and the send task `commands/send.rs`.

*State*: at the sender the plan (sizes and SHA-256 of the scanned paths), the file and position
it is at, whether the automatic retry is used up; at the receiver the accepted offer with its
resume offsets, the file it is at, hasher and handle of the partial; on disk, per path,
`<path>.nekodrop-part` and the finished file.

*Operations*: scan and offer; accept, decline, refuse for a resume conflict; send header and
chunks; open a partial (new, or at the accepted offset), append, verify, rename; verify a file
that is already complete; cancel on either side; retry once.

*Interaction*: an ordered byte stream that may be cut at any point; the disk is shared by all
connections of the receiver, and by its user.

*Hard*: the source is read again when it is sent, long after it was hashed; partials of an
earlier attempt or of another content; a crash between two writes; two accept loops on one path;
nobody acknowledges the end.

*Correct when*: a finished file is complete and has the offered content; received bytes are not
lost but to a checksum mismatch; a transfer nobody disturbs succeeds; no side waits for ever.

### 2. Receive service of the desktop

*Code*: `RC`, `app_state.rs`. *State*: the session slot, the one slot for the cancel flag of the active
connection, the prompt slot, the shared transfer status, and per loop its session's cancel flag.
*Operations*: `start_receive_once`, `stop_receive_once`, `respond_receive_offer`, the TCP and the iroh
accept loop, `handle_receive_connection`, `wait_for_receive_decision`. *Interaction*: commands and loops are
threads that meet in mutex-guarded slots; the send task writes the same status. *Hard*: every slot has a
lock of its own, so a command is several atomic steps; the loops notice a stop up to 120 ms (iroh 500 ms)
late; the 300 s timeout races the answer, which names no offer, and what the window shows is older than the
slot. *Correct when*: only accepted offers are received, the slots never show what is dead, one start wins,
and stopped loops end.

### 3. Sender task of the desktop, and the window that feeds it

*Code*: `commands/send.rs`, `transfer_history.rs`, `commands/history.rs`, and of the user interface
`context/AppContext.tsx` and `helpers.ts`.  *State*: at the backend the send slot with its cancel
flag, the jobs, the history and its file; in the window `busy`, the queue of sends and its copy in
`localStorage`, the flag of the queued send in flight, the number of the last list that was asked for.
*Operations*: plan, connect, send, retry once, record, cancel; send or queue, stage a text, pause,
resume, remove, send the next entry, send a record again; delete a record, clear, list.
*Interaction*: window, bridge worker and history's resend start send commands that meet in one slot;
whatever ends, ends in any order at the window.  *Hard*: the slot is looked at after the scan
(`send.rs:157`) and cleared by the task that owns it; a handler works on the values of the render it
belongs to, after what it awaited, and the drop handler on those of the first one; every action's end
says idle; answers to lists overtake each other.
*Correct when*: one send runs at a time and a cancel reaches it, no entry is lost or sent twice but
those that a known fault of the window leads astray, the queue drains, and the history that is shown
never goes back.

### 4. Session handshake

*Code*: `nekodrop-service` `lib.rs` 1335-1576, `nekolink-protocol` `lib.rs` 514-1495,
`commands/transfer_targets.rs`, `wait_for_receive_decision`.  *State*: per connection, how far each
end is and what it verified; the long-term keys and the lists of trusted devices.  *Operations*:
hello, ready, the bindings of both ends, the first sealed frame (the offer), its decision.
*Interaction*: two streams, which may be cut; the lists change under a session that is being opened.
*Hard*: the address that is dialled may be another device's by now; trust is read in the handshake
and again at the offer; two ends exchange bindings over one stream; versions differ.  *Correct when*:
both ends agree on one session or have none, an offer goes to the device that is meant and after
that device accepted the caller, and a healthy handshake succeeds.

### 5. Session traffic

*Code*: `nekolink-protocol` `session_traffic.rs`, `open_control_once` in its `lib.rs`.  *State*: the
send counter; the window's highest counter and what it remembers.  *Operations*:
`next_send_header`, `accept`, `prune`.  *Hard*: the lower edge of the window, where what is refused
and what is forgotten must meet; saturating arithmetic; the last counter.  *Correct when*: no
nonce is used twice, no control frame opened twice, the window stays bounded, and frames that
are late by less than the window are taken.

### 6. Pairing and trusted devices

*Code*: `commands/devices.rs`, `trusted_devices.rs`, `device_identity.rs`.  *State*: the pairing
slot, the trust list in memory and its file.  *Operations*: trust, rename, forget, refresh after a
transfer, request, respond, wait for the decision; the discovery thread's refresh of an address.
*Interaction*: commands, connections and the discovery thread share list, file and slot.  *Hard*:
the save truncates the file; the refresh saves outside the lock; the receiver saves trust before its
decision is written (`devices.rs:401`, `lib.rs:805`); a timeout races the answer and clears whatever is
in the slot.  *Correct when*: what the user and the requester were told is so, also after restarts,
and every request is answered.

### 7. Discovery

*Code*: `discovery.rs` of the desktop.  *State*: nearby devices, their last sight and their service
names, three tables under three locks; the advertiser's last port.  *Operations*: resolve, remove,
purge; register, withdraw.  *Hard*: a device may rename itself, move to another's address, or leave
without a word, between any two tables.  *Correct when*: the tables agree, the list ends with the
devices that are there, and a desktop is advertised while it receives.

### 8. Local bridge: requests, queue, worker, results, events

*Code*: `commands/local_bridge/`, `commands/local_bridge_action_results.rs`,
`local_bridge_runtime.rs`.  *State*: pending actions, results and events, each a list with a limit
under a lock of its own; the worker's condition variable.  *Operations*: post (send, import, rollback), the
worker, and the settings page's commands that accept, decline, execute, hand out or preflight.
*Hard*: a post is checked against copies and queued later; executors race for one queue; an action
may fail outside its own code; limits drop the oldest.  *Correct when*: a request is executed once,
a reported request is in hand, events come in order, and a request ends.

### 9. Local bridge clients: authorizations, events, polls

*Code*: `commands/local_bridge/authorizations.rs`, `events.rs`, `commands/local_bridge_events.rs`,
`local_bridge_authorizations.rs`.  *State*: authorizations and their file, codes that wait for the
user, the last 256 events, and at the client its cursor.  *Operations*: ask, confirm, revoke, expire;
push; poll, with a wait of up to 30 s.  *Hard*: a confirmation saves a copy after letting the lock go
(104-118), against a revocation under the lock (157-190); a cursor may be dropped; an event may be
pushed between a poll's snapshot and its wait.  *Correct when*: what is revoked stays revoked, a code
grants what was asked with it, no event is skipped in silence, and news arrive.

### 10. Bundle store

*Code*: `nekodrop-storage/src/bundle/`, `commands/bundles.rs`, `commands/staged_bundles.rs`. *State*: per
bundle_id the staged copy, the import directories `<bundle_id>`, `<bundle_id>-2`, ..., the temporary
directory `<bundle_id>.importing`, and the receipts; all on disk. *Operations*: stage a received bundle
(which replaces the one staged before), delete or prune it, import it (`reject`, `rename`,
`skip_conflicts`), roll the latest import back. *Interaction*: receive handlers stage, commands and the
bridge's worker import and roll back, and no lock is held. *Hard*: the temporary directory is shared by two
imports (`import.rs:81`), files are looked for and then written, a crash leaves a temporary directory or an
import without receipt (`import.rs:130`), a rollback may stop half way (`rollback.rs:87`). *Correct when*:
an import that meets no other one in its destination overwrites nothing there, what one reports that was
alone is there, leftovers block nothing, and a rollback removes what its import wrote and no more.

### 11. The others

Bundle format and compatibility: pure functions of one document, left to unit tests (its outcome
is `StagingFails`).  Transfer history: with the sender task (3).  Transports: external, the stream of
`FileTransfer`.  Configuration: the receive policy is a free choice at each connection in
`ReceiveService`.  Transfer target commands: their verifiers are in `Handshake`.  User interface: its send
queue, lists and prompt are in `Sending` and `Pairing`, its views are not modelled.  Sidecar: a front end
of the plain transfer, which `FileTransfer` has.  Application shell: wiring without state that two
actors share; not modelled.

## The modules

### VerifiedInbox

What the receive directory promises, and nothing of how: an offer, which names a content per file,
is accepted; a file of an accepted offer appears in one step, complete, where nothing was; only the
user takes files away.

### FileTransfer

| Variables | Code |
| --- | --- |
| `source`, `edits` | the files at the sender's paths, and their owner's edits |
| `plain` | whether the peer speaks no session (the sidecar, an old version) |
| `offer` | the plan, which the offer repeats |
| `sst`, `sfile`, `spos`, `retried`, `attempts` | the send task |
| `up`, `wire`, `decision`, `offset` | the stream; the decision with its resume offsets |
| `rst`, `rfile`, `hashed`, `handle`, `outcome` | the connection handler at the receiver |
| `part`, `dest` | the receive directory |
| `calm` | history: nothing disturbed this attempt |

Each action is one handler step between two frames: `SendHeader`, `SendChunk`, `EndOfSource` are the loop of
`send_encrypted_file_frames_with_resume_and_cancel`; `Accept`, `Decline`, `RefuseResumeState`,
`RefuseResumeEntry` the receiver's decision; `OpenPartial`, `AppendChunk`, `FinishFile`, `ChecksumMismatch`,
`RejectData` are `write_received_file_with_resume_and_cancel`, `FinalizeResumed` and `ResumedMismatch` are
`finalize_existing_resume_file`. A plain stream has headers and the bytes of files, and nothing that marks
where bytes end: `AppendPlain` takes whatever comes until the size of the header is reached, be it the next
header or the chunks behind it, and no plain transfer is staged as a bundle. `SendPlain`, `DecidePlain`,
`ReceivePlain` and `EndPlain` are the steps of the code's plain functions, which share their control with
those of a session. The environment cuts the link and loses what was not read (`LinkDown`), kills the
receiver, edits sources, moves finished files away, cancels.

Abstractions:
- a chunk is what one read returns, a SHA-256 is the content it was computed from (no collisions);
- a header that is read as a file's bytes, in a plain stream, is one chunk of any content;
- the plan is scanned in one step, a partial is opened in one step (length test, prefix hash and
  open), and so is verify-and-rename: nothing but another listener could come in between, and
  interference of two listeners is already shown by coarser steps (run `concurrent`);
- connection, session and delivery of the offer are one step (the handshake is component 4);
- the frame that counts the files is left out: its number is the offer's;
- files follow Unix rules: `rename` and `unlink` leave open handles on what they referred to
  (`Renamed`, `Unlinked`, and `Written` for the position of an append and of a created handle);
- the space check is a choice of `Decline`.

### ReceiveService

A step is what happens under one lock. `start_receive_once` is `StartCheck`, `StartPublish`, `StartListen`;
`stop_receive_once` is `StopConnection`, `StopSession`, `StopPrompt`, `StopShow`; `respond_receive_offer` is
`RespondTake`, `RespondApply` (the decision's lock is held through slot and status, so a waiting handler
sees one step); the window runs one such command at a time. The user answers what the window shows
(`shown`), which follows the slot only when the window polls it (`LookAtPrompt`) or a command returns
(`HidePrompt`); the command is told yes or no and no offer, and takes whatever is in the slot. A yes is
consent to the offer that was shown. If another one has taken its place, that one is accepted:
`misdirected` remembers it, and `ReceivesOnlyAccepted` excludes it (it is among the findings). A handler
reads the policy once when it begins: a free choice. The status is reduced to what handlers read of it:
whether the phase is one of the terminal phases tested at RC:532. The send task writes it too
(`SendStatus`), here only when a handler is about to read it. The files of an accepted offer are `FileTransfer`. The
history variable `consent` holds the offers that were accepted themselves. `PromptIsLive` ties the prompt
to the connection its loop handles; whether the sender is still there nobody knows before the answer, so a
prompt may stay for 300 s after it has gone.

### Sending

| Variables | Code |
| --- | --- |
| `busy`, `queue`, `flushing`, `active` | the window's state and refs, with every update asked for |
| `rendered`, `effect`, `stored` | what the last render saw, whether its effects are to run, `localStorage` |
| `staged`, `cancelling`, `editing`, `other` | handlers that wait for a command |
| `lists`, `transfersRefreshSeq`, `shown` | lists of the history under way, their number, what is shown |
| `jobs`, `slot` | the send commands, and whose flag is in `active_send_cancel` |
| `history`, `file`, `version` | the records, their file, and how often they changed |
| `asked`, `dropped`, `strays`, `reset` | history: entries, refused or removed ones; what the two exceptions are about |

The window is one thread: a step of it is what runs until the next `await`. `Render` takes the newest
values, `Effect` works on the rendered ones (it stores the queue and sends its first entry that is not
paused); a handler that waited for a text goes on with the render it began in (`TextStaged`). The composer
sends or queues (`Send`). A file dropped on a device, or sent from the list of devices, is never queued
(`Drop`): the drop handler was registered by the first render and sees its idle window for ever, so the
backend refuses the send while another runs. A send command is `PlanFails` or `Claim` (look at the slot and
take it, under one lock), `Retry`, `SendEnds`, `Record`, and at the window `JobAnswered` (the history is
listed) and `JobEnds`. `Cancel`, `Pause`, `Edit` and their ends are the other handlers, `OtherBegins` and
`OtherEnds` stand for every action that says busy and has no further effect here. `Restart` keeps the
stored queue and the saved history.

The code does lose and double entries, and `strays` says which: when a queue that a handler or an
effect made from an older render takes the place of the newest, or a restart takes up the stored one, the
entries that are in one of the two only; the copy that a pause makes while the queue is full, of
which the user is told that it is paused; a text that is being staged when the application ends.  All
others keep their place (`EntriesAccounted`), also those that wait beside an entry that goes astray.

Abstractions: a payload is the number of its entry; a history is a version besides its records; what
happens on the wire is `FileTransfer`; a save writes all or nothing (the crash inside a save that
truncates is in `Pairing`, whose file is written the same way).

### Subsequences

Rust's `retain`, `drain` and a limit that drops the oldest, on lists: `Keep(s, I)` is what stays of `s`
when only the positions `I` are kept, `LastOf(s, n)` its last `n`.  `LocalBridge` (queue, results),
`BridgeClients` (pages), `Discovery` (the list of devices) and `Sending` (`Others`, the history without a
record) use them where `SelectSeq` would do as well for TLC, because about these something can be proved.

### LocalBridge

A request is `request_id`, kind and client (`SameRequest`); with the same payload it is the same action
(`SameAction`). The settings page names actions by `request_id` only (`Id`), and two requests may share
one. A connection copies the results (`Post`), then the queue; if either knows the request (`KnownAt`, the
queue before the copy) it answers (`AnswerRetry`), as a retry or, if the payload differs, with a refusal;
else (`NotSeen`) it queues under the queue's lock (`Enqueue`), as `dispatch.rs:98-107` and
`queue.rs:336-348` do. `Comes` is which payloads a request is posted with. Executors (worker and command
threads) take an action, say that it runs, and record its end. `Breaks` is an error outside the action's
own code: an accepted one is recorded as failed if it was begun, else nothing is. A result and its event
are one step. Only authorized requests are here: others change nothing. Nothing is persisted, so there is
no restart. What an execution does to the disk is the bundle store's and `FileTransfer`'s matter; here it
has an outcome, and a result that names the payload, names the bundle that was found on the disk instead
(`Detected`), or names none (`SendOutcomes`, `ImportOutcomes`, `RollbackOutcomes`, `Shape`): that is what a
later retry is compared with. `Unasked` is what the result of a send or an import may name other than what
was asked for, and the second case in which `RefusedOnlyForAnother` lets a retry be refused.

### Handshake

One action per frame that an end reads or writes first: `Dial` (connect and hello), `AcceptHello`,
`ReceiveReady`, `ReceiveInitiatorBinding`, `ReceiveResponderBinding`, `ReceiveOffer`; what makes an end
refuse is in the same action, as in the code. `meant` is the device and key the caller looked up,
`answerer` who sits at the address; both are free. Around them keys change (`Rekey`), receivers trust and
forget (`Trust`), the connection is lost with or without what is in flight (`Lose`), an end dies (`Dead`).

Abstractions: signatures and hashes are what they are computed from; ephemeral keys and the session's
name stand in the transcript by the connection; device ids of the two ends differ (the directions'
keys depend on it); the policy is `AutoAcceptTrusted`, the only one under which trust decides.

### Pairing

A command on the list is `Lock` (with the changed clone), `SaveOpens` (which empties the file),
`SaveWrites`, `Commit`, or one of its failures; the refresh of discovery changes memory first, then
`RefreshOpens`, `RefreshWrites` without the lock; two writers that have both opened the file leave one
of the texts, or the end of the longer one behind the shorter (`Written`).  A request is
`RequestArrives`, then `SeeDecision` or `RequestTimesOut`, `TrustRequester` and the save, `EndConnection`.
`shown` is what the window shows: the user answers it, and the command applies the answer to the slot.
`acked` and `dirty` are history: what the user was last told, and whether the file was cut, overlapped
or overwritten by an older list since.  A list record is host and alias; codes are right or wrong.

### Discovery

The browser's work on one event is a chain of steps, one per table (`work`); the daemon is external: it
delivers in order, and goodbyes may be lost.  Ten minutes are the step `GrowStale`.  The advertiser's
round is one step: it reads the session and changes only what nobody else writes.  A description that
`ServiceInfo::new` refuses (`DescriptionRefused`) ends the round after the old registration was removed
and before the port is remembered: `forgone` is the port that is then taken for registered.  The public
key, whose lack would end the round as well, cannot lack: the seed it is derived from is validated
when the identity is loaded (`device_identity.rs:203`) and never changes.

### BridgeClients

Requests, codes, confirmations (`Confirm`, `ConfirmClones`, `ConfirmSaves`; several may be between their
change and their save), revocations, pruning and restarts; a save truncates the file first, so one that
fails may leave it cut (`form`), and with such a file the desktop does not start (`main.rs:17`); the event
queue with its limit; per client a cursor and a poll: `PollStarts` copies the grants, `PollPages` answers
from the queue, or `PollWaits` takes the last event as its baseline and `PollWakes` reads the queue with the
grants of the start. `PollLost` is an answer that does not arrive. A page is a set of events, whose numbers
are their order: its last one (`Newest`) becomes the cursor. `Repeating` names the kinds of events whose id
the code builds from names and which may come twice. `bound` is chosen at the start: it lets one run hold
two scenarios.

### BundleStore

| Variables | Code |
| --- | --- |
| `staged`, `stager` | the staging directory of the bundle; what a receive handler has still to copy |
| `dest`, `temp`, `receipts` | `<bundle_id>` and `<bundle_id>-d`, `<bundle_id>.importing`, the receipts by age |
| `job` | per thread, where it is in `import_staged_bundle_with_strategy` or `rollback_bundle_import` |
| `refused` | threads whose import ended with an error other than the disk's |
| `calm`, `beside` | history: undisturbed jobs; imports that met another one in their destination |
| `origin`, `spoiled` | history: who wrote a file; directories of which `RollbackRemovesItsOwn` says nothing |

One import is `ImportPlan`, `ImportOpen` (detect again, choose the place, clear the temporary
directory), `ImportFile` for each file, with `ImportLook` before it when conflicts are skipped,
`ImportRename`, `ImportReceipt`; the refusals and failures of
each have actions of their own, and `Crash` may come between any two.  A rollback is `RollbackPlan`,
`RollbackFile` for each file, `RollbackDirectory`.

Abstractions:
- one bundle_id.  Others have other directories, but for an id such as `b-2`, whose directory is also the
  second one of `b` under the rename strategy, and all share the list of receipts;
- a file's copy is whole or `Torn`, the removal of a directory is one step, and subdirectories are left
  out;
- `list_bundle_import_receipts` sorts by the millisecond of the import: receipts are a sequence, that
  is, no two imports end in one millisecond;
- bundles that may only be saved are not imported: that refusal changes nothing;
- the receipt is written through a temporary file and a rename, so it is there or not.

Two properties have exceptions, because the code does what they except.  `ImportNeverOverwrites`: two
imports that are under way into one destination (`beside`); both may look for a file before either
writes it, and `fs::copy` truncates.  `RollbackRemovesItsOwn`: a directory is `spoiled` once an import that
has left no receipt wrote into it, or has not yet when an older one is rolled back; once two imports
were under way into it at the same time; or once an import put a file there that one of several
rollbacks had still to remove.  Each spoils one directory, the others stay covered.

### SessionTraffic

One direction: the sender's counter, the frames it sealed, and the receiver's window, to which
control frames come late, out of order or again.  File frames carry no window: their order is
`NextChunk` of `FileTransfer`.  `CounterMax` stands for `u64::MAX`, the counter `next_session_counter`
refuses to use.  In the program, the stream is ordered; the window is specified for what its own
interface and unit tests promise.

## The runs

| Run | Instance | Expected | What it shows |
| --- | --- | --- | --- |
| `file_transfer` | 1 listener, with or without a session, 2 files, 3 contents, 2 attempts, 1 edit | pass, 425 240 states | the inbox is implemented; no progress lost; undisturbed transfers succeed; attempts end |
| `concurrent` | 2 listeners, 1 file, 1 attempt each | violation | finding 1 |
| `receive_service` | 2 sessions on TCP, or 1 on TCP and iroh; 2 connections | pass, 806 799 states | accepted offers only, but for a late yes; slots are live; one start wins; stopped loops end |
| `receive_restart` | 2 sessions on TCP | violation | finding 2 |
| `sending` | 8 budgets; queue 2, history 2, 1 retry | pass, 615 309 states | one send at a time; no entry lost but known strays; the history moves forward; the queue drains |
| `session_traffic` | 8 counters, window 3 | pass, 9 841 states | nonces, replay, bounds |
| `handshake` | 1 connection of one caller to one of 2 devices of 2 versions, 2 keys each, both modes | pass, 46 897 states | one session, the right device, trust in time, success |
| `pairing` | 1 peer, 2 requests | pass, 366 178 states | what was told is so; every request is answered |
| `discovery` | 3 services of 2 devices at 2 addresses, 2 ports, 5 changes | pass, 208 198 states | tables agree; the departed leave; advertised while receiving, but at a forgone port |
| `local_bridge` | 3 requests, one with 2 payloads, 2 connections, worker, 1 command thread; 3 posts of 2 of them and 1 command, or 2 posts and 2 commands; queue 1, results 2 | pass, 211 789 states | executed once, in hand, in order, refused only for another payload or bundle, ended |
| `bridge_clients` | 2 clients, 2 scopes, 2 codes or 3 events, queue 2, pages of 1 | pass, 437 932 states | grants follow the user; no event skipped; news arrive |
| `bundle_store` | 2 threads with 3 jobs, 1 handler, 2 versions of 2 files, 2 stagings | pass, 2 403 414 states | no overwriting but where imports meet, complete imports, no blocking leftovers, exact rollbacks |

**Properties** (what is not said to be another kind is an invariant).
`FileTransfer`: `ImplementsVerifiedInbox` (refinement), `AdvanceOnlyWhenDelivered` and
`ResumeKeepsProgress` (action properties), `HealthyTransferSucceeds`, `AttemptsEnd` (liveness).
`ReceiveService`: `ReceivesOnlyAccepted`, `SlotIsLive`, `PromptIsLive`, `OneStartWins`, `StoppedLoopsEnd`
(liveness).  `Sending`: `SlotIsTheSenders`, `EntriesAccounted`, `HistoryNeverGoesBack` (action property),
`QueueDrains` (liveness).  `SessionTraffic`: `NonceUnique`, `OpenedOnce`, `LateFrameTaken`.
`LocalBridge`: `ExecutedOnce`, `PendingIsInHand`, `EventsInOrder`, `RefusedOnlyForAnother`, `RequestEnds`
(liveness).  `BundleStore`: `ImportNeverOverwrites`, `ImportIsComplete`, `RollbackRemovesItsOwn` (action
properties), `HealthyImportSucceeds`.  `Handshake`: `EndsAgree`, `OfferAfterAcceptance`,
`OfferReachesTheMeant`, `AutoAcceptedIsTrusted` (action property), `HealthyHandshakeSucceeds` (liveness).
`Pairing`: `AckedHolds`, `AcceptedIsTrusted` (action property), `EveryRequestAnswered` (liveness).
`Discovery`: `TablesAgree`, `DepartedLeave` and `AdvertisedFollowsSession` (liveness).  `BridgeClients`:
`RevokedStaysRevoked`, `NothingSkipped`, `NewsIsDelivered` (liveness).

Stated and proved, and in no run: the type invariant of every module (`TypeOK`, or under the name of its part:
`TrafficTypeOK`, `GrantsTypeOK`, `ReadingTypeOK`, `DiscoveryTypeOK`), and `SeenBounded`, `PartialIsHashed`,
`FileFollowsMemory`, `GrantFollowsCode`.  They hold on the instances above when they are added to the `.cfg`,
and so do the inductive invariants named below.

**Bounds, and why they are enough.**
`MaxAttempts` = 2: what one attempt leaves is met by the next, and a third meets nothing a second
could not (the directory holds no trace of how often it was tried).  `MaxEdits` = 1 gives two
versions of a file, before, between or during the attempts.  Two files: the step from one to the
next, and the last one; contents of 0 and 2 chunks, two of them with a common prefix: no, partial and full
resume, right and wrong prefix.  `Present` = {an empty file} puts a file that no transfer wrote into the
directory.  Two loops are the smallest race of start, stop and restart (two sessions on TCP) and of two
transports (one session): `Instances` holds both.  Two connections give two prompts, two cancel flags, and a
late answer, also one to a prompt that is no longer in the slot.  Queue limit 1 and result limit 2 with
three posts make both limits bite, with the two requests that share a `request_id`; two posts
with two commands let the settings page work against itself, over all three requests.
The eight budgets of `Sending` each make one group meet: a staged text and a stored queue; a direct
send or a drop and another action beside the queue; pauses until the queue is full; a pause and an entry
that is resumed or removed; a send of the bridge, a cancel and a
retry; all who change or list the history, with a save that may fail; a record that is sent again
while it is deleted; a restart.  Events of one group meet those of another only through `busy`, the slot and the
history, which each budget has writers of.  Eight counters with a window of 3 let frames leave
the window from both sides and let the counters run out.  Three jobs on two threads are an import that
breaks off, one after it and its rollback, with any two overlapping; two stagings replace the bundle
under an import; the second version has one of the first's two files, so an import that skips
conflicts finds one file in its way and one missing.
One connection of the handshake meets every pair of versions, keys, trust and modes; what connections
share, keys and lists, changes around it.  Two requests of one peer compete for one prompt and one
entry of the list.  Five changes are a device that appears, renames itself and moves to another's
address, and leaves.  A queue of two events read one by one lets a cursor be dropped by the third.

**Stopping.**  All runs switch the deadlock check off: a model stops when its bounds are used up, and
a program at rest waits for its user.

## Fairness

- `FileTransfer`: weak fairness of each side's own steps.  Both run in a thread of their own,
  blocked only on the stream: reads and writes of a dead stream fail, a live one that is silent for
  60 s is given up, and the decision comes within 300 s or is taken as a no.  Nothing is assumed of
  link, users, retries or edits.
- `ReceiveService`: weak fairness of each accept loop with the handler it runs (one thread).  Every
  wait in it has a timeout.  Nothing is assumed of commands, peers or the user.
- `Handshake`: weak fairness of each connection's own steps (`Step`): both ends run in threads of their own,
  and a read of a lost or silent stream ends.  Nothing is assumed of links, users or keys.
- `Pairing`: weak fairness of whoever holds the lock and of each connection's wait, which has a timeout;
  strong fairness of the connection that waits for the lock, since others may take it again and again
  (a mutex lets every waiter in at last).  Nothing is assumed of users, peers or the file.
- `Discovery`: weak fairness of the browser's loop, of the advertiser's two-second round and of time
  (`GrowStale`); strong fairness of `Register`, that is, a registration that is tried again and again
  succeeds in the end.
- `BridgeClients`: weak fairness of polling clients and of a poll's end (its wait has a timeout).
- `Sending`: weak fairness of `Progress`, everything that goes on by itself: commands run on threads
  and end, promises are settled, React renders.  What users begin is bounded, so no part of it can
  keep the rest from its turn.  Nothing is assumed of users.
- `LocalBridge`: weak fairness of the worker's thread, of each connection and of each command until
  it returns.  An execution returns: that is `AttemptsEnd` for a send.

## What is proved

All for every value of the constants: any number of files, chunks, contents, attempts, clients,
connections, requests, devices, threads and versions, any limits, windows and budgets.  Every safety
invariant and every action property that a run checks is a theorem, and so is every type invariant.

Some of these properties except what the code is known to do wrong or does not promise, and their comments
say so; a history variable names the cases (`misdirected`, `strays`, `beside`, `spoiled`, `dirty`,
`overwritten`, `overlapped`, `evicted`, `abandoned`; in liveness properties `forgone` and `reset`). Such a
theorem says that nothing else goes wrong.

**`FileTransferProofs`.**  `TypeCorrect`, type correctness with **any** number of listeners: `TypeOK` is not
inductive, since `rfile` indexes the offer and `handle` says which file a write goes to.  The inductive
invariant is `ControlInv` = `TypeOK` /\ `PositionsOK` (where each side is in the list of files, by its
state) /\ `HandlesOK` (an open handle refers to something that is there).  The others assume
`OneListener` (iroh receiving off, the default), and the run `concurrent` shows that the refinement
needs it.
- `OpenPartialIsHashed`, `DeliveredBeforeAdvance`, `ProgressIsKept`, and `TransferImplementsInbox`, the
  refinement, from `SoloInv` = `ControlInv` /\ `PartialIsHashed` /\ `StartsEmpty`: the rename moves
  whatever is at the partial's path, the SHA-256 is of what was fed to the hasher; that they are the
  same is `PartialIsHashed`, and that opening at offset 0 loses nothing is `StartsEmpty`.
- `HealthyTransfers` from `HealthyInv`, which says of an undisturbed attempt that the frames under way
  lead from what the receiver expects to what the sender writes next, each of them the offer's at its
  place (`InOrder`, `TrueFrame`), that what was hashed is a start of the file (`StartOf`), and that a file
  still to come lies in the directory as it did at the decision (`AsDecided`).  A sender that reads on
  behind the offset and a receiver that expects the next frame each keep it by one lemma
  (`SenderGoesOn`, `ReceiverGoesOn`); every error path of the receiver then contradicts it.

**`SessionProofs`.**
- `NoncesAreUnique` from `SentBelowCounter`; `NothingOpenedTwice` from `OpenedIsCovered` (what was opened
  is remembered, or below the window for ever: the window's lower end never moves down,
  `MinimumMonotone`) and `SeenInWindow`; `WindowStaysSmall` by counting an interval; `LateFramesAreTaken`;
  `TrafficTypeCorrect`.
- `HandshakeTypeCorrect`, `TheEndsAgree`, `OffersFollowAcceptance`, `OffersReachTheMeant` and
  `AutoAcceptsOnlyTrusted` from `HandshakeInv`: at most one message of a connection is in flight
  (`HalfDuplex`), the stages of the two ends belong together (`Order`), and each stage has what it was
  reached by (`ChosenWell`, `SameSession`, `ModesKept`, `Reached`).

**`ReceiveServiceProofs`**: `OnlyAcceptedIsReceived`, `SessionInSlotIsLive`, `PromptHasItsConnection`,
`RaceHasOneWinner` and `ServiceTypeCorrect`.  The invariant `ServiceInv` says what each step relies on between
two locks: what is accepted was consented to for that very connection or got the yes to another
(`AcceptedIsConsented`), and the prompt is held by the handler that put it there (`PromptIsHeld`).

**`SendingProofs`**: `SendingTypeCorrect`; `OneSendAtATime` from `SlotInv` (the jobs are a sequence, the slot
names one of them, namely the one at the wire); `ShownHistoryAdvances` from `ListsInv` (numbers of lists
are different and at most the last; the answer to the last one is not older than what is shown);
`EveryEntryHasItsPlace` from `QueuesApart` (the newest, the rendered and the stored queue and those of
staged texts hold no entry twice, and entries that were made) and `EntriesApart`: the four places of an
entry that did not go astray exclude each other, and none holds it twice.  `Places` counts, the invariant does
not: that counting gives one is the last step.

**`PairingProofs`.**
- `ToldHolds`, `AcceptedWasSaved`, `FileIsTheList` and `PairingTypeCorrect`.  `PairingInv` says what the file
  means while it is being written (`FileIsMeant`, with the two writers that are not under one lock), that
  a save changes one device (`ChangesOne`), that a requester's save is of its own device
  (`SavesRequester`), that a request is decided once (`OneDecision`), and what is kept while the
  application is down (`DownKeeps`).
- `DiscoveryTypeCorrect` and `TablesStayInStep` from `TablesInv`, which says of every step of the browser's
  work which tables already have the device and which still have it.

**`BridgeProofs`.**
- `RevocationHolds`, `CodeGrantsItsRequest` and `GrantsTypeCorrect` from `GrantsInv`, which adds to the
  property that the code of the request that waits is the one that was drawn for it (`CodeIsPendings`).
- `ClientsTypeCorrect`, and `NothingIsSkipped` from `ReadingInv`: a cursor is the id of the last event that
  was read (`CursorIsLast`), and none is left out between two that were (`NoGap`), both only as long as no
  two events share an id, which is what the property assumes.
- `BridgeTypeCorrect`, `ExecutesOnce`, `PendingStaysInHand`, `RefusesOnlyForAnother` and `EventsFollowOrder`
  from `BridgeInv`.  A request that no limit, race or breakdown touched is in one of four states of its
  `Life` (untouched, waiting, in work, over), which fixes queue, executors, executions and events
  together; a connection that found nothing of a request finds it untouched when it queues it
  (`HandlersInv`); and what is kept of a request is what one of its posts said (`PayloadsInv`).

**`BundleStoreProofs`.**
- `NothingOverwritten`, for any number of overlapping jobs, from `LookInv`: two imports under way into one
  destination know that they met, and one that met nobody finds the file that it looked for as it was,
  missing, when it copies it.  A rename is guarded by the destination being absent or empty, and everything
  else removes or writes elsewhere.
- `BundleTypeCorrect`: the search for a free name needs one, and `RoomInv` counts why there is one (a name
  that is taken, the first aside, was taken by a job of its own).
- `HealthyImports` and `ReportedImportsAreComplete` from `CalmInv`: what an undisturbed import has copied is
  what it has ticked off, in the temporary directory or at the destination.
- `RollbacksRemoveTheirOwn` from `OwnInv`: in a directory that is not spoiled, the files of the receipt that
  is the latest there are that import's or gone, what an import has put there is still in its hands until
  it leaves its receipt, and what a rollback has still to remove is its receipt's or gone.

**`SubsequencesProofs`**: what `Keep` and `LastOf` return.  `KeepLists` (the kept elements are numbered
without gaps, each once and in their order) rests on a set of numbers having a least and a greatest member
(`LeastMember`, `GreatestMember`, which `WFMin` of the library gives) and on counting.

Assumptions used are the `ASSUME`s of the modules (contents are sequences of chunks, `NoFile` is none
of them, at least one file, a window of at least one, a bundle has a file, what stands for "none" is none of
the others, limits are positive, budgets are numbers and no more entries are stored than the queue
takes, ...), which TLC evaluates in every run.

**Only model-checked**: the liveness properties (`AttemptsEnd`, `StoppedLoopsEnd`, `QueueDrains`, `RequestEnds`,
`HealthyHandshakeSucceeds`, `EveryRequestAnswered`, `DepartedLeave`, `AdvertisedFollowsSession`,
`NewsIsDelivered`): the prover has no rules for fairness over an action of the model, that is for
`ENABLED`.  What a recursively defined operator computes cannot be proved either, as induction over
data needs a theorem with an operator as its parameter; the models therefore have no recursive operator,
and filter lists with `Keep`.

## Findings

1. `concurrent`: two listeners receive one path at once; one handler renames the other's unfinished
   partial, so a finished file was never verified as a whole (RF:229; PROTOCOL.md:611).
2. `receive_restart`: a stopped TCP loop empties the session slot without looking whose session is in
   it; after a quick restart nothing can stop the new listener (RC:589).

Observed while modelling, without a run of its own:

*Transfers and the receive service*
- `respond_receive_offer` has no offer's id: a yes to an offer that expired or was stopped accepts the
  one that is in the slot by then (RC:882, `RespondTake`; what `misdirected` excludes);
- a partial of full length and wrong content is found wrong and kept, so every later attempt fails on
  it (RF:269, `ResumedMismatch`; against the comment at RF:221);
- an empty file is never received: offset 0 equals size 0, which is taken for "already there" (RF:115,
  `FinalizeResumed`);
- docs/product/STATUS.md:41 says that cancelling a receive removes the partial; the code keeps it, as
  the comment in its loop and the audit say (`AbortReceive`, `ResumeKeepsProgress`);
- whether a failed receive is recorded depends on a phase that other connections, the sender and the
  stop write too (RC:532, `Record`);
- the sender reports completion when everything is written; the end may be lost and nothing acknowledges
  it (`send.rs:318`, `SendFinished` and `LinkDown`);
- a device that is trusted between its handshake and its offer gets the offer blocked (RC:1016, `ReceiveOffer`).

*Sending*
- `README.md:32` says that a failed entry of the queue is queued again once; `runSend` catches every
  error itself, so the queue never learns of one, and the same line's queue that survives a restart
  loses the entry in flight (the next `Effect` stores the queue without it, long before the send ends);
- any other action that ends while a queued send is in flight clears `busy`
  (`AppContext.tsx:851`), and the rest of the queue waits for the next change, against `helpers.ts:167` (what
  `reset` excludes);
- a text is queued into the queue of the render in which its staging began: what was queued or sent
  meanwhile is undone (`AppContext.tsx:822`; what `strays` excludes);
- files dropped on a device while a send runs are not queued but refused by the backend: the handler
  is registered once, with the values of the first render (`AppContext.tsx:522-563`, `Drop`);
- pausing with a full queue loses the payload while the toast says it is paused (`AppContext.tsx:882-883`,
  `Pause`; what `strays` excludes); pausing after the send
  ended queues it once more, and its cancel may hit the next send, since a cancel names no send
  (`CancelRuns`);
- a history file that was cut keeps the application from starting, as the trust list does;
- `read_received_text` asks for the status "succeeded" or "done" (`history.rs:39`), while a receive is
  recorded as "completed" (`receive.rs:459-462`): it always refuses.

*Pairing and discovery*
- the trust list is saved by truncating its file: after a crash inside the write the application does not
  start (`Restart` to "broken");
- the refresh of an address saves a clone outside the lock and may write an older list over a newer one
  (`discovery.rs:335`; what `dirty` excludes);
- `respond_pairing_request` has no request id: the user may accept another request than the one shown
  (`devices.rs:232`, `Respond`);
- an acceptance that races the 300 s timeout is lost (`RequestTimesOut`), and `ClearPrompt`,
  `EndConnection` and the timeout clear another request's prompt; that request then times out;
- a description of the service that is refused leaves the desktop unadvertised if it then receives on its
  former port again (`discovery.rs:186-196`, `DescriptionRefused`; what `forgone` excludes);
- the advertised address is not renewed while the port stays the same; a device that announces itself
  again is shown as untrusted; the list may hold one id twice; a device that is online but silent for ten
  minutes is dropped.

*Local bridge*
- a retry is compared with what the result recorded; the result of an import that was declined, runs by
  the settings page's next-import command or failed outside its own code has no bundle_id (`queue.rs:43-50`,
  `144-170`, `785-797`), so the same request with the same payload is refused as another
  (`local_bridge_action_results.rs:198`; ADAPTER_SPEC.md:241 promises the existing result); so is one
  whose result names the bundle found on the disk, which need not be the one asked for
  (`queue.rs:1007-1021`, `1172-1182`; what `Unasked` excludes in `RefusedOnlyForAnother`);
- a request brought by two connections at once is executed twice if the worker comes between them
  (`dispatch.rs:101`; ADAPTER_SPEC.md:239);
- the worker and the user's yes record the end of an import and push no event
  (`queue.rs:301`, `queue.rs:106`), although ADAPTER_SPEC.md:237 tells applications to watch them;
- the worker leaves no record of an action that fails on an error of its surroundings, although
  `queue.rs:85` gives the reason why the user's command does (`Breaks`, `abandoned`);
- a confirmation saves a copy taken before a revocation and may bring the grant back in the file
  (`authorizations.rs:108-117`; what `overwritten` excludes); two confirmations do the same to each other;
- a long poll answers with grants that are up to 30 s old; an event pushed between its snapshot and its
  baseline does not wake it (it comes with the timeout);
- the event ids of received bundles repeat when a bundle comes again in one transfer, and a cursor at such an id
  skips what lies between without being reported as missing (ADAPTER_SPEC.md:255).

*Bundles*
- two imports with `skip_conflicts` that overlap may both look for a file before either writes it, and
  the second truncates what the first wrote (`import.rs:112` and `379`; ADAPTER_SPEC.md:245 says that files
  that are there are not overwritten; what `beside` excludes);
- two imports of one bundle that overlap share `<bundle_id>.importing`: one of them may report an import
  that lacks files (`ImportIsComplete` holds for imports that are alone);
- an import during which a receive replaces the staged bundle may copy a mixture of two versions;
- a crash between rename and receipt leaves an import that no rollback of its own can find and that makes
  `reject` refuse (`rename` gets past it); the rollback of an older receipt for the same directory removes
  those of its files that the receipt names (`ReceiptFails` and `Crash` mark it `spoiled`);
- an import with `skip_conflicts` that breaks off leaves its files, one of them possibly torn, and the
  next one skips them as files that are there (BUNDLE_SPEC.md:98 speaks of the temporary directory,
  which this strategy does not use).

## Not modelled, and why

- The other requests of the local bridge: they read configuration, lists and results and change nothing.
- Bundle format, compatibility and permissions: pure functions of one document, which unit tests reach.
- Encodings: tickets, connection codes, HTTP and JSON of the bridge.
- The user interface beyond its send queue, lists and prompts; the sidecar's command line; shell; tray.
