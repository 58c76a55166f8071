---------------------------- MODULE FileTransfer -----------------------------
(***************************************************************************)
(* One receiver, with its receive directory, and the senders that offer it *)
(* files: the offer and the decision with its resume offsets, the encrypted*)
(* file frames, the .nekodrop-part file each path is received into, its    *)
(* checksum and the rename that finishes it; link failures, cancellation,  *)
(* crashes of the receiver, the automatic retry, and source files edited   *)
(* between or during the attempts.  A peer that speaks no session (the     *)
(* sidecar, an old version) sends plain: headers and file bytes follow each*)
(* other in one stream with nothing that marks where bytes end.            *)
(*                                                                         *)
(* The receiver runs one accept loop per transport ("listener": TCP, and   *)
(* iroh when cross-network receiving is on).  A loop handles one           *)
(* connection at a time, the loops share the receive directory.  Each      *)
(* listener has one peer that sends to it, attempt after attempt.          *)
(*                                                                         *)
(* The content of a file is a sequence of chunks (one read of the copy     *)
(* loops each); a SHA-256 is the content it was computed from.             *)
(***************************************************************************)
EXTENDS Naturals, Sequences, SequencesExt

CONSTANTS
    Listeners,    \* the receiver's accept loops
    NFiles,       \* how many files an offer has
    Chunks,       \* what a chunk may hold
    Contents,     \* the contents a source file takes
    NoFile,       \* nothing at a path
    Present,      \* what other files the directory may hold from the start
    MaxAttempts,  \* bound: connections per listener
    MaxEdits      \* bound: edits of source files

ASSUME NFilesAssumption == NFiles \in Nat \ {0}
ASSUME ContentsAssumption == Contents \subseteq Seq(Chunks)
ASSUME NoFileAssumption == NoFile \notin Seq(Chunks)
ASSUME PresentAssumption == Present \subseteq Seq(Chunks)
ASSUME BoundsAssumption == MaxAttempts \in Nat /\ MaxEdits \in Nat

Files == 1..NFiles

VARIABLES
    source,    \* [l][f]: the sender's file as it is now
    offer,     \* [l][f]: size and SHA-256 in the plan, sent as the offer
    sst,       \* [l]: where the sender is
    sfile,     \* [l]: the file it is sending
    spos,      \* [l]: how much of that file it has read
    retried,   \* [l]: the automatic retry is used up
    up,        \* [l]: the connection still takes writes
    wire,      \* [l]: frames written and not yet read
    decision,  \* [l]: the receiver's answer to the offer
    offset,    \* [l][f]: resume offsets of the accepting decision
    rst,       \* [l]: where the receiver's connection handler is
    rfile,     \* [l]: the file it expects or receives
    hashed,    \* [l]: the bytes fed to the hasher
    handle,    \* [l]: what the open partial's handle refers to
    outcome,   \* [l]: how the receiver's last attempt ended
    part,      \* [f]: <path>.nekodrop-part
    dest,      \* [f]: the finished file
    calm,      \* [l] (history): nothing disturbed this attempt so far
    attempts,  \* [l]: connections made
    edits,     \* source files edited
    plain      \* [l]: the peer sends without a session

senderVars   == <<offer, sst, sfile, spos, retried, attempts>>
connVars     == <<up, wire, decision, offset>>
receiverVars == <<rst, rfile, hashed, handle, outcome>>
diskVars     == <<part, dest>>
sourceVars   == <<source, edits, plain>>

vars == <<senderVars, connVars, receiverVars, diskVars, sourceVars, calm>>

SenderStates   == {"idle", "waiting", "header", "data", "sent", "broken", "ended"}
ReceiverStates == {"idle", "deciding", "header", "data", "staging"}
Outcomes       == {"none", "declined", "failed", "checksum", "done"}
Handles        == {"none", "part", "dest", "gone"}

HeaderFrame == [type : {"header"}, file : Files, size : Nat, sha : Contents, offset : Nat]
DataFrame   == [type : {"data"}, file : Files, offset : Nat, chunk : Chunks]

SenderTypeOK ==
    /\ offer \in [Listeners -> [Files -> Contents]]
    /\ sst \in [Listeners -> SenderStates]
    /\ sfile \in [Listeners -> 1..(NFiles + 1)]
    /\ spos \in [Listeners -> Nat]
    /\ retried \in [Listeners -> BOOLEAN]
    /\ attempts \in [Listeners -> Nat]

ConnTypeOK ==
    /\ up \in [Listeners -> BOOLEAN]
    /\ wire \in [Listeners -> Seq(HeaderFrame \cup DataFrame)]
    /\ decision \in [Listeners -> {"none", "accepted", "declined"}]
    /\ offset \in [Listeners -> [Files -> Nat]]

ReceiverTypeOK ==
    /\ rst \in [Listeners -> ReceiverStates]
    /\ rfile \in [Listeners -> 1..(NFiles + 1)]
    /\ hashed \in [Listeners -> Seq(Chunks)]
    /\ handle \in [Listeners -> Handles]
    /\ outcome \in [Listeners -> Outcomes]

DiskTypeOK ==
    /\ part \in [Files -> Seq(Chunks) \cup {NoFile}]
    /\ dest \in [Files -> Seq(Chunks) \cup {NoFile}]

SourceTypeOK ==
    /\ source \in [Listeners -> [Files -> Contents]]
    /\ edits \in Nat
    /\ plain \in [Listeners -> BOOLEAN]

TypeOK ==
    /\ SenderTypeOK
    /\ ConnTypeOK
    /\ ReceiverTypeOK
    /\ DiskTypeOK
    /\ SourceTypeOK
    /\ calm \in [Listeners -> BOOLEAN]

Init ==
    /\ source \in [Listeners -> [Files -> Contents]]
    /\ offer = source
    /\ sst = [l \in Listeners |-> "idle"]
    /\ sfile = [l \in Listeners |-> 1]
    /\ spos = [l \in Listeners |-> 0]
    /\ retried = [l \in Listeners |-> FALSE]
    /\ up = [l \in Listeners |-> FALSE]
    /\ wire = [l \in Listeners |-> <<>>]
    /\ decision = [l \in Listeners |-> "none"]
    /\ offset = [l \in Listeners |-> [f \in Files |-> 0]]
    /\ rst = [l \in Listeners |-> "idle"]
    /\ rfile = [l \in Listeners |-> 1]
    /\ hashed = [l \in Listeners |-> <<>>]
    /\ handle = [l \in Listeners |-> "none"]
    /\ outcome = [l \in Listeners |-> "none"]
    /\ part = [f \in Files |-> NoFile]
    /\ dest \in [Files -> Present \cup {NoFile}]
    /\ calm = [l \in Listeners |-> FALSE]
    /\ attempts = [l \in Listeners |-> 0]
    /\ edits = 0
    /\ plain \in [Listeners -> BOOLEAN]

-----------------------------------------------------------------------------
(* The sender: plan, connection, decision, frames.                          *)

\* A connection is made, the session authenticated, unless the peer speaks none, and the
\* offer delivered.
Connect(l) ==
    /\ rst[l] = "idle"
    /\ attempts[l] < MaxAttempts
    /\ attempts' = [attempts EXCEPT ![l] = @ + 1]
    /\ sst' = [sst EXCEPT ![l] = "waiting"]
    /\ up' = [up EXCEPT ![l] = TRUE]
    /\ wire' = [wire EXCEPT ![l] = <<>>]
    /\ decision' = [decision EXCEPT ![l] = "none"]
    /\ rst' = [rst EXCEPT ![l] = "deciding"]
    /\ outcome' = [outcome EXCEPT ![l] = "none"]
    /\ offset' = [offset EXCEPT ![l] = [f \in Files |-> 0]]
    /\ UNCHANGED <<sfile, spos, rfile, hashed, handle, diskVars, sourceVars>>

\* The user sends: the paths are scanned and hashed into a new plan.
SendPaths(l) ==
    /\ sst[l] \in {"idle", "sent", "broken", "ended"}
    /\ Connect(l)
    /\ offer' = [offer EXCEPT ![l] = source[l]]
    /\ retried' = [retried EXCEPT ![l] = FALSE]
    /\ calm' = [calm EXCEPT ![l] = TRUE]

\* A retryable failure: the same plan is offered once more, not rescanned (the desktop's
\* sender, which always opens a session).
AutoRetry(l) ==
    /\ sst[l] = "broken"
    /\ ~plain[l]
    /\ ~retried[l]
    /\ Connect(l)
    /\ retried' = [retried EXCEPT ![l] = TRUE]
    /\ calm' = [calm EXCEPT ![l] = (offer[l] = source[l])]
    /\ UNCHANGED offer

\* The send task returns: the stream is dropped.
Stop(l, s) ==
    /\ sst' = [sst EXCEPT ![l] = s]
    /\ sfile' = [sfile EXCEPT ![l] = 1]
    /\ spos' = [spos EXCEPT ![l] = 0]
    /\ up' = [up EXCEPT ![l] = FALSE]
    /\ UNCHANGED <<offer, retried, attempts>>

\* No file shrank below the offset it is to be resumed at.
OffsetsFit(l) == \A f \in Files : offset[l][f] <= Len(source[l][f])

\* The accepting decision arrives and its offsets fit the files as they are.
ReadAccept(l) ==
    /\ sst[l] = "waiting"
    /\ decision[l] = "accepted"
    /\ OffsetsFit(l)
    /\ sst' = [sst EXCEPT ![l] = "header"]
    /\ decision' = [decision EXCEPT ![l] = "none"]
    /\ UNCHANGED <<offer, sfile, spos, retried, attempts, up, wire, offset, receiverVars,
                   diskVars, sourceVars, calm>>

\* The offer was declined, or an offset lies beyond a file that shrank.
ReadRefusal(l) ==
    /\ sst[l] = "waiting"
    /\ \/ decision[l] = "declined"
       \/ decision[l] = "accepted" /\ ~OffsetsFit(l)
    /\ Stop(l, "ended")
    /\ decision' = [decision EXCEPT ![l] = "none"]
    /\ UNCHANGED <<wire, offset, receiverVars, diskVars, sourceVars, calm>>

\* What is written before the bytes of a file: its size now, the plan's SHA-256.
FileHeader(l, f) ==
    [type |-> "header", file |-> f, size |-> Len(source[l][f]), sha |-> offer[l][f],
     offset |-> offset[l][f]]

\* Mutant: the source is read from its start whatever the header says.
SendHeader_NoSeek(l) ==
    LET f == sfile[l] IN
    /\ sst[l] = "header"
    /\ f <= NFiles
    /\ up[l]
    /\ offset[l][f] <= Len(source[l][f])
    /\ wire' = [wire EXCEPT ![l] = Append(@, FileHeader(l, f))]
    /\ spos' = [spos EXCEPT ![l] = 0]
    /\ sst' = [sst EXCEPT ![l] = "data"]
    /\ UNCHANGED <<offer, sfile, retried, attempts, up, decision, offset, receiverVars,
                   diskVars, sourceVars, calm>>

\* The header of the next file.
SendHeader(l) ==
    LET f == sfile[l] IN
    /\ sst[l] = "header"
    /\ f <= NFiles
    /\ up[l]
    /\ offset[l][f] <= Len(source[l][f])
    /\ wire' = [wire EXCEPT ![l] = Append(@, FileHeader(l, f))]
    /\ spos' = [spos EXCEPT ![l] = offset[l][f]]
    /\ sst' = [sst EXCEPT ![l] = "data"]
    /\ UNCHANGED <<offer, sfile, retried, attempts, up, decision, offset, receiverVars,
                   diskVars, sourceVars, calm>>

\* The file shrank below the offset it is to be resumed at.
OffsetPastEnd(l) ==
    /\ sst[l] = "header"
    /\ sfile[l] <= NFiles
    /\ offset[l][sfile[l]] > Len(source[l][sfile[l]])
    /\ Stop(l, "ended")
    /\ UNCHANGED <<wire, decision, offset, receiverVars, diskVars, sourceVars, calm>>

\* One frame: what was read, sealed with the file and the offset it belongs to.
FileFrame(l, f) ==
    [type |-> "data", file |-> f, offset |-> spos[l], chunk |-> source[l][f][spos[l] + 1]]

\* One read of the file, one encrypted frame; plain, only its bytes, and a receiver that
\* knows neither file nor offset of them (AppendPlain looks at the chunk alone).
SendChunk(l) ==
    LET f == sfile[l] IN
    /\ sst[l] = "data"
    /\ up[l]
    /\ spos[l] < Len(source[l][f])
    /\ wire' = [wire EXCEPT ![l] = Append(@, FileFrame(l, f))]
    /\ spos' = [spos EXCEPT ![l] = @ + 1]
    /\ UNCHANGED <<offer, sst, sfile, retried, attempts, up, decision, offset,
                   receiverVars, diskVars, sourceVars, calm>>

\* The read returns no bytes: on to the next file.
EndOfSource(l) ==
    /\ sst[l] = "data"
    /\ spos[l] >= Len(source[l][sfile[l]])
    /\ sfile' = [sfile EXCEPT ![l] = @ + 1]
    /\ sst' = [sst EXCEPT ![l] = "header"]
    /\ UNCHANGED <<offer, spos, retried, attempts, connVars, receiverVars, diskVars,
                   sourceVars, calm>>

\* Every frame is written: the sender reports completion and closes; nobody acknowledges.
SendFinished(l) ==
    /\ sst[l] = "header"
    /\ sfile[l] = NFiles + 1
    /\ Stop(l, "sent")
    /\ UNCHANGED <<wire, decision, offset, receiverVars, diskVars, sourceVars, calm>>

\* The user cancels the send, or a file can no longer be read.
SendAborted(l) ==
    /\ sst[l] \in {"waiting", "header", "data"}
    /\ Stop(l, "ended")
    /\ calm' = [calm EXCEPT ![l] = FALSE]
    /\ UNCHANGED <<wire, decision, offset, receiverVars, diskVars, sourceVars>>

\* The connection is gone: a read or a write fails, retryable or not.
SendBroken(l) ==
    /\ sst[l] \in {"waiting", "header", "data"}
    /\ ~up[l]
    /\ sst[l] = "waiting" => decision[l] = "none"
    /\ \E s \in {"broken", "ended"} : Stop(l, s)
    /\ UNCHANGED <<wire, decision, offset, receiverVars, diskVars, sourceVars, calm>>

\* The link fails: some suffix of what was written, and the answer, may be lost.
LinkDown(l) ==
    /\ up[l]
    /\ up' = [up EXCEPT ![l] = FALSE]
    /\ \E n \in 0..Len(wire[l]) : wire' = [wire EXCEPT ![l] = SubSeq(@, 1, n)]
    /\ \E d \in {"none", decision[l]} : decision' = [decision EXCEPT ![l] = d]
    /\ calm' = [calm EXCEPT ![l] = FALSE]
    /\ UNCHANGED <<senderVars, offset, receiverVars, diskVars, sourceVars>>

\* The owner of a source file saves another content into it.
EditSource(l) ==
    /\ edits < MaxEdits
    /\ edits' = edits + 1
    /\ \E f \in Files : \E c \in Contents \ {source[l][f]} :
           source' = [source EXCEPT ![l] = [@ EXCEPT ![f] = c]]
    /\ calm' = [calm EXCEPT ![l] = FALSE]
    /\ UNCHANGED <<plain, senderVars, connVars, receiverVars, diskVars>>

-----------------------------------------------------------------------------
(* The receiver's decision.                                                 *)

\* The directory cannot take this file: a partial beside a finished file, another
\* file of that name, or a partial longer than what is offered.
ResumeConflict(f, c) ==
    \/ dest[f] # NoFile /\ part[f] # NoFile
    \/ dest[f] # NoFile /\ dest[f] # c
    \/ dest[f] = NoFile /\ part[f] # NoFile /\ Len(part[f]) > Len(c)

\* How many bytes the receiver already has: only the length of a partial is looked at.
ResumeBytes(f, c) ==
    IF dest[f] # NoFile THEN Len(c)
    ELSE IF part[f] # NoFile THEN Len(part[f]) ELSE 0

\* A finished file of no bytes is a resume entry the protocol type refuses.
EmptyResumeEntry(f, c) == dest[f] # NoFile /\ dest[f] = c /\ Len(c) = 0

\* (history) What lies in the directory is what this offer would have put there.
Consistent(f, c) ==
    /\ part[f] # NoFile => dest[f] = NoFile /\ IsPrefix(part[f], c)
    /\ dest[f] # NoFile => dest[f] = c

CalmAtDecision(l) ==
    calm' = [calm EXCEPT ![l] = @ /\ \A f \in Files : Consistent(f, offer[l][f])]

\* The handler returns: the stream is dropped, the partial's handle closed.
End(l, result) ==
    /\ rst' = [rst EXCEPT ![l] = "idle"]
    /\ outcome' = [outcome EXCEPT ![l] = result]
    /\ up' = [up EXCEPT ![l] = FALSE]
    /\ wire' = [wire EXCEPT ![l] = <<>>]
    /\ rfile' = [rfile EXCEPT ![l] = 1]
    /\ hashed' = [hashed EXCEPT ![l] = <<>>]

\* The user (or the 300 s timeout) refuses, or there is no room.
Decline(l) ==
    /\ rst[l] = "deciding"
    /\ End(l, "declined")
    /\ decision' = [decision EXCEPT ![l] = "declined"]
    /\ UNCHANGED <<senderVars, offset, handle, diskVars, sourceVars, calm>>

\* The user accepts, and the directory is in the way: the sender is told.
RefuseResumeState(l) ==
    /\ rst[l] = "deciding"
    /\ \E f \in Files : ResumeConflict(f, offer[l][f])
    /\ End(l, "failed")
    /\ decision' = [decision EXCEPT ![l] = "declined"]
    /\ CalmAtDecision(l)
    /\ UNCHANGED <<senderVars, offset, handle, diskVars, sourceVars>>

\* The user accepts, and no decision can be built: the sender is told nothing.
RefuseResumeEntry(l) ==
    /\ rst[l] = "deciding"
    /\ \A f \in Files : ~ResumeConflict(f, offer[l][f])
    /\ \E f \in Files : EmptyResumeEntry(f, offer[l][f])
    /\ End(l, "failed")
    /\ CalmAtDecision(l)
    /\ UNCHANGED <<senderVars, decision, offset, handle, diskVars, sourceVars>>

\* The user accepts: the decision carries the offsets to resume at.
Accept(l) ==
    /\ rst[l] = "deciding"
    /\ \A f \in Files : /\ ~ResumeConflict(f, offer[l][f])
                        /\ ~EmptyResumeEntry(f, offer[l][f])
    /\ offset' = [offset EXCEPT ![l] = [f \in Files |-> ResumeBytes(f, offer[l][f])]]
    /\ decision' = [decision EXCEPT ![l] = "accepted"]
    /\ rst' = [rst EXCEPT ![l] = "header"]
    /\ CalmAtDecision(l)
    /\ UNCHANGED <<senderVars, up, wire, rfile, hashed, handle, outcome, diskVars, sourceVars>>

-----------------------------------------------------------------------------
(* The receiver writes the files.                                           *)

\* What happens to the handles others hold on the partial of f when it is unlinked ...
Unlinked(l, f, own) ==
    [k \in Listeners |->
        IF k = l THEN own
        ELSE IF rfile[k] = f /\ handle[k] = "part" THEN "gone" ELSE handle[k]]

\* ... and when it is renamed over the destination.
Renamed(l, f) ==
    [k \in Listeners |->
        IF k = l THEN "none"
        ELSE IF rfile[k] # f THEN handle[k]
        ELSE IF handle[k] = "part" THEN "dest"
        ELSE IF handle[k] = "dest" THEN "gone" ELSE handle[k]]

\* What is at the head of the stream can be read as a header: its length, then its encoding.
IsHeader(h) == h.type = "header"

\* The header agrees with the accepted offer and with the accepted offset.
HeaderMatches(l, h) ==
    LET f == rfile[l] IN
    /\ IsHeader(h)
    /\ h.file = f
    /\ h.size = Len(offer[l][f])
    /\ h.sha = offer[l][f]
    /\ h.offset = offset[l][f]

\* The next file, or bundle detection after the last one.
Advance(l) ==
    /\ rfile' = [rfile EXCEPT ![l] = @ + 1]
    /\ rst' = [rst EXCEPT ![l] = IF rfile[l] = NFiles THEN "staging" ELSE "header"]

\* A partial can be opened at the accepted offset.
CanOpen(l, f) ==
    /\ dest[f] = NoFile
    /\ offset[l][f] > 0 => part[f] # NoFile /\ Len(part[f]) = offset[l][f]

\* Offset 0 discards a leftover partial and starts a new one; a later offset hashes the
\* partial that is there and appends to it.
OpenPartial(l) ==
    LET f == rfile[l] IN
    /\ rst[l] = "header"
    /\ wire[l] # <<>>
    /\ HeaderMatches(l, Head(wire[l]))
    /\ offset[l][f] < Len(offer[l][f])
    /\ CanOpen(l, f)
    /\ IF offset[l][f] = 0
       THEN /\ part' = [part EXCEPT ![f] = <<>>]
            /\ handle' = Unlinked(l, f, "part")
            /\ hashed' = [hashed EXCEPT ![l] = <<>>]
       ELSE /\ handle' = [handle EXCEPT ![l] = "part"]
            /\ hashed' = [hashed EXCEPT ![l] = part[f]]
            /\ UNCHANGED part
    /\ rst' = [rst EXCEPT ![l] = "data"]
    /\ wire' = [wire EXCEPT ![l] = Tail(@)]
    /\ UNCHANGED <<senderVars, up, decision, offset, rfile, outcome, dest, sourceVars, calm>>

\* Mutant: a partial of the right length is renamed without looking at its content.
FinalizeResumed_TrustsLength(l) ==
    LET f == rfile[l] IN
    /\ rst[l] = "header"
    /\ wire[l] # <<>>
    /\ HeaderMatches(l, Head(wire[l]))
    /\ offset[l][f] = Len(offer[l][f])
    /\ \/ /\ dest[f] # NoFile
          /\ UNCHANGED <<part, dest, handle>>
       \/ /\ dest[f] = NoFile
          /\ part[f] # NoFile
          /\ dest' = [dest EXCEPT ![f] = part[f]]
          /\ part' = [part EXCEPT ![f] = NoFile]
          /\ handle' = Renamed(l, f)
    /\ Advance(l)
    /\ wire' = [wire EXCEPT ![l] = Tail(@)]
    /\ UNCHANGED <<senderVars, up, decision, offset, hashed, outcome, sourceVars, calm>>

\* The offset is the whole file: what is there is verified, and renamed if still partial.
FinalizeResumed(l) ==
    LET f == rfile[l] IN
    /\ rst[l] = "header"
    /\ wire[l] # <<>>
    /\ HeaderMatches(l, Head(wire[l]))
    /\ offset[l][f] = Len(offer[l][f])
    /\ \/ /\ dest[f] = offer[l][f]
          /\ UNCHANGED <<part, dest, handle>>
       \/ /\ dest[f] = NoFile
          /\ part[f] = offer[l][f]
          /\ dest' = [dest EXCEPT ![f] = part[f]]
          /\ part' = [part EXCEPT ![f] = NoFile]
          /\ handle' = Renamed(l, f)
    /\ Advance(l)
    /\ wire' = [wire EXCEPT ![l] = Tail(@)]
    /\ UNCHANGED <<senderVars, up, decision, offset, hashed, outcome, sourceVars, calm>>

\* The offset is the whole file, and what is there has another content: it stays there.
ResumedMismatch(l) ==
    LET f == rfile[l]
        there == IF dest[f] # NoFile THEN dest[f] ELSE part[f] IN
    /\ rst[l] = "header"
    /\ wire[l] # <<>>
    /\ HeaderMatches(l, Head(wire[l]))
    /\ offset[l][f] = Len(offer[l][f])
    /\ there # NoFile
    /\ there # offer[l][f]
    /\ End(l, IF Len(there) = Len(offer[l][f]) THEN "checksum" ELSE "failed")
    /\ UNCHANGED <<senderVars, decision, offset, handle, diskVars, sourceVars,
                   calm>>

\* The frame is not the expected header, or the file cannot be opened.
RejectHeader(l) ==
    LET f == rfile[l]
        h == Head(wire[l]) IN
    /\ rst[l] = "header"
    /\ wire[l] # <<>>
    /\ \/ ~HeaderMatches(l, h)
       \/ offset[l][f] < Len(offer[l][f]) /\ ~CanOpen(l, f)
       \/ offset[l][f] = Len(offer[l][f]) /\ dest[f] = NoFile /\ part[f] = NoFile
    /\ End(l, "failed")
    /\ UNCHANGED <<senderVars, decision, offset, handle, diskVars, sourceVars,
                   calm>>

\* The frame continues the file where the last one ended.
NextChunk(l, h) ==
    /\ h.type = "data"
    /\ h.file = rfile[l]
    /\ h.offset = Len(hashed[l])

\* A write through the handle: a created file is written at the handle's own position,
\* a resumed one is opened for append.
Written(l, content, chunk) ==
    LET pos == Len(hashed[l]) + 1 IN
    IF offset[l][rfile[l]] = 0 /\ pos <= Len(content)
    THEN [content EXCEPT ![pos] = chunk]
    ELSE Append(content, chunk)

\* A chunk is written through the handle and hashed.
Store(l, chunk) ==
    LET f == rfile[l] IN
    /\ part' = IF handle[l] = "part"
               THEN [part EXCEPT ![f] = Written(l, part[f], chunk)] ELSE part
    /\ dest' = IF handle[l] = "dest"
               THEN [dest EXCEPT ![f] = Written(l, dest[f], chunk)] ELSE dest
    /\ hashed' = [hashed EXCEPT ![l] = Append(@, chunk)]
    /\ wire' = [wire EXCEPT ![l] = Tail(@)]
    /\ UNCHANGED <<senderVars, up, decision, offset, rst, rfile, handle, outcome, sourceVars,
                   calm>>

\* The next frame is decrypted and stored.
AppendChunk(l) ==
    /\ rst[l] = "data"
    /\ ~plain[l]
    /\ Len(hashed[l]) < Len(offer[l][rfile[l]])
    /\ wire[l] # <<>>
    /\ NextChunk(l, Head(wire[l]))
    /\ Store(l, Head(wire[l]).chunk)

\* What the bytes at the head of a plain stream are when they are read as a file's: the next
\* header, whose encoding may be any bytes, if the sender's file ended early.
PlainBytes(h) == IF IsHeader(h) THEN Chunks ELSE {h.chunk}

\* A plain stream is read until the size of the header is reached, whatever is in it.
AppendPlain(l) ==
    /\ rst[l] = "data"
    /\ plain[l]
    /\ Len(hashed[l]) < Len(offer[l][rfile[l]])
    /\ wire[l] # <<>>
    /\ \E chunk \in PlainBytes(Head(wire[l])) : Store(l, chunk)

\* Mutant: all bytes are in, and nobody compares the hash.
FinishFile_Unchecked(l) ==
    LET f == rfile[l] IN
    /\ rst[l] = "data"
    /\ Len(hashed[l]) >= Len(offer[l][f])
    /\ part[f] # NoFile
    /\ dest' = [dest EXCEPT ![f] = part[f]]
    /\ part' = [part EXCEPT ![f] = NoFile]
    /\ handle' = Renamed(l, f)
    /\ Advance(l)
    /\ hashed' = [hashed EXCEPT ![l] = <<>>]
    /\ UNCHANGED <<senderVars, connVars, outcome, sourceVars, calm>>

\* All bytes are in and the hash is the offered one: the partial becomes the file.
FinishFile(l) ==
    LET f == rfile[l] IN
    /\ rst[l] = "data"
    /\ Len(hashed[l]) >= Len(offer[l][f])
    /\ hashed[l] = offer[l][f]
    /\ part[f] # NoFile
    /\ dest' = [dest EXCEPT ![f] = part[f]]
    /\ part' = [part EXCEPT ![f] = NoFile]
    /\ handle' = Renamed(l, f)
    /\ Advance(l)
    /\ hashed' = [hashed EXCEPT ![l] = <<>>]
    /\ UNCHANGED <<senderVars, connVars, outcome, sourceVars, calm>>

\* The hash is not the offered one: the partial is removed.
ChecksumMismatch(l) ==
    LET f == rfile[l] IN
    /\ rst[l] = "data"
    /\ Len(hashed[l]) >= Len(offer[l][f])
    /\ hashed[l] # offer[l][f]
    /\ part' = [part EXCEPT ![f] = NoFile]
    /\ handle' = Unlinked(l, f, "none")
    /\ End(l, "checksum")
    /\ UNCHANGED <<senderVars, decision, offset, dest, sourceVars, calm>>

\* The frame does not continue the file, or the partial to rename is gone.
RejectData(l) ==
    LET f == rfile[l] IN
    /\ rst[l] = "data"
    /\ \/ /\ ~plain[l]
          /\ Len(hashed[l]) < Len(offer[l][f])
          /\ wire[l] # <<>>
          /\ ~NextChunk(l, Head(wire[l]))
       \/ /\ hashed[l] = offer[l][f]
          /\ part[f] = NoFile
    /\ End(l, "failed")
    /\ handle' = [handle EXCEPT ![l] = "none"]
    /\ UNCHANGED <<senderVars, decision, offset, diskVars, sourceVars, calm>>

\* Mutant: the end of the stream is noticed inside a file only.
StreamEnds_DataOnly(l) ==
    /\ rst[l] = "data" /\ Len(hashed[l]) < Len(offer[l][rfile[l]])
    /\ wire[l] = <<>>
    /\ ~up[l]
    /\ End(l, "failed")
    /\ handle' = [handle EXCEPT ![l] = "none"]
    /\ UNCHANGED <<senderVars, decision, offset, diskVars, sourceVars, calm>>

\* The stream ends where a frame is expected; the partial stays for a later attempt.
StreamEnds(l) ==
    /\ \/ rst[l] = "header"
       \/ rst[l] = "data" /\ Len(hashed[l]) < Len(offer[l][rfile[l]])
    /\ wire[l] = <<>>
    /\ ~up[l]
    /\ End(l, "failed")
    /\ handle' = [handle EXCEPT ![l] = "none"]
    /\ UNCHANGED <<senderVars, decision, offset, diskVars, sourceVars, calm>>

\* Mutant: cancelling cleans the partial up.
AbortReceive_RemovesPartial(l) ==
    /\ rst[l] \in {"header", "data"}
    /\ End(l, "failed")
    /\ part' = IF rst[l] = "data" THEN [part EXCEPT ![rfile[l]] = NoFile] ELSE part
    /\ handle' = [handle EXCEPT ![l] = "none"]
    /\ calm' = [calm EXCEPT ![l] = FALSE]
    /\ UNCHANGED <<senderVars, decision, offset, dest, sourceVars>>

\* The user cancels (asked before and after every chunk), the disk is full, or nothing
\* arrives for 60 s: the partial stays.
AbortReceive(l) ==
    /\ rst[l] \in {"header", "data"}
    /\ End(l, "failed")
    /\ handle' = [handle EXCEPT ![l] = "none"]
    /\ calm' = [calm EXCEPT ![l] = FALSE]
    /\ UNCHANGED <<senderVars, decision, offset, diskVars, sourceVars>>

\* A received bundle is staged, or there is none: the receiver reports completion.
EndTransfer(l) ==
    /\ rst[l] = "staging"
    /\ End(l, "done")
    /\ UNCHANGED <<senderVars, decision, offset, handle, diskVars, sourceVars,
                   calm>>

\* The bundle cannot be staged (of a plain transfer none is): the transfer fails, its files
\* stay.
StagingFails(l) ==
    /\ rst[l] = "staging"
    /\ ~plain[l]
    /\ End(l, "failed")
    /\ calm' = [calm EXCEPT ![l] = FALSE]
    /\ UNCHANGED <<senderVars, decision, offset, handle, diskVars, sourceVars>>

\* The receiving process dies: every connection is cut, the disk keeps what it has.
ReceiverCrash ==
    /\ \E l \in Listeners : rst[l] # "idle"
    /\ rst' = [l \in Listeners |-> "idle"]
    /\ handle' = [l \in Listeners |-> "none"]
    /\ outcome' = [l \in Listeners |-> IF rst[l] = "idle" THEN outcome[l] ELSE "failed"]
    /\ up' = [l \in Listeners |-> FALSE]
    /\ wire' = [l \in Listeners |-> <<>>]
    /\ rfile' = [l \in Listeners |-> 1]
    /\ hashed' = [l \in Listeners |-> <<>>]
    /\ calm' = [l \in Listeners |-> FALSE]
    /\ UNCHANGED <<senderVars, decision, offset, diskVars, sourceVars>>

\* A finished file is moved away: by the user, or into the folder of its sender.
TakeFile(f) ==
    /\ dest[f] # NoFile
    /\ dest' = [dest EXCEPT ![f] = NoFile]
    /\ handle' = [l \in Listeners |->
                     IF rfile[l] = f /\ handle[l] = "dest" THEN "gone" ELSE handle[l]]
    /\ calm' = [l \in Listeners |-> FALSE]
    /\ UNCHANGED <<senderVars, connVars, rst, rfile, hashed, outcome, part, sourceVars>>

-----------------------------------------------------------------------------
\* The sender's own steps: a file, the files of a plan, a plan in a session or plain.
SendFile(l) == SendHeader(l) \/ OffsetPastEnd(l) \/ SendChunk(l) \/ EndOfSource(l)

SendSession(l) ==
    ~plain[l] /\ (ReadAccept(l) \/ ReadRefusal(l) \/ SendFile(l) \/ SendFinished(l))

SendPlainFile(l) == plain[l] /\ SendFile(l)

SendPlainFiles(l) == SendPlainFile(l) \/ (plain[l] /\ SendFinished(l))

SendPlain(l) == SendPlainFiles(l) \/ (plain[l] /\ (ReadAccept(l) \/ ReadRefusal(l)))

SenderStep(l) == SendSession(l) \/ SendPlain(l) \/ SendBroken(l)

\* The handler's decision, in a session and plain.
Decide(l) ==
    \/ Decline(l) \/ RefuseResumeState(l) \/ RefuseResumeEntry(l) \/ Accept(l)

DecidePlain(l) == plain[l] /\ Decide(l)

DecisionStep(l) == (~plain[l] /\ Decide(l)) \/ DecidePlain(l)

\* The handler's files, in a session and plain.
ReceiveFile(l) ==
    \/ OpenPartial(l) \/ FinalizeResumed(l) \/ ResumedMismatch(l) \/ RejectHeader(l)
    \/ FinishFile(l) \/ ChecksumMismatch(l) \/ RejectData(l) \/ StreamEnds(l)

ReceivePlain(l) == plain[l] /\ (ReceiveFile(l) \/ AppendPlain(l))

EndPlain(l) == plain[l] /\ EndTransfer(l)

FileStep(l) ==
    \/ ~plain[l] /\ (ReceiveFile(l) \/ AppendChunk(l) \/ EndTransfer(l) \/ StagingFails(l))
    \/ ReceivePlain(l)
    \/ EndPlain(l)

Environment(l) ==
    \/ SendPaths(l) \/ AutoRetry(l) \/ SendAborted(l) \/ LinkDown(l) \/ EditSource(l)
    \/ AbortReceive(l)

Next ==
    \/ \E l \in Listeners : SenderStep(l) \/ DecisionStep(l) \/ FileStep(l) \/ Environment(l)
    \/ ReceiverCrash
    \/ \E f \in Files : TakeFile(f)

Spec == Init /\ [][Next]_vars

\* Each side runs its own thread; a decision comes within 300 s.
FairSpec ==
    /\ Spec
    /\ \A l \in Listeners :
          WF_vars(SenderStep(l)) /\ WF_vars(DecisionStep(l)) /\ WF_vars(FileStep(l))

-----------------------------------------------------------------------------
(* Properties.                                                              *)

\* The receive directory is the abstract inbox; an offer is accepted while its handler runs.
Inbox == INSTANCE VerifiedInbox WITH
    inbox <- dest,
    accepted <- [l \in Listeners |->
                    IF rst[l] \in {"header", "data", "staging"} THEN {offer[l]} ELSE {}]

\* Whatever fails, is cancelled, retried, resumed or edited on the way: a finished file
\* appears in one step, where nothing was, with the content of the offer that was accepted,
\* and is not touched afterwards (write_received_file_with_resume_and_cancel: partial,
\* SHA-256, rename).
ImplementsVerifiedInbox == Inbox!Spec

\* The receiver goes on to the next file, and at last reports the transfer as complete
\* ("verified: true"), only with the offered content at the destination.
AdvanceOnlyWhenDelivered ==
    [][\A l \in Listeners :
          rfile'[l] > rfile[l] => dest'[rfile[l]] = offer[l][rfile[l]]]_vars

\* Bytes on disk are lost only to a checksum mismatch: a partial that has bytes is appended
\* to, becomes the file as it is, or is removed because its hash was wrong.
ResumeKeepsProgress ==
    [][\A f \in Files :
          (part[f] # NoFile /\ part[f] # <<>> /\ part'[f] # part[f]) =>
              \/ part'[f] # NoFile /\ IsPrefix(part[f], part'[f])
              \/ part'[f] = NoFile /\ dest'[f] = part[f]
              \/ part'[f] = NoFile /\ \E l \in Listeners : rst[l] # "idle" /\ outcome'[l] = "checksum"]_vars

\* Where each side is in the list of files: needed for TypeOK to be inductive.
PositionsOK ==
    \A l \in Listeners :
        /\ sst[l] = "data" => sfile[l] \in Files
        /\ rst[l] \in {"idle", "deciding"} => rfile[l] = 1
        /\ rst[l] \in {"header", "data"} => rfile[l] \in Files

\* An open handle refers to something: rename and unlink leave no handle on a path where
\* nothing is.
HandlesOK ==
    \A l \in Listeners :
        /\ rst[l] # "data" => handle[l] = "none"
        /\ handle[l] = "part" => part[rfile[l]] # NoFile
        /\ handle[l] = "dest" => dest[rfile[l]] # NoFile

\* With one listener, the open partial holds exactly the bytes that were hashed, and nothing
\* lies at its destination.  This is what makes the rename at
\* the end of write_received_file_with_resume_and_cancel safe.
PartialIsHashed ==
    \A l \in Listeners :
        /\ rst[l] = "data" =>
              /\ handle[l] = "part"
              /\ part[rfile[l]] = hashed[l]
              /\ dest[rfile[l]] = NoFile

\* A file still to come that was accepted at offset 0 has no partial with bytes in it.
StartsEmpty ==
    \A l \in Listeners : \A f \in Files :
        \/ rst[l] = "header" /\ f >= rfile[l]
        \/ rst[l] = "data" /\ f > rfile[l]
        => (offset[l][f] = 0 => part[f] \in {NoFile, <<>>})

Failed(l) == outcome[l] \in {"failed", "checksum"}

\* An accepted transfer of non-empty files nobody edits, over a link that stays up, cancelled
\* by nobody, into a directory that holds nothing or a true prefix of what is offered, never
\* fails: header, offset and chunk agree at every step of the resume protocol.
HealthyTransferSucceeds ==
    \A l \in Listeners :
        Failed(l) => ~calm[l] \/ \E f \in Files : offer[l][f] = <<>>

\* A connection ends on both sides, whatever the other side does (the I/O timeouts and the
\* closing of the stream): no handler and no send task waits for ever.
AttemptsEnd ==
    \A l \in Listeners :
        /\ rst[l] # "idle" ~> rst[l] = "idle"
        /\ sst[l] \in {"waiting", "header", "data"} ~> sst[l] \in {"sent", "broken", "ended"}

=============================================================================
