------------------------- MODULE FileTransferProofs -------------------------
(***************************************************************************)
(* Proofs about FileTransfer, for any number of files and chunks, any      *)
(* contents, any number of attempts and edits.                             *)
(*                                                                         *)
(* TypeOK is not inductive by itself: ControlInv adds where each side is   *)
(* in the list of files (PositionsOK) and that an open handle refers to    *)
(* something (HandlesOK).  With one listener (cross-network receiving off, *)
(* the default) the transfer also implements VerifiedInbox; with two it    *)
(* does not: see the run "concurrent" of the README.  HealthyInv says of   *)
(* the frames under way what makes an undisturbed transfer succeed.        *)
(***************************************************************************)
EXTENDS FileTransfer, TLAPS

-----------------------------------------------------------------------------
(* Type correctness.                                                        *)

\* The send task's return leaves the sender's variables well typed.
LEMMA StopTypes ==
  ASSUME TypeOK, NEW l \in Listeners, NEW s \in SenderStates, Stop(l, s)
  PROVE  SenderTypeOK' /\ up' \in [Listeners -> BOOLEAN]
  BY NFilesAssumption DEF TypeOK, SenderTypeOK, ConnTypeOK, Stop

\* The handler's return leaves the receiver's variables well typed.
LEMMA EndTypes ==
  ASSUME TypeOK, NEW l \in Listeners, NEW r \in Outcomes, End(l, r),
         handle' \in [Listeners -> Handles]
  PROVE  /\ ReceiverTypeOK'
         /\ up' \in [Listeners -> BOOLEAN]
         /\ wire' \in [Listeners -> Seq(HeaderFrame \cup DataFrame)]
  <1>1. /\ rst' \in [Listeners -> ReceiverStates]
        /\ outcome' \in [Listeners -> Outcomes]
        /\ hashed' \in [Listeners -> Seq(Chunks)]
    BY DEF TypeOK, ReceiverTypeOK, ReceiverStates, End
  <1>2. rfile' \in [Listeners -> 1..(NFiles + 1)]
    BY NFilesAssumption DEF TypeOK, ReceiverTypeOK, End
  <1>3. up' \in [Listeners -> BOOLEAN]
    BY DEF TypeOK, ConnTypeOK, End
  <1>4. wire' \in [Listeners -> Seq(HeaderFrame \cup DataFrame)]
    <2>1. <<>> \in Seq(HeaderFrame \cup DataFrame)
      OBVIOUS
    <2>2. /\ wire \in [Listeners -> Seq(HeaderFrame \cup DataFrame)]
          /\ wire' = [wire EXCEPT ![l] = <<>>]
      BY DEF TypeOK, ConnTypeOK, End
    <2> QED
      BY <2>1, <2>2
  <1> QED
    BY <1>1, <1>2, <1>3, <1>4 DEF ReceiverTypeOK

\* The next file, or past the last one.
LEMMA AdvanceTypes ==
  ASSUME TypeOK, NEW l \in Listeners, rfile[l] \in Files, Advance(l)
  PROVE  /\ rst' \in [Listeners -> ReceiverStates]
         /\ rfile' \in [Listeners -> 1..(NFiles + 1)]
  <1>1. rfile[l] + 1 \in 1..(NFiles + 1)
    BY NFilesAssumption DEF Files
  <1> QED
    BY <1>1 DEF Advance, TypeOK, ReceiverTypeOK, ReceiverStates

\* A write through a handle keeps a sequence of chunks one.
LEMMA WrittenType ==
  ASSUME NEW l, hashed[l] \in Seq(Chunks), NEW content \in Seq(Chunks), NEW chunk \in Chunks
  PROVE  Written(l, content, chunk) \in Seq(Chunks)
  <1> DEFINE pos == Len(hashed[l]) + 1
  <1>1. CASE offset[l][rfile[l]] = 0 /\ pos <= Len(content)
    <2>1. pos \in 1..Len(content)
      BY <1>1
    <2>2. [content EXCEPT ![pos] = chunk] \in [1..Len(content) -> Chunks]
      BY <2>1
    <2> QED
      BY <1>1, <2>2 DEF Written
  <1>2. CASE ~(offset[l][rfile[l]] = 0 /\ pos <= Len(content))
    BY <1>2 DEF Written
  <1> QED
    BY <1>1, <1>2

\* Nothing the type invariant speaks of changes in a stuttering step.
LEMMA TypeStutter == TypeOK /\ UNCHANGED vars => TypeOK'
  BY DEF TypeOK, SenderTypeOK, ConnTypeOK, ReceiverTypeOK, DiskTypeOK, SourceTypeOK, vars,
         senderVars, connVars, receiverVars, diskVars, sourceVars

\* The initial state is well typed, and both sides are at the first file.
LEMMA TypeInit == Init => TypeOK /\ PositionsOK
  BY NFilesAssumption, PresentAssumption
  DEF Init, TypeOK, SenderTypeOK, ConnTypeOK, ReceiverTypeOK, DiskTypeOK, SourceTypeOK,
      SenderStates, ReceiverStates, Outcomes, Handles, PositionsOK, Files

\* What the sender's steps are, in a session or plain.
LEMMA SenderActions ==
  ASSUME NEW l, SenderStep(l)
  PROVE  \/ ReadAccept(l) \/ ReadRefusal(l) \/ SendHeader(l) \/ OffsetPastEnd(l)
         \/ SendChunk(l) \/ EndOfSource(l) \/ SendFinished(l) \/ SendBroken(l)
  BY DEF SenderStep, SendSession, SendPlain, SendPlainFiles, SendPlainFile, SendFile

\* What the steps of a decision are.
LEMMA DecisionActions ==
  ASSUME NEW l, DecisionStep(l)
  PROVE  Decline(l) \/ RefuseResumeState(l) \/ RefuseResumeEntry(l) \/ Accept(l)
  BY DEF DecisionStep, DecidePlain, Decide

\* A step that takes bytes from the stream, as a frame or plain.
Appending(l) == rst[l] = "data" /\ wire[l] # <<>> /\ \E chunk \in Chunks : Store(l, chunk)

\* Whatever the stream holds, what is stored of it is a chunk.
LEMMA AppendingSteps ==
  ASSUME TypeOK, NEW l \in Listeners, AppendChunk(l) \/ AppendPlain(l)
  PROVE  Appending(l)
  <1>1. wire[l] # <<>> /\ wire[l] \in Seq(HeaderFrame \cup DataFrame)
    BY DEF AppendChunk, AppendPlain, TypeOK, ConnTypeOK
  <1>2. Head(wire[l]) \in HeaderFrame \cup DataFrame
    BY <1>1
  <1>3. Head(wire[l]).type # "header" => Head(wire[l]).chunk \in Chunks
    BY <1>2 DEF HeaderFrame, DataFrame
  <1>4. CASE AppendChunk(l)
    BY <1>1, <1>3, <1>4 DEF AppendChunk, NextChunk, Appending
  <1>5. CASE AppendPlain(l)
    BY <1>1, <1>3, <1>5 DEF AppendPlain, PlainBytes, IsHeader, Appending
  <1> QED
    BY <1>4, <1>5

\* What the handler's steps with files are.
LEMMA FileActions ==
  ASSUME TypeOK, NEW l \in Listeners, FileStep(l)
  PROVE  \/ OpenPartial(l) \/ FinalizeResumed(l) \/ ResumedMismatch(l) \/ RejectHeader(l)
         \/ Appending(l) \/ FinishFile(l) \/ ChecksumMismatch(l) \/ RejectData(l)
         \/ StreamEnds(l) \/ EndTransfer(l) \/ StagingFails(l)
  BY AppendingSteps DEF FileStep, ReceivePlain, EndPlain, ReceiveFile

\* Every step keeps the types.
LEMMA TypeStep == TypeOK /\ PositionsOK /\ HandlesOK /\ [Next]_vars => TypeOK'
  <1> SUFFICES ASSUME TypeOK, PositionsOK, HandlesOK PROVE [Next]_vars => TypeOK'
    OBVIOUS
  <1>1. ASSUME NEW l \in Listeners, ReadAccept(l) PROVE TypeOK'
    <2>1. SenderTypeOK'
      BY <1>1 DEF ReadAccept, TypeOK, SenderTypeOK, SenderStates
    <2>2. ConnTypeOK'
      BY <1>1 DEF ReadAccept, TypeOK, ConnTypeOK
    <2>3. ReceiverTypeOK' /\ DiskTypeOK' /\ SourceTypeOK' /\ calm' \in [Listeners -> BOOLEAN]
      BY <1>1 DEF ReadAccept, TypeOK, ReceiverTypeOK, DiskTypeOK, SourceTypeOK,
          receiverVars, diskVars, sourceVars
    <2> QED
      BY <2>1, <2>2, <2>3 DEF TypeOK
  <1>2. ASSUME NEW l \in Listeners, ReadRefusal(l) PROVE TypeOK'
    <2>1. SenderTypeOK' /\ up' \in [Listeners -> BOOLEAN]
      BY <1>2, StopTypes DEF ReadRefusal, SenderStates
    <2>2. ConnTypeOK'
      BY <1>2, <2>1 DEF ReadRefusal, TypeOK, ConnTypeOK
    <2>3. ReceiverTypeOK' /\ DiskTypeOK' /\ SourceTypeOK' /\ calm' \in [Listeners -> BOOLEAN]
      BY <1>2 DEF ReadRefusal, Stop, TypeOK, ReceiverTypeOK, DiskTypeOK, SourceTypeOK,
          receiverVars, diskVars, sourceVars
    <2> QED
      BY <2>1, <2>2, <2>3 DEF TypeOK
  <1>3. ASSUME NEW l \in Listeners, SendHeader(l) PROVE TypeOK'
    <2>1. FileHeader(l, sfile[l]) \in HeaderFrame
      BY <1>3, ContentsAssumption, NFilesAssumption DEF SendHeader, TypeOK,
          SenderTypeOK, ConnTypeOK, SourceTypeOK, FileHeader, HeaderFrame, Files
    <2>2. SenderTypeOK'
      BY <1>3, NFilesAssumption DEF SendHeader, TypeOK, SenderTypeOK, SenderStates,
          ConnTypeOK, Files
    <2>3. ConnTypeOK'
      BY <1>3, <2>1 DEF SendHeader, TypeOK, ConnTypeOK
    <2>4. ReceiverTypeOK' /\ DiskTypeOK' /\ SourceTypeOK' /\ calm' \in [Listeners -> BOOLEAN]
      BY <1>3 DEF SendHeader, TypeOK, ReceiverTypeOK, DiskTypeOK, SourceTypeOK,
          receiverVars, diskVars, sourceVars
    <2> QED
      BY <2>2, <2>3, <2>4 DEF TypeOK
  <1>4. ASSUME NEW l \in Listeners, OffsetPastEnd(l) PROVE TypeOK'
    <2>1. SenderTypeOK' /\ up' \in [Listeners -> BOOLEAN]
      BY <1>4, StopTypes DEF OffsetPastEnd, SenderStates
    <2>2. ConnTypeOK'
      BY <1>4, <2>1 DEF OffsetPastEnd, TypeOK, ConnTypeOK
    <2>3. ReceiverTypeOK' /\ DiskTypeOK' /\ SourceTypeOK' /\ calm' \in [Listeners -> BOOLEAN]
      BY <1>4 DEF OffsetPastEnd, Stop, TypeOK, ReceiverTypeOK, DiskTypeOK, SourceTypeOK,
          receiverVars, diskVars, sourceVars
    <2> QED
      BY <2>1, <2>2, <2>3 DEF TypeOK
  <1>5. ASSUME NEW l \in Listeners, SendChunk(l) PROVE TypeOK'
    <2>1. FileFrame(l, sfile[l]) \in DataFrame
      BY <1>5, ContentsAssumption, NFilesAssumption DEF SendChunk, PositionsOK, TypeOK,
          SenderTypeOK, SourceTypeOK, FileFrame, DataFrame
    <2>2. SenderTypeOK'
      BY <1>5 DEF SendChunk, TypeOK, SenderTypeOK
    <2>3. ConnTypeOK'
      BY <1>5, <2>1 DEF SendChunk, TypeOK, ConnTypeOK
    <2>4. ReceiverTypeOK' /\ DiskTypeOK' /\ SourceTypeOK' /\ calm' \in [Listeners -> BOOLEAN]
      BY <1>5 DEF SendChunk, TypeOK, ReceiverTypeOK, DiskTypeOK, SourceTypeOK,
          receiverVars, diskVars, sourceVars
    <2> QED
      BY <2>2, <2>3, <2>4 DEF TypeOK
  <1>6. ASSUME NEW l \in Listeners, EndOfSource(l) PROVE TypeOK'
    <2>1. SenderTypeOK'
      BY <1>6, NFilesAssumption DEF EndOfSource, PositionsOK, TypeOK, SenderTypeOK,
          SenderStates, Files
    <2>2. ConnTypeOK' /\ ReceiverTypeOK' /\ DiskTypeOK' /\ SourceTypeOK' /\ calm' \in [Listeners -> BOOLEAN]
      BY <1>6 DEF EndOfSource, TypeOK, ConnTypeOK, ReceiverTypeOK, DiskTypeOK,
          SourceTypeOK, connVars, receiverVars, diskVars, sourceVars
    <2> QED
      BY <2>1, <2>2 DEF TypeOK
  <1>7. ASSUME NEW l \in Listeners, SendFinished(l) PROVE TypeOK'
    <2>1. SenderTypeOK' /\ up' \in [Listeners -> BOOLEAN]
      BY <1>7, StopTypes DEF SendFinished, SenderStates
    <2>2. ConnTypeOK'
      BY <1>7, <2>1 DEF SendFinished, TypeOK, ConnTypeOK
    <2>3. ReceiverTypeOK' /\ DiskTypeOK' /\ SourceTypeOK' /\ calm' \in [Listeners -> BOOLEAN]
      BY <1>7 DEF SendFinished, Stop, TypeOK, ReceiverTypeOK, DiskTypeOK, SourceTypeOK,
          receiverVars, diskVars, sourceVars
    <2> QED
      BY <2>1, <2>2, <2>3 DEF TypeOK
  <1>8. ASSUME NEW l \in Listeners, SendBroken(l) PROVE TypeOK'
    <2>1. SenderTypeOK' /\ up' \in [Listeners -> BOOLEAN]
      BY <1>8, StopTypes DEF SendBroken, SenderStates
    <2>2. ConnTypeOK'
      BY <1>8, <2>1 DEF SendBroken, TypeOK, ConnTypeOK
    <2>3. ReceiverTypeOK' /\ DiskTypeOK' /\ SourceTypeOK' /\ calm' \in [Listeners -> BOOLEAN]
      BY <1>8 DEF SendBroken, Stop, TypeOK, ReceiverTypeOK, DiskTypeOK, SourceTypeOK,
          receiverVars, diskVars, sourceVars
    <2> QED
      BY <2>1, <2>2, <2>3 DEF TypeOK
  <1>9. ASSUME NEW l \in Listeners, Decline(l) PROVE TypeOK'
    <2>1. handle' \in [Listeners -> Handles]
      BY <1>9 DEF Decline, TypeOK, ReceiverTypeOK, Handles
    <2>2. /\ ReceiverTypeOK'
          /\ up' \in [Listeners -> BOOLEAN]
          /\ wire' \in [Listeners -> Seq(HeaderFrame \cup DataFrame)]
      BY <1>9, <2>1, EndTypes DEF Decline, Outcomes
    <2>3. ConnTypeOK'
      BY <1>9, <2>2 DEF Decline, TypeOK, ConnTypeOK
    <2>4. SenderTypeOK' /\ DiskTypeOK' /\ SourceTypeOK' /\ calm' \in [Listeners -> BOOLEAN]
      BY <1>9 DEF Decline, TypeOK, SenderTypeOK, DiskTypeOK, SourceTypeOK, senderVars,
          diskVars, sourceVars
    <2> QED
      BY <2>2, <2>3, <2>4 DEF TypeOK
  <1>10. ASSUME NEW l \in Listeners, RefuseResumeState(l) PROVE TypeOK'
    <2>1. handle' \in [Listeners -> Handles]
      BY <1>10 DEF RefuseResumeState, TypeOK, ReceiverTypeOK, Handles
    <2>2. /\ ReceiverTypeOK'
          /\ up' \in [Listeners -> BOOLEAN]
          /\ wire' \in [Listeners -> Seq(HeaderFrame \cup DataFrame)]
      BY <1>10, <2>1, EndTypes DEF RefuseResumeState, Outcomes
    <2>3. ConnTypeOK'
      BY <1>10, <2>2 DEF RefuseResumeState, TypeOK, ConnTypeOK
    <2>4. calm' \in [Listeners -> BOOLEAN]
      BY <1>10 DEF RefuseResumeState, TypeOK, CalmAtDecision
    <2>5. SenderTypeOK' /\ DiskTypeOK' /\ SourceTypeOK'
      BY <1>10 DEF RefuseResumeState, TypeOK, SenderTypeOK, DiskTypeOK, SourceTypeOK,
          senderVars, diskVars, sourceVars
    <2> QED
      BY <2>2, <2>3, <2>4, <2>5 DEF TypeOK
  <1>11. ASSUME NEW l \in Listeners, RefuseResumeEntry(l) PROVE TypeOK'
    <2>1. handle' \in [Listeners -> Handles]
      BY <1>11 DEF RefuseResumeEntry, TypeOK, ReceiverTypeOK, Handles
    <2>2. /\ ReceiverTypeOK'
          /\ up' \in [Listeners -> BOOLEAN]
          /\ wire' \in [Listeners -> Seq(HeaderFrame \cup DataFrame)]
      BY <1>11, <2>1, EndTypes DEF RefuseResumeEntry, Outcomes
    <2>3. ConnTypeOK'
      BY <1>11, <2>2 DEF RefuseResumeEntry, TypeOK, ConnTypeOK
    <2>4. calm' \in [Listeners -> BOOLEAN]
      BY <1>11 DEF RefuseResumeEntry, TypeOK, CalmAtDecision
    <2>5. SenderTypeOK' /\ DiskTypeOK' /\ SourceTypeOK'
      BY <1>11 DEF RefuseResumeEntry, TypeOK, SenderTypeOK, DiskTypeOK, SourceTypeOK,
          senderVars, diskVars, sourceVars
    <2> QED
      BY <2>2, <2>3, <2>4, <2>5 DEF TypeOK
  <1>12. ASSUME NEW l \in Listeners, Accept(l) PROVE TypeOK'
    <2>1. \A f \in Files : ResumeBytes(f, offer[l][f]) \in Nat
      BY <1>12, ContentsAssumption, NoFileAssumption DEF ResumeBytes, TypeOK,
          SenderTypeOK, DiskTypeOK
    <2>2. ConnTypeOK'
      BY <1>12, <2>1 DEF Accept, TypeOK, ConnTypeOK
    <2>3. ReceiverTypeOK'
      BY <1>12 DEF Accept, TypeOK, ReceiverTypeOK, ReceiverStates
    <2>4. calm' \in [Listeners -> BOOLEAN]
      BY <1>12 DEF Accept, TypeOK, CalmAtDecision
    <2>5. SenderTypeOK' /\ DiskTypeOK' /\ SourceTypeOK'
      BY <1>12 DEF Accept, TypeOK, SenderTypeOK, DiskTypeOK, SourceTypeOK, senderVars,
          diskVars, sourceVars
    <2> QED
      BY <2>2, <2>3, <2>4, <2>5 DEF TypeOK
  <1>13. ASSUME NEW l \in Listeners, OpenPartial(l) PROVE TypeOK'
    <2>1. rfile[l] \in Files
      BY <1>13 DEF OpenPartial, PositionsOK
    <2>2. /\ part' \in [Files -> Seq(Chunks) \cup {NoFile}]
          /\ hashed' \in [Listeners -> Seq(Chunks)]
          /\ handle' \in [Listeners -> Handles]
      <3>1. CASE offset[l][rfile[l]] = 0
        <4>1. /\ part' = [part EXCEPT ![rfile[l]] = <<>>]
              /\ handle' = Unlinked(l, rfile[l], "part")
              /\ hashed' = [hashed EXCEPT ![l] = <<>>]
          BY <1>13, <3>1 DEF OpenPartial
        <4> QED
          BY <4>1, <2>1
          DEF TypeOK, DiskTypeOK, ReceiverTypeOK, Unlinked, Handles
      <3>2. CASE offset[l][rfile[l]] # 0
        <4>1. /\ part' = part
              /\ handle' = [handle EXCEPT ![l] = "part"]
              /\ hashed' = [hashed EXCEPT ![l] = part[rfile[l]]]
          BY <1>13, <3>2 DEF OpenPartial
        <4>2. offset[l][rfile[l]] > 0
          BY <2>1, <3>2 DEF TypeOK, ConnTypeOK
        <4>3. part[rfile[l]] \in Seq(Chunks)
          BY <1>13, <2>1, <4>2 DEF OpenPartial, CanOpen, TypeOK, DiskTypeOK
        <4> QED
          BY <4>1, <4>3 DEF TypeOK, DiskTypeOK, ReceiverTypeOK, Handles
      <3> QED
        BY <3>1, <3>2
    <2>3. ReceiverTypeOK'
      BY <1>13, <2>2 DEF OpenPartial, TypeOK, ReceiverTypeOK, ReceiverStates
    <2>4. ConnTypeOK'
      BY <1>13 DEF OpenPartial, TypeOK, ConnTypeOK
    <2>5. DiskTypeOK'
      BY <1>13, <2>2 DEF OpenPartial, TypeOK, DiskTypeOK
    <2>6. SenderTypeOK' /\ SourceTypeOK' /\ calm' \in [Listeners -> BOOLEAN]
      BY <1>13 DEF OpenPartial, TypeOK, SenderTypeOK, SourceTypeOK, senderVars,
          sourceVars
    <2> QED
      BY <2>3, <2>4, <2>5, <2>6 DEF TypeOK
  <1>14. ASSUME NEW l \in Listeners, FinalizeResumed(l) PROVE TypeOK'
    <2>1. rfile[l] \in Files
      BY <1>14 DEF FinalizeResumed, PositionsOK
    <2>2. handle' \in [Listeners -> Handles]
      BY <1>14 DEF FinalizeResumed, TypeOK, ReceiverTypeOK, Renamed, Handles
    <2>3. ReceiverTypeOK'
      BY <1>14, <2>1, <2>2, AdvanceTypes DEF FinalizeResumed, TypeOK, ReceiverTypeOK
    <2>4. ConnTypeOK'
      BY <1>14 DEF FinalizeResumed, TypeOK, ConnTypeOK
    <2>5. DiskTypeOK'
      BY <1>14, <2>1 DEF FinalizeResumed, TypeOK, DiskTypeOK
    <2>6. SenderTypeOK' /\ SourceTypeOK' /\ calm' \in [Listeners -> BOOLEAN]
      BY <1>14 DEF FinalizeResumed, TypeOK, SenderTypeOK, SourceTypeOK, senderVars,
          sourceVars
    <2> QED
      BY <2>3, <2>4, <2>5, <2>6 DEF TypeOK
  <1>15. ASSUME NEW l \in Listeners, ResumedMismatch(l) PROVE TypeOK'
    <2>1. handle' \in [Listeners -> Handles]
      BY <1>15 DEF ResumedMismatch, TypeOK, ReceiverTypeOK, Handles
    <2>2. /\ ReceiverTypeOK'
          /\ up' \in [Listeners -> BOOLEAN]
          /\ wire' \in [Listeners -> Seq(HeaderFrame \cup DataFrame)]
      BY <1>15, <2>1, EndTypes DEF ResumedMismatch, Outcomes
    <2>3. ConnTypeOK'
      BY <1>15, <2>2 DEF ResumedMismatch, TypeOK, ConnTypeOK
    <2>4. SenderTypeOK' /\ DiskTypeOK' /\ SourceTypeOK' /\ calm' \in [Listeners -> BOOLEAN]
      BY <1>15 DEF ResumedMismatch, TypeOK, SenderTypeOK, DiskTypeOK, SourceTypeOK,
          senderVars, diskVars, sourceVars
    <2> QED
      BY <2>2, <2>3, <2>4 DEF TypeOK
  <1>16. ASSUME NEW l \in Listeners, RejectHeader(l) PROVE TypeOK'
    <2>1. handle' \in [Listeners -> Handles]
      BY <1>16 DEF RejectHeader, TypeOK, ReceiverTypeOK, Handles
    <2>2. /\ ReceiverTypeOK'
          /\ up' \in [Listeners -> BOOLEAN]
          /\ wire' \in [Listeners -> Seq(HeaderFrame \cup DataFrame)]
      BY <1>16, <2>1, EndTypes DEF RejectHeader, Outcomes
    <2>3. ConnTypeOK'
      BY <1>16, <2>2 DEF RejectHeader, TypeOK, ConnTypeOK
    <2>4. SenderTypeOK' /\ DiskTypeOK' /\ SourceTypeOK' /\ calm' \in [Listeners -> BOOLEAN]
      BY <1>16 DEF RejectHeader, TypeOK, SenderTypeOK, DiskTypeOK, SourceTypeOK,
          senderVars, diskVars, sourceVars
    <2> QED
      BY <2>2, <2>3, <2>4 DEF TypeOK
  <1>17. ASSUME NEW l \in Listeners, Appending(l) PROVE TypeOK'
    <2>1. rfile[l] \in Files
      BY <1>17 DEF Appending, PositionsOK
    <2>2. PICK chunk \in Chunks : Store(l, chunk)
      BY <1>17 DEF Appending
    <2>3. ReceiverTypeOK'
      BY <2>2 DEF Store, TypeOK, ReceiverTypeOK
    <2>4. ConnTypeOK'
      BY <1>17, <2>2 DEF Appending, Store, TypeOK, ConnTypeOK
    <2>5. part' \in [Files -> Seq(Chunks) \cup {NoFile}]
      <3>1. CASE handle[l] = "part"
        <4>1. part[rfile[l]] \in Seq(Chunks)
          BY <2>1, <3>1 DEF HandlesOK, TypeOK, DiskTypeOK
        <4>2. Written(l, part[rfile[l]], chunk) \in Seq(Chunks)
          BY <2>2, <4>1, WrittenType DEF TypeOK, ReceiverTypeOK
        <4>3. part' = [part EXCEPT ![rfile[l]] = Written(l, part[rfile[l]], chunk)]
          BY <2>2, <3>1 DEF Store
        <4> QED
          BY <2>1, <4>2, <4>3 DEF TypeOK, DiskTypeOK
      <3>2. CASE handle[l] # "part"
        BY <2>2, <3>2 DEF Store, TypeOK, DiskTypeOK
      <3> QED
        BY <3>1, <3>2
    <2>6. dest' \in [Files -> Seq(Chunks) \cup {NoFile}]
      <3>1. CASE handle[l] = "dest"
        <4>1. dest[rfile[l]] \in Seq(Chunks)
          BY <2>1, <3>1 DEF HandlesOK, TypeOK, DiskTypeOK
        <4>2. Written(l, dest[rfile[l]], chunk) \in Seq(Chunks)
          BY <2>2, <4>1, WrittenType DEF TypeOK, ReceiverTypeOK
        <4>3. dest' = [dest EXCEPT ![rfile[l]] = Written(l, dest[rfile[l]], chunk)]
          BY <2>2, <3>1 DEF Store
        <4> QED
          BY <2>1, <4>2, <4>3 DEF TypeOK, DiskTypeOK
      <3>2. CASE handle[l] # "dest"
        BY <2>2, <3>2 DEF Store, TypeOK, DiskTypeOK
      <3> QED
        BY <3>1, <3>2
    <2>7. DiskTypeOK'
      BY <2>5, <2>6 DEF DiskTypeOK
    <2>8. SenderTypeOK' /\ SourceTypeOK' /\ calm' \in [Listeners -> BOOLEAN]
      BY <2>2 DEF Store, TypeOK, SenderTypeOK, SourceTypeOK, senderVars,
          sourceVars
    <2> QED
      BY <2>3, <2>4, <2>7, <2>8 DEF TypeOK
  <1>18. ASSUME NEW l \in Listeners, FinishFile(l) PROVE TypeOK'
    <2>1. rfile[l] \in Files
      BY <1>18 DEF FinishFile, PositionsOK
    <2>2. handle' \in [Listeners -> Handles]
      BY <1>18 DEF FinishFile, TypeOK, ReceiverTypeOK, Renamed, Handles
    <2>3. ReceiverTypeOK'
      BY <1>18, <2>1, <2>2, AdvanceTypes DEF FinishFile, TypeOK, ReceiverTypeOK
    <2>4. DiskTypeOK'
      BY <1>18, <2>1 DEF FinishFile, TypeOK, DiskTypeOK
    <2>5. SenderTypeOK' /\ ConnTypeOK' /\ SourceTypeOK' /\ calm' \in [Listeners -> BOOLEAN]
      BY <1>18 DEF FinishFile, TypeOK, SenderTypeOK, ConnTypeOK, SourceTypeOK,
          senderVars, connVars, sourceVars
    <2> QED
      BY <2>3, <2>4, <2>5 DEF TypeOK
  <1>19. ASSUME NEW l \in Listeners, ChecksumMismatch(l) PROVE TypeOK'
    <2>1. handle' \in [Listeners -> Handles]
      BY <1>19 DEF ChecksumMismatch, TypeOK, ReceiverTypeOK, Handles, Unlinked
    <2>2. /\ ReceiverTypeOK'
          /\ up' \in [Listeners -> BOOLEAN]
          /\ wire' \in [Listeners -> Seq(HeaderFrame \cup DataFrame)]
      BY <1>19, <2>1, EndTypes DEF ChecksumMismatch, Outcomes
    <2>3. ConnTypeOK'
      BY <1>19, <2>2 DEF ChecksumMismatch, TypeOK, ConnTypeOK
    <2>4. DiskTypeOK'
      BY <1>19 DEF ChecksumMismatch, TypeOK, DiskTypeOK
    <2>5. SenderTypeOK' /\ SourceTypeOK' /\ calm' \in [Listeners -> BOOLEAN]
      BY <1>19 DEF ChecksumMismatch, TypeOK, SenderTypeOK, SourceTypeOK, senderVars,
          sourceVars
    <2> QED
      BY <2>2, <2>3, <2>4, <2>5 DEF TypeOK
  <1>20. ASSUME NEW l \in Listeners, RejectData(l) PROVE TypeOK'
    <2>1. handle' \in [Listeners -> Handles]
      BY <1>20 DEF RejectData, TypeOK, ReceiverTypeOK, Handles
    <2>2. /\ ReceiverTypeOK'
          /\ up' \in [Listeners -> BOOLEAN]
          /\ wire' \in [Listeners -> Seq(HeaderFrame \cup DataFrame)]
      BY <1>20, <2>1, EndTypes DEF RejectData, Outcomes
    <2>3. ConnTypeOK'
      BY <1>20, <2>2 DEF RejectData, TypeOK, ConnTypeOK
    <2>4. SenderTypeOK' /\ DiskTypeOK' /\ SourceTypeOK' /\ calm' \in [Listeners -> BOOLEAN]
      BY <1>20 DEF RejectData, TypeOK, SenderTypeOK, DiskTypeOK, SourceTypeOK,
          senderVars, diskVars, sourceVars
    <2> QED
      BY <2>2, <2>3, <2>4 DEF TypeOK
  <1>21. ASSUME NEW l \in Listeners, StreamEnds(l) PROVE TypeOK'
    <2>1. handle' \in [Listeners -> Handles]
      BY <1>21 DEF StreamEnds, TypeOK, ReceiverTypeOK, Handles
    <2>2. /\ ReceiverTypeOK'
          /\ up' \in [Listeners -> BOOLEAN]
          /\ wire' \in [Listeners -> Seq(HeaderFrame \cup DataFrame)]
      BY <1>21, <2>1, EndTypes DEF StreamEnds, Outcomes
    <2>3. ConnTypeOK'
      BY <1>21, <2>2 DEF StreamEnds, TypeOK, ConnTypeOK
    <2>4. SenderTypeOK' /\ DiskTypeOK' /\ SourceTypeOK' /\ calm' \in [Listeners -> BOOLEAN]
      BY <1>21 DEF StreamEnds, TypeOK, SenderTypeOK, DiskTypeOK, SourceTypeOK,
          senderVars, diskVars, sourceVars
    <2> QED
      BY <2>2, <2>3, <2>4 DEF TypeOK
  <1>22. ASSUME NEW l \in Listeners, EndTransfer(l) PROVE TypeOK'
    <2>1. handle' \in [Listeners -> Handles]
      BY <1>22 DEF EndTransfer, TypeOK, ReceiverTypeOK, Handles
    <2>2. /\ ReceiverTypeOK'
          /\ up' \in [Listeners -> BOOLEAN]
          /\ wire' \in [Listeners -> Seq(HeaderFrame \cup DataFrame)]
      BY <1>22, <2>1, EndTypes DEF EndTransfer, Outcomes
    <2>3. ConnTypeOK'
      BY <1>22, <2>2 DEF EndTransfer, TypeOK, ConnTypeOK
    <2>4. SenderTypeOK' /\ DiskTypeOK' /\ SourceTypeOK' /\ calm' \in [Listeners -> BOOLEAN]
      BY <1>22 DEF EndTransfer, TypeOK, SenderTypeOK, DiskTypeOK, SourceTypeOK,
          senderVars, diskVars, sourceVars
    <2> QED
      BY <2>2, <2>3, <2>4 DEF TypeOK
  <1>23. ASSUME NEW l \in Listeners, StagingFails(l) PROVE TypeOK'
    <2>1. handle' \in [Listeners -> Handles]
      BY <1>23 DEF StagingFails, TypeOK, ReceiverTypeOK, Handles
    <2>2. /\ ReceiverTypeOK'
          /\ up' \in [Listeners -> BOOLEAN]
          /\ wire' \in [Listeners -> Seq(HeaderFrame \cup DataFrame)]
      BY <1>23, <2>1, EndTypes DEF StagingFails, Outcomes
    <2>3. ConnTypeOK'
      BY <1>23, <2>2 DEF StagingFails, TypeOK, ConnTypeOK
    <2>4. calm' \in [Listeners -> BOOLEAN]
      BY <1>23 DEF StagingFails, TypeOK
    <2>5. SenderTypeOK' /\ DiskTypeOK' /\ SourceTypeOK'
      BY <1>23 DEF StagingFails, TypeOK, SenderTypeOK, DiskTypeOK, SourceTypeOK,
          senderVars, diskVars, sourceVars
    <2> QED
      BY <2>2, <2>3, <2>4, <2>5 DEF TypeOK
  <1>24. ASSUME NEW l \in Listeners, SendPaths(l) PROVE TypeOK'
    <2>1. SenderTypeOK'
      BY <1>24 DEF SendPaths, Connect, TypeOK, SenderTypeOK, SourceTypeOK, SenderStates
    <2>2. ConnTypeOK'
      BY <1>24 DEF SendPaths, Connect, TypeOK, ConnTypeOK
    <2>3. ReceiverTypeOK'
      BY <1>24 DEF SendPaths, Connect, TypeOK, ReceiverTypeOK, ReceiverStates, Outcomes
    <2>4. calm' \in [Listeners -> BOOLEAN]
      BY <1>24 DEF SendPaths, TypeOK
    <2>5. DiskTypeOK' /\ SourceTypeOK'
      BY <1>24 DEF SendPaths, Connect, TypeOK, DiskTypeOK, SourceTypeOK, diskVars,
          sourceVars
    <2> QED
      BY <2>1, <2>2, <2>3, <2>4, <2>5 DEF TypeOK
  <1>25. ASSUME NEW l \in Listeners, AutoRetry(l) PROVE TypeOK'
    <2>1. SenderTypeOK'
      BY <1>25 DEF AutoRetry, Connect, TypeOK, SenderTypeOK, SourceTypeOK, SenderStates
    <2>2. ConnTypeOK'
      BY <1>25 DEF AutoRetry, Connect, TypeOK, ConnTypeOK
    <2>3. ReceiverTypeOK'
      BY <1>25 DEF AutoRetry, Connect, TypeOK, ReceiverTypeOK, ReceiverStates, Outcomes
    <2>4. calm' \in [Listeners -> BOOLEAN]
      BY <1>25 DEF AutoRetry, TypeOK
    <2>5. DiskTypeOK' /\ SourceTypeOK'
      BY <1>25 DEF AutoRetry, Connect, TypeOK, DiskTypeOK, SourceTypeOK, diskVars,
          sourceVars
    <2> QED
      BY <2>1, <2>2, <2>3, <2>4, <2>5 DEF TypeOK
  <1>26. ASSUME NEW l \in Listeners, SendAborted(l) PROVE TypeOK'
    <2>1. SenderTypeOK' /\ up' \in [Listeners -> BOOLEAN]
      BY <1>26, StopTypes DEF SendAborted, SenderStates
    <2>2. ConnTypeOK'
      BY <1>26, <2>1 DEF SendAborted, TypeOK, ConnTypeOK
    <2>3. calm' \in [Listeners -> BOOLEAN]
      BY <1>26 DEF SendAborted, TypeOK
    <2>4. ReceiverTypeOK' /\ DiskTypeOK' /\ SourceTypeOK'
      BY <1>26 DEF SendAborted, Stop, TypeOK, ReceiverTypeOK, DiskTypeOK, SourceTypeOK,
          receiverVars, diskVars, sourceVars
    <2> QED
      BY <2>1, <2>2, <2>3, <2>4 DEF TypeOK
  <1>27. ASSUME NEW l \in Listeners, LinkDown(l) PROVE TypeOK'
    <2>1. wire' \in [Listeners -> Seq(HeaderFrame \cup DataFrame)]
      <3>1. PICK n \in 0..Len(wire[l]) : wire' = [wire EXCEPT ![l] = SubSeq(wire[l], 1, n)]
        BY <1>27 DEF LinkDown
      <3>2. SubSeq(wire[l], 1, n) \in Seq(HeaderFrame \cup DataFrame)
        <4>1. wire[l] \in Seq(HeaderFrame \cup DataFrame)
          BY DEF TypeOK, ConnTypeOK
        <4> QED
          BY <4>1
      <3> QED
        BY <3>1, <3>2 DEF TypeOK, ConnTypeOK
    <2>2. ConnTypeOK'
      BY <1>27, <2>1 DEF LinkDown, TypeOK, ConnTypeOK
    <2>3. calm' \in [Listeners -> BOOLEAN]
      BY <1>27 DEF LinkDown, TypeOK
    <2>4. SenderTypeOK' /\ ReceiverTypeOK' /\ DiskTypeOK' /\ SourceTypeOK'
      BY <1>27 DEF LinkDown, TypeOK, SenderTypeOK, ReceiverTypeOK, DiskTypeOK,
          SourceTypeOK, senderVars, receiverVars, diskVars, sourceVars
    <2> QED
      BY <2>2, <2>3, <2>4 DEF TypeOK
  <1>28. ASSUME NEW l \in Listeners, EditSource(l) PROVE TypeOK'
    <2>1. SourceTypeOK'
      BY <1>28 DEF EditSource, TypeOK, SourceTypeOK
    <2>2. calm' \in [Listeners -> BOOLEAN]
      BY <1>28 DEF EditSource, TypeOK
    <2>3. SenderTypeOK' /\ ConnTypeOK' /\ ReceiverTypeOK' /\ DiskTypeOK'
      BY <1>28 DEF EditSource, TypeOK, SenderTypeOK, ConnTypeOK, ReceiverTypeOK,
          DiskTypeOK, senderVars, connVars, receiverVars, diskVars
    <2> QED
      BY <2>1, <2>2, <2>3 DEF TypeOK
  <1>29. ASSUME NEW l \in Listeners, AbortReceive(l) PROVE TypeOK'
    <2>1. handle' \in [Listeners -> Handles]
      BY <1>29 DEF AbortReceive, TypeOK, ReceiverTypeOK, Handles
    <2>2. /\ ReceiverTypeOK'
          /\ up' \in [Listeners -> BOOLEAN]
          /\ wire' \in [Listeners -> Seq(HeaderFrame \cup DataFrame)]
      BY <1>29, <2>1, EndTypes DEF AbortReceive, Outcomes
    <2>3. ConnTypeOK'
      BY <1>29, <2>2 DEF AbortReceive, TypeOK, ConnTypeOK
    <2>4. calm' \in [Listeners -> BOOLEAN]
      BY <1>29 DEF AbortReceive, TypeOK
    <2>5. SenderTypeOK' /\ DiskTypeOK' /\ SourceTypeOK'
      BY <1>29 DEF AbortReceive, TypeOK, SenderTypeOK, DiskTypeOK, SourceTypeOK,
          senderVars, diskVars, sourceVars
    <2> QED
      BY <2>2, <2>3, <2>4, <2>5 DEF TypeOK
  <1>30. ASSUME ReceiverCrash PROVE TypeOK'
    <2>1. ReceiverTypeOK'
      BY <1>30, NFilesAssumption DEF ReceiverCrash, TypeOK, ReceiverTypeOK,
          ReceiverStates, Handles, Outcomes
    <2>2. ConnTypeOK'
      BY <1>30 DEF ReceiverCrash, TypeOK, ConnTypeOK
    <2>3. calm' \in [Listeners -> BOOLEAN]
      BY <1>30 DEF ReceiverCrash
    <2>4. SenderTypeOK' /\ DiskTypeOK' /\ SourceTypeOK'
      BY <1>30 DEF ReceiverCrash, TypeOK, SenderTypeOK, DiskTypeOK, SourceTypeOK,
          senderVars, diskVars, sourceVars
    <2> QED
      BY <2>1, <2>2, <2>3, <2>4 DEF TypeOK
  <1>31. ASSUME NEW f \in Files, TakeFile(f) PROVE TypeOK'
    <2>1. handle' \in [Listeners -> Handles]
      BY <1>31 DEF TakeFile, TypeOK, ReceiverTypeOK, Handles
    <2>2. ReceiverTypeOK'
      BY <1>31, <2>1 DEF TakeFile, TypeOK, ReceiverTypeOK
    <2>3. DiskTypeOK'
      BY <1>31 DEF TakeFile, TypeOK, DiskTypeOK
    <2>4. calm' \in [Listeners -> BOOLEAN]
      BY <1>31 DEF TakeFile
    <2>5. SenderTypeOK' /\ ConnTypeOK' /\ SourceTypeOK'
      BY <1>31 DEF TakeFile, TypeOK, SenderTypeOK, ConnTypeOK, SourceTypeOK, senderVars,
          connVars, sourceVars
    <2> QED
      BY <2>2, <2>3, <2>4, <2>5 DEF TypeOK
  <1> QED
    BY <1>1, <1>2, <1>3, <1>4, <1>5, <1>6, <1>7, <1>8, <1>9, <1>10, <1>11, <1>12, <1>13,
        <1>14, <1>15, <1>16, <1>17, <1>18, <1>19, <1>20, <1>21, <1>22, <1>23, <1>24,
        <1>25, <1>26, <1>27, <1>28, <1>29, <1>30, <1>31, TypeStutter, SenderActions,
        DecisionActions, FileActions
    DEF Next, Environment

\* The sender's and the receiver's place in the list of files.
LEMMA PositionsStep == TypeOK /\ PositionsOK /\ [Next]_vars => PositionsOK'
  <1> SUFFICES ASSUME TypeOK, PositionsOK PROVE [Next]_vars => PositionsOK'
    OBVIOUS
  <1> USE NFilesAssumption DEF PositionsOK, Files
  <1>1. ASSUME NEW l \in Listeners, SenderStep(l) PROVE PositionsOK'
    <2>1. CASE ReadRefusal(l) \/ OffsetPastEnd(l) \/ SendFinished(l) \/ SendBroken(l)
      BY <2>1 DEF ReadRefusal, OffsetPastEnd, SendFinished, SendBroken, Stop, TypeOK,
          SenderTypeOK, receiverVars
    <2>2. CASE ReadAccept(l) \/ SendHeader(l)
      BY <2>2 DEF ReadAccept, SendHeader, TypeOK, SenderTypeOK, receiverVars
    <2>3. CASE SendChunk(l) \/ EndOfSource(l)
      BY <2>3 DEF SendChunk, EndOfSource, TypeOK, SenderTypeOK, receiverVars
    <2> QED
      BY <1>1, <2>1, <2>2, <2>3, SenderActions
  <1>2. ASSUME NEW l \in Listeners, DecisionStep(l) PROVE PositionsOK'
    <2>1. CASE Accept(l)
      BY <2>1 DEF Accept, TypeOK, ReceiverTypeOK, senderVars
    <2>2. CASE Decline(l) \/ RefuseResumeState(l) \/ RefuseResumeEntry(l)
      BY <2>2 DEF Decline, RefuseResumeState, RefuseResumeEntry, End, TypeOK, ReceiverTypeOK,
          senderVars
    <2> QED
      BY <1>2, <2>1, <2>2, DecisionActions
  <1>3. ASSUME NEW l \in Listeners, FileStep(l) PROVE PositionsOK'
    <2>1. CASE OpenPartial(l) \/ Appending(l)
      BY <2>1 DEF OpenPartial, Appending, Store, TypeOK, ReceiverTypeOK, senderVars
    <2>2. CASE FinalizeResumed(l) \/ FinishFile(l)
      BY <2>2 DEF FinalizeResumed, FinishFile, Advance, TypeOK, ReceiverTypeOK, senderVars
    <2>3. CASE \E r \in Outcomes : End(l, r) /\ UNCHANGED senderVars
      BY <2>3 DEF End, TypeOK, ReceiverTypeOK, senderVars
    <2> QED
      BY <1>3, <2>1, <2>2, <2>3, FileActions
      DEF ResumedMismatch, RejectHeader, ChecksumMismatch, RejectData, StreamEnds,
          EndTransfer, StagingFails, Outcomes
  <1>4. ASSUME NEW l \in Listeners, Environment(l) PROVE PositionsOK'
    <2>1. CASE SendPaths(l) \/ AutoRetry(l)
      BY <2>1 DEF SendPaths, AutoRetry, Connect, TypeOK, SenderTypeOK, ReceiverTypeOK
    <2>2. CASE SendAborted(l) \/ LinkDown(l) \/ EditSource(l)
      BY <2>2 DEF SendAborted, LinkDown, EditSource, Stop, TypeOK, SenderTypeOK, senderVars,
          receiverVars
    <2>3. CASE AbortReceive(l)
      BY <2>3 DEF AbortReceive, End, TypeOK, ReceiverTypeOK, senderVars
    <2> QED
      BY <1>4, <2>1, <2>2, <2>3 DEF Environment
  <1>5. ASSUME ReceiverCrash PROVE PositionsOK'
    BY <1>5 DEF ReceiverCrash, senderVars
  <1>6. ASSUME NEW f \in Files, TakeFile(f) PROVE PositionsOK'
    BY <1>6 DEF TakeFile, senderVars
  <1>7. ASSUME UNCHANGED vars PROVE PositionsOK'
    BY <1>7 DEF vars, senderVars, receiverVars
  <1> QED
    BY <1>1, <1>2, <1>3, <1>4, <1>5, <1>6, <1>7 DEF Next

\* No handle is left on a path where nothing is.
LEMMA HandlesStep == TypeOK /\ PositionsOK /\ HandlesOK /\ [Next]_vars => HandlesOK'
  <1> SUFFICES ASSUME TypeOK, PositionsOK, HandlesOK PROVE [Next]_vars => HandlesOK'
    OBVIOUS
  <1> USE DEF HandlesOK
  <1>0. <<>> # NoFile /\ \A s \in Seq(Chunks) : s # NoFile
    <2>1. <<>> \in Seq(Chunks)
      OBVIOUS
    <2> QED
      BY <2>1, NoFileAssumption
  <1>1. ASSUME NEW l \in Listeners, SenderStep(l) PROVE HandlesOK'
    BY <1>1, SenderActions DEF ReadAccept, ReadRefusal, SendHeader, OffsetPastEnd, SendChunk,
        EndOfSource, SendFinished, SendBroken, receiverVars, diskVars
  <1>2. ASSUME NEW l \in Listeners, DecisionStep(l) PROVE HandlesOK'
    BY <1>2, DecisionActions DEF Decline, RefuseResumeState, RefuseResumeEntry, Accept, End,
        TypeOK, ReceiverTypeOK, diskVars
  <1>3. ASSUME NEW l \in Listeners, FileStep(l) PROVE HandlesOK'
    <2>1. CASE OpenPartial(l)
      <3>1. rfile[l] \in Files
        BY <2>1 DEF OpenPartial, PositionsOK
      <3>2. CASE offset[l][rfile[l]] = 0
        <4>1. /\ part' = [part EXCEPT ![rfile[l]] = <<>>]
              /\ handle' = Unlinked(l, rfile[l], "part")
              /\ rst' = [rst EXCEPT ![l] = "data"]
              /\ UNCHANGED <<rfile, dest>>
          BY <2>1, <3>2 DEF OpenPartial
        <4>2. ASSUME NEW k \in Listeners
              PROVE  /\ rst'[k] # "data" => handle'[k] = "none"
                     /\ handle'[k] = "part" => part'[rfile'[k]] # NoFile
                     /\ handle'[k] = "dest" => dest'[rfile'[k]] # NoFile
          BY <4>1, <3>1, <1>0 DEF Unlinked, TypeOK, ReceiverTypeOK, DiskTypeOK
        <4> QED
          BY <4>2
      <3>3. CASE offset[l][rfile[l]] # 0
        <4>1. offset[l][rfile[l]] > 0
          BY <3>1, <3>3 DEF TypeOK, ConnTypeOK
        <4> QED
          BY <2>1, <3>1, <3>3, <4>1
          DEF OpenPartial, CanOpen, TypeOK, ReceiverTypeOK, DiskTypeOK
      <3> QED
        BY <3>2, <3>3
    <2>2. CASE FinalizeResumed(l) \/ FinishFile(l)
      <3>1. rfile[l] \in Files
        BY <2>2 DEF FinalizeResumed, FinishFile, PositionsOK
      <3>2. CASE /\ dest' = [dest EXCEPT ![rfile[l]] = part[rfile[l]]]
                 /\ part' = [part EXCEPT ![rfile[l]] = NoFile]
                 /\ handle' = Renamed(l, rfile[l])
                 /\ part[rfile[l]] # NoFile
        BY <2>2, <3>1, <3>2
        DEF FinalizeResumed, FinishFile, Advance, Renamed, TypeOK, ReceiverTypeOK, DiskTypeOK
      <3>3. CASE FinalizeResumed(l) /\ UNCHANGED <<part, dest, handle>>
        BY <3>3 DEF FinalizeResumed, Advance, TypeOK, ReceiverTypeOK
      <3>4. part[rfile[l]] = offer[l][rfile[l]] => part[rfile[l]] # NoFile
        BY <3>1, <1>0, ContentsAssumption DEF TypeOK, SenderTypeOK
      <3> QED
        BY <2>2, <3>2, <3>3, <3>4 DEF FinalizeResumed, FinishFile
    <2>3. CASE Appending(l)
      <3>1. rfile[l] \in Files
        BY <2>3 DEF Appending, PositionsOK
      <3>2. PICK chunk \in Chunks : Store(l, chunk)
        BY <2>3 DEF Appending
      <3>3. ASSUME NEW content \in Seq(Chunks)
            PROVE  Written(l, content, chunk) # NoFile
        BY <3>2, <1>0, WrittenType DEF TypeOK, ReceiverTypeOK
      <3>4. handle[l] = "part" => part[rfile[l]] \in Seq(Chunks)
        BY <3>1 DEF TypeOK, DiskTypeOK
      <3>5. handle[l] = "dest" => dest[rfile[l]] \in Seq(Chunks)
        BY <3>1 DEF TypeOK, DiskTypeOK
      <3>6. \A f \in Files : part[f] # NoFile => part'[f] # NoFile
        BY <3>2, <3>1, <3>3, <3>4 DEF Store, TypeOK, DiskTypeOK
      <3>7. \A f \in Files : dest[f] # NoFile => dest'[f] # NoFile
        BY <3>2, <3>1, <3>3, <3>5 DEF Store, TypeOK, DiskTypeOK
      <3>8. \A k \in Listeners : handle[k] # "none" => rfile[k] \in Files
        BY DEF PositionsOK
      <3> QED
        BY <2>3, <3>2, <3>6, <3>7, <3>8 DEF Appending, Store, TypeOK, ReceiverTypeOK, Handles
    <2>4. CASE ChecksumMismatch(l)
      BY <2>4 DEF ChecksumMismatch, Unlinked, End, PositionsOK, TypeOK, ReceiverTypeOK,
          DiskTypeOK
    <2>5. CASE RejectData(l) \/ StreamEnds(l)
      BY <2>5 DEF RejectData, StreamEnds, End, TypeOK, ReceiverTypeOK, diskVars
    <2>6. CASE ResumedMismatch(l) \/ RejectHeader(l) \/ EndTransfer(l) \/ StagingFails(l)
      BY <2>6 DEF ResumedMismatch, RejectHeader, EndTransfer, StagingFails, End, TypeOK,
          ReceiverTypeOK, diskVars
    <2> QED
      BY <1>3, <2>1, <2>2, <2>3, <2>4, <2>5, <2>6, FileActions
  <1>4. ASSUME NEW l \in Listeners, Environment(l) PROVE HandlesOK'
    <2>1. CASE SendPaths(l) \/ AutoRetry(l)
      BY <2>1 DEF SendPaths, AutoRetry, Connect, TypeOK, ReceiverTypeOK, diskVars
    <2>2. CASE SendAborted(l) \/ LinkDown(l) \/ EditSource(l)
      BY <2>2 DEF SendAborted, LinkDown, EditSource, receiverVars, diskVars
    <2>3. CASE AbortReceive(l)
      BY <2>3 DEF AbortReceive, End, TypeOK, ReceiverTypeOK, diskVars
    <2> QED
      BY <1>4, <2>1, <2>2, <2>3 DEF Environment
  <1>5. ASSUME ReceiverCrash PROVE HandlesOK'
    BY <1>5 DEF ReceiverCrash
  <1>6. ASSUME NEW f \in Files, TakeFile(f) PROVE HandlesOK'
    BY <1>6 DEF TakeFile, PositionsOK, TypeOK, DiskTypeOK
  <1>7. ASSUME UNCHANGED vars PROVE HandlesOK'
    BY <1>7 DEF vars, receiverVars, diskVars
  <1> QED
    BY <1>1, <1>2, <1>3, <1>4, <1>5, <1>6, <1>7 DEF Next

\* What holds in every state, whatever the number of listeners.
ControlInv == TypeOK /\ PositionsOK /\ HandlesOK

\* TypeOK with the two conjuncts that make it inductive: the places of both sides in the
\* list of files, and the handles.
LEMMA ControlInvariant == Spec => []ControlInv
  <1>1. Init => ControlInv
    BY TypeInit DEF ControlInv, Init, HandlesOK
  <1>2. ControlInv /\ [Next]_vars => ControlInv'
    BY TypeStep, PositionsStep, HandlesStep DEF ControlInv
  <1> QED
    BY <1>1, <1>2, PTL DEF Spec

\* The type invariant, for any number of listeners, files, attempts and edits.
THEOREM TypeCorrect == Spec => []TypeOK
  <1>1. ControlInv => TypeOK
    BY DEF ControlInv
  <1> QED
    BY <1>1, ControlInvariant, PTL
-----------------------------------------------------------------------------
(* One listener: the refinement of VerifiedInbox.                           *)

\* At most one accept loop runs.
OneListener == \A k, l \in Listeners : k = l

\* What holds in every state with one listener.
SoloInv == ControlInv /\ PartialIsHashed /\ StartsEmpty

\* Nothing but the steps of the receiver's handler touches the open partial.
LEMMA PartialStep ==
  ASSUME OneListener, ControlInv, PartialIsHashed
  PROVE  [Next]_vars => PartialIsHashed'
  <1> USE DEF ControlInv, PartialIsHashed
  <1>0. <<>> # NoFile /\ \A s \in Seq(Chunks) : s # NoFile
    <2>1. <<>> \in Seq(Chunks)
      OBVIOUS
    <2> QED
      BY <2>1, NoFileAssumption
  <1>1. ASSUME NEW l \in Listeners, SenderStep(l) PROVE PartialIsHashed'
    BY <1>1, SenderActions DEF ReadAccept, ReadRefusal, SendHeader, OffsetPastEnd, SendChunk,
        EndOfSource, SendFinished, SendBroken, receiverVars, diskVars
  <1>2. ASSUME NEW l \in Listeners, DecisionStep(l) PROVE PartialIsHashed'
    BY <1>2, DecisionActions DEF Decline, RefuseResumeState, RefuseResumeEntry, Accept, End,
        TypeOK, ReceiverTypeOK, diskVars
  <1>3. ASSUME NEW l \in Listeners, FileStep(l) PROVE PartialIsHashed'
    <2>0. \A k \in Listeners : k = l
      BY DEF OneListener
    <2>1. CASE OpenPartial(l)
      <3>1. rfile[l] \in Files
        BY <2>1 DEF OpenPartial, PositionsOK
      <3>2. dest[rfile[l]] = NoFile
        BY <2>1 DEF OpenPartial, CanOpen
      <3>3. /\ part'[rfile[l]] = hashed'[l]
            /\ handle'[l] = "part"
        <4>1. CASE offset[l][rfile[l]] = 0
          BY <2>1, <3>1, <4>1 DEF OpenPartial, Unlinked, TypeOK, ReceiverTypeOK, DiskTypeOK
        <4>2. CASE offset[l][rfile[l]] # 0
          BY <2>1, <3>1, <4>2 DEF OpenPartial, TypeOK, ReceiverTypeOK, DiskTypeOK
        <4> QED
          BY <4>1, <4>2
      <3> QED
        BY <2>0, <2>1, <3>2, <3>3 DEF OpenPartial
    <2>2. CASE FinalizeResumed(l) \/ FinishFile(l)
      <3>1. rst'[l] # "data"
        BY <2>2 DEF FinalizeResumed, FinishFile, Advance, TypeOK, ReceiverTypeOK
      <3> QED
        BY <2>0, <3>1
    <2>3. CASE Appending(l)
      <3>1. rfile[l] \in Files /\ rst[l] = "data"
        BY <2>3 DEF Appending, PositionsOK
      <3>0. PICK chunk \in Chunks : Store(l, chunk)
        BY <2>3 DEF Appending
      <3>2. part[rfile[l]] = hashed[l] /\ hashed[l] \in Seq(Chunks) /\ handle[l] = "part"
        BY <3>1 DEF TypeOK, ReceiverTypeOK
      <3>3. part' = [part EXCEPT ![rfile[l]] = Written(l, part[rfile[l]], chunk)]
        BY <3>0, <3>2 DEF Store
      <3>4. Written(l, part[rfile[l]], chunk)
                = Append(hashed[l], chunk)
        BY <3>2 DEF Written
      <3>5. hashed'[l] = Append(hashed[l], chunk)
        BY <3>0 DEF Store, TypeOK, ReceiverTypeOK
      <3>6. UNCHANGED <<rst, rfile, handle, dest>>
        BY <3>0, <3>2 DEF Store
      <3> QED
        BY <2>0, <3>1, <3>3, <3>4, <3>5, <3>6 DEF TypeOK, DiskTypeOK
    <2>4. CASE \E r \in Outcomes : End(l, r)
      BY <2>0, <2>4 DEF End, TypeOK, ReceiverTypeOK
    <2> QED
      BY <1>3, <2>1, <2>2, <2>3, <2>4, FileActions
      DEF ResumedMismatch, RejectHeader, ChecksumMismatch, RejectData, StreamEnds,
          EndTransfer, StagingFails, Outcomes
  <1>4. ASSUME NEW l \in Listeners, Environment(l) PROVE PartialIsHashed'
    <2>1. CASE SendPaths(l) \/ AutoRetry(l)
      BY <2>1 DEF SendPaths, AutoRetry, Connect, TypeOK, ReceiverTypeOK, diskVars
    <2>2. CASE SendAborted(l) \/ LinkDown(l) \/ EditSource(l)
      BY <2>2 DEF SendAborted, LinkDown, EditSource, receiverVars, diskVars
    <2>3. CASE AbortReceive(l)
      BY <2>3 DEF AbortReceive, End, TypeOK, ReceiverTypeOK, diskVars
    <2> QED
      BY <1>4, <2>1, <2>2, <2>3 DEF Environment
  <1>5. ASSUME ReceiverCrash PROVE PartialIsHashed'
    BY <1>5 DEF ReceiverCrash
  <1>6. ASSUME NEW f \in Files, TakeFile(f) PROVE PartialIsHashed'
    BY <1>6 DEF TakeFile, TypeOK, DiskTypeOK, PositionsOK
  <1>7. ASSUME UNCHANGED vars PROVE PartialIsHashed'
    BY <1>7 DEF vars, receiverVars, diskVars
  <1> QED
    BY <1>1, <1>2, <1>3, <1>4, <1>5, <1>6, <1>7 DEF Next

\* Between the decision and the opening of a file nobody puts bytes into its partial.
LEMMA StartsEmptyStep ==
  ASSUME OneListener, ControlInv, PartialIsHashed, StartsEmpty
  PROVE  [Next]_vars => StartsEmpty'
  <1> USE DEF ControlInv, StartsEmpty
  <1>1. ASSUME NEW l \in Listeners, SenderStep(l) PROVE StartsEmpty'
    BY <1>1, SenderActions DEF ReadAccept, ReadRefusal, SendHeader, OffsetPastEnd, SendChunk,
        EndOfSource, SendFinished, SendBroken, Stop, receiverVars, connVars, diskVars
  <1>2. ASSUME NEW l \in Listeners, DecisionStep(l) PROVE StartsEmpty'
    <2>0. \A k \in Listeners : k = l
      BY DEF OneListener
    <2>1. CASE Accept(l)
      <3>1. ASSUME NEW f \in Files, ResumeBytes(f, offer[l][f]) = 0
            PROVE  part[f] \in {NoFile, <<>>}
        <4>1. CASE dest[f] # NoFile
          BY <2>1, <3>1, <4>1 DEF Accept, ResumeConflict, ResumeBytes, EmptyResumeEntry
        <4>2. CASE dest[f] = NoFile /\ part[f] # NoFile
          <5>1. part[f] \in Seq(Chunks) /\ Len(part[f]) = 0
            BY <3>1, <4>2 DEF ResumeBytes, TypeOK, DiskTypeOK
          <5> QED
            BY <5>1
        <4> QED
          BY <4>1, <4>2
      <3>2. offset'[l] = [f \in Files |-> ResumeBytes(f, offer[l][f])]
        BY <2>1 DEF Accept, TypeOK, ConnTypeOK
      <3> QED
        BY <2>0, <2>1, <3>1, <3>2 DEF Accept, diskVars
    <2>2. CASE \E r \in Outcomes : End(l, r)
      BY <2>0, <2>2 DEF End, TypeOK, ReceiverTypeOK
    <2> QED
      BY <1>2, <2>1, <2>2, DecisionActions
      DEF Decline, RefuseResumeState, RefuseResumeEntry, Outcomes
  <1>3. ASSUME NEW l \in Listeners, FileStep(l) PROVE StartsEmpty'
    <2>0. \A k \in Listeners : k = l
      BY DEF OneListener
    <2>1. CASE OpenPartial(l) \/ Appending(l)
      <3>1. rst[l] \in {"header", "data"} /\ rst'[l] = "data" /\ UNCHANGED <<rfile, offset>>
        BY <2>1 DEF OpenPartial, Appending, Store, TypeOK, ReceiverTypeOK
      <3>2. rfile[l] \in Files
        BY <3>1 DEF PositionsOK
      <3>3. \A f \in Files : f # rfile[l] => part'[f] = part[f]
        BY <2>1, <3>2 DEF OpenPartial, Appending, Store, TypeOK, DiskTypeOK
      <3> QED
        BY <2>0, <3>1, <3>2, <3>3 DEF Files
    <2>2. CASE FinalizeResumed(l) \/ FinishFile(l)
      <3>1. rst[l] \in {"header", "data"} /\ rst'[l] # "data" /\ UNCHANGED offset
        BY <2>2 DEF FinalizeResumed, FinishFile, Advance, TypeOK, ReceiverTypeOK, connVars
      <3>2. rfile[l] \in Files
        BY <3>1 DEF PositionsOK
      <3>3. rfile'[l] = rfile[l] + 1
        BY <2>2 DEF FinalizeResumed, FinishFile, Advance, TypeOK, ReceiverTypeOK
      <3>4. \A f \in Files : f # rfile[l] => part'[f] = part[f]
        BY <2>2, <3>2 DEF FinalizeResumed, FinishFile, TypeOK, DiskTypeOK
      <3> QED
        BY <2>0, <3>1, <3>2, <3>3, <3>4 DEF Files
    <2>3. CASE \E r \in Outcomes : End(l, r)
      BY <2>0, <2>3 DEF End, TypeOK, ReceiverTypeOK
    <2> QED
      BY <1>3, <2>1, <2>2, <2>3, FileActions
      DEF ResumedMismatch, RejectHeader, ChecksumMismatch, RejectData, StreamEnds,
          EndTransfer, StagingFails, Outcomes
  <1>4. ASSUME NEW l \in Listeners, Environment(l) PROVE StartsEmpty'
    <2>0. \A k \in Listeners : k = l
      BY DEF OneListener
    <2>1. CASE SendPaths(l) \/ AutoRetry(l)
      BY <2>0, <2>1 DEF SendPaths, AutoRetry, Connect, TypeOK, ReceiverTypeOK, diskVars
    <2>2. CASE SendAborted(l) \/ LinkDown(l) \/ EditSource(l)
      BY <2>2 DEF SendAborted, LinkDown, EditSource, receiverVars, connVars, diskVars
    <2>3. CASE AbortReceive(l)
      BY <2>0, <2>3 DEF AbortReceive, End, TypeOK, ReceiverTypeOK
    <2> QED
      BY <1>4, <2>1, <2>2, <2>3 DEF Environment
  <1>5. ASSUME ReceiverCrash PROVE StartsEmpty'
    BY <1>5 DEF ReceiverCrash
  <1>6. ASSUME NEW f \in Files, TakeFile(f) PROVE StartsEmpty'
    BY <1>6 DEF TakeFile, connVars
  <1>7. ASSUME UNCHANGED vars PROVE StartsEmpty'
    BY <1>7 DEF vars, receiverVars, connVars, diskVars
  <1> QED
    BY <1>1, <1>2, <1>3, <1>4, <1>5, <1>6, <1>7 DEF Next

\* The inductive invariant of one listener.
LEMMA SoloInvariant == ASSUME OneListener PROVE Spec => []SoloInv
  <1>1. Init => SoloInv
    BY TypeInit DEF SoloInv, ControlInv, HandlesOK, PartialIsHashed, StartsEmpty, Init
  <1>2. SoloInv /\ [Next]_vars => SoloInv'
    <2>1. ControlInv /\ [Next]_vars => ControlInv'
      BY TypeStep, PositionsStep, HandlesStep DEF ControlInv
    <2> QED
      BY <2>1, PartialStep, StartsEmptyStep DEF SoloInv
  <1> QED
    BY <1>1, <1>2, PTL DEF Spec

\* PartialIsHashed, for any number of files, attempts and edits.
THEOREM OpenPartialIsHashed == ASSUME OneListener PROVE Spec => []PartialIsHashed
  <1>1. SoloInv => PartialIsHashed
    BY DEF SoloInv
  <1> QED
    BY <1>1, SoloInvariant, PTL

-----------------------------------------------------------------------------
(* The action properties.                                                   *)

\* A file is left behind only with the offered content at its destination.
LEMMA AdvanceStep ==
  ASSUME SoloInv, [Next]_vars, NEW l \in Listeners, rfile'[l] > rfile[l]
  PROVE  dest'[rfile[l]] = offer[l][rfile[l]]
  <1> USE DEF SoloInv, ControlInv
  <1>0. rfile[l] \in Nat /\ rfile[l] >= 1
    BY NFilesAssumption DEF TypeOK, ReceiverTypeOK
  <1>1. ASSUME NEW k \in Listeners, SenderStep(k) PROVE FALSE
    <2>1. UNCHANGED rfile
      BY <1>1, SenderActions
      DEF ReadAccept, ReadRefusal, SendHeader, OffsetPastEnd, SendChunk, EndOfSource,
          SendFinished, SendBroken, receiverVars
    <2> QED
      BY <1>0, <2>1
  <1>2. ASSUME NEW k \in Listeners, NEW r \in Outcomes, End(k, r) PROVE FALSE
    BY <1>0, <1>2 DEF End, TypeOK, ReceiverTypeOK
  <1>3. ASSUME NEW k \in Listeners, UNCHANGED rfile PROVE FALSE
    BY <1>0, <1>3
  <1>4. ASSUME NEW k \in Listeners, DecisionStep(k) PROVE FALSE
    BY <1>2, <1>3, <1>4, DecisionActions DEF Decline, RefuseResumeState, RefuseResumeEntry, Accept,
        Outcomes
  <1>5. ASSUME NEW k \in Listeners, FileStep(k) PROVE dest'[rfile[l]] = offer[l][rfile[l]]
    <2>1. CASE FinalizeResumed(k) \/ FinishFile(k)
      <3>1. k = l
        BY <1>0, <2>1 DEF FinalizeResumed, FinishFile, Advance, TypeOK, ReceiverTypeOK
      <3>2. rfile[l] \in Files
        BY <2>1, <3>1 DEF FinalizeResumed, FinishFile, PositionsOK
      <3>3. CASE FinalizeResumed(l)
        BY <3>2, <3>3 DEF FinalizeResumed, TypeOK, DiskTypeOK
      <3>4. CASE FinishFile(l)
        BY <3>2, <3>4 DEF FinishFile, PartialIsHashed, TypeOK, DiskTypeOK
      <3> QED
        BY <2>1, <3>1, <3>3, <3>4
    <2>2. CASE OpenPartial(k) \/ Appending(k)
      BY <1>3, <2>2 DEF OpenPartial, Appending, Store
    <2> QED
      BY <1>2, <1>5, <2>1, <2>2, FileActions
      DEF ResumedMismatch, RejectHeader, ChecksumMismatch, RejectData, StreamEnds,
          EndTransfer, StagingFails, Outcomes
  <1>6. ASSUME NEW k \in Listeners, Environment(k) PROVE FALSE
    BY <1>2, <1>3, <1>6 DEF Environment, SendPaths, AutoRetry, Connect, SendAborted, LinkDown,
        EditSource, AbortReceive, receiverVars, Outcomes
  <1>7. ASSUME ReceiverCrash PROVE FALSE
    BY <1>0, <1>7 DEF ReceiverCrash
  <1>8. ASSUME NEW f \in Files, TakeFile(f) PROVE FALSE
    BY <1>3, <1>8 DEF TakeFile
  <1>9. ASSUME UNCHANGED vars PROVE FALSE
    BY <1>3, <1>9 DEF vars, receiverVars
  <1> QED
    BY <1>1, <1>4, <1>5, <1>6, <1>7, <1>8, <1>9 DEF Next

\* AdvanceOnlyWhenDelivered: "verified" is reported of what is really there.
THEOREM DeliveredBeforeAdvance == ASSUME OneListener PROVE Spec => AdvanceOnlyWhenDelivered
  <1> DEFINE A == \A l \in Listeners :
                     rfile'[l] > rfile[l] => dest'[rfile[l]] = offer[l][rfile[l]]
  <1>1. SoloInv /\ [Next]_vars => [A]_vars
    BY AdvanceStep
  <1>2. Spec => [][A]_vars
    BY <1>1, SoloInvariant, PTL DEF Spec
  <1> QED
    BY <1>2 DEF AdvanceOnlyWhenDelivered

\* Bytes of a partial go only to the finished file, or to a checksum mismatch.
LEMMA ProgressStep ==
  ASSUME OneListener, SoloInv, [Next]_vars, NEW f \in Files,
         part[f] # NoFile, part[f] # <<>>, part'[f] # part[f]
  PROVE  \/ part'[f] # NoFile /\ IsPrefix(part[f], part'[f])
         \/ part'[f] = NoFile /\ dest'[f] = part[f]
         \/ part'[f] = NoFile /\ \E l \in Listeners : rst[l] # "idle" /\ outcome'[l] = "checksum"
  <1> USE DEF SoloInv, ControlInv
  <1>0. ASSUME UNCHANGED part PROVE FALSE
    BY <1>0
  <1>1. ASSUME NEW l \in Listeners, SenderStep(l) PROVE FALSE
    BY <1>0, <1>1, SenderActions DEF ReadAccept, ReadRefusal, SendHeader, OffsetPastEnd, SendChunk,
        EndOfSource, SendFinished, SendBroken, diskVars
  <1>2. ASSUME NEW l \in Listeners, DecisionStep(l) PROVE FALSE
    BY <1>0, <1>2, DecisionActions DEF Decline, RefuseResumeState, RefuseResumeEntry, Accept,
        diskVars
  <1>3. ASSUME NEW l \in Listeners, OpenPartial(l) PROVE FALSE
    <2>1. rfile[l] \in Files /\ rst[l] = "header"
      BY <1>3 DEF OpenPartial, PositionsOK
    <2>2. CASE offset[l][rfile[l]] = 0
      <3>1. part[rfile[l]] \in {NoFile, <<>>}
        BY <2>1, <2>2 DEF StartsEmpty, Files
      <3>2. part' = [part EXCEPT ![rfile[l]] = <<>>]
        BY <1>3, <2>2 DEF OpenPartial
      <3> QED
        BY <2>1, <3>1, <3>2 DEF TypeOK, DiskTypeOK
    <2>3. CASE offset[l][rfile[l]] # 0
      BY <1>0, <1>3, <2>3 DEF OpenPartial
    <2> QED
      BY <2>2, <2>3
  <1>4. ASSUME NEW l \in Listeners, FinalizeResumed(l) \/ FinishFile(l)
        PROVE  part'[f] = NoFile /\ dest'[f] = part[f]
    <2>1. rfile[l] \in Files
      BY <1>4 DEF FinalizeResumed, FinishFile, PositionsOK
    <2>2. /\ dest' = [dest EXCEPT ![rfile[l]] = part[rfile[l]]]
          /\ part' = [part EXCEPT ![rfile[l]] = NoFile]
      BY <1>0, <1>4 DEF FinalizeResumed, FinishFile
    <2> QED
      BY <2>1, <2>2 DEF TypeOK, DiskTypeOK
  <1>5. ASSUME NEW l \in Listeners, Appending(l)
        PROVE  part'[f] # NoFile /\ IsPrefix(part[f], part'[f])
    <2>1. rfile[l] \in Files /\ rst[l] = "data" /\ handle[l] = "part"
      BY <1>5 DEF Appending, PositionsOK, PartialIsHashed
    <2>5. PICK chunk \in Chunks : Store(l, chunk)
      BY <1>5 DEF Appending
    <2>2. part' = [part EXCEPT ![rfile[l]] = Written(l, part[rfile[l]], chunk)]
      BY <2>1, <2>5 DEF Store
    <2>3. f = rfile[l]
      BY <2>1, <2>2 DEF TypeOK, DiskTypeOK
    <2>4. part[f] = hashed[l] /\ part[f] \in Seq(Chunks)
      BY <2>1, <2>3 DEF PartialIsHashed, TypeOK, DiskTypeOK
    <2>6. part'[f] = Append(part[f], chunk)
      <3>1. Written(l, part[f], chunk) = Append(part[f], chunk)
        BY <2>4 DEF Written
      <3> QED
        BY <2>1, <2>2, <2>3, <3>1 DEF TypeOK, DiskTypeOK
    <2> HIDE DEF SoloInv, ControlInv
    <2>7. ASSUME NEW s \in Seq(Chunks), NEW c \in Chunks
          PROVE  Append(s, c) # NoFile /\ IsPrefix(s, Append(s, c))
      <3>1. Append(s, c) \in Seq(Chunks) /\ Len(Append(s, c)) = Len(s) + 1
        OBVIOUS
      <3>2. SubSeq(Append(s, c), 1, Len(s)) = s
        OBVIOUS
      <3>3. SubSeq(s, 1, Len(s)) = s
        OBVIOUS
      <3> QED
        BY <3>1, <3>2, <3>3, NoFileAssumption DEF IsPrefix
    <2> QED
      BY <2>4, <2>5, <2>6, <2>7
  <1>6. ASSUME NEW l \in Listeners, ChecksumMismatch(l)
        PROVE  part'[f] = NoFile /\ rst[l] # "idle" /\ outcome'[l] = "checksum"
    <2>1. rfile[l] \in Files
      BY <1>6 DEF ChecksumMismatch, PositionsOK
    <2> QED
      BY <1>6, <2>1 DEF ChecksumMismatch, End, TypeOK, ReceiverTypeOK, DiskTypeOK
  <1>7. ASSUME NEW l \in Listeners, Environment(l) PROVE FALSE
    BY <1>0, <1>7 DEF Environment, SendPaths, AutoRetry, Connect, SendAborted, LinkDown,
        EditSource, AbortReceive, diskVars
  <1>8. ASSUME ReceiverCrash PROVE FALSE
    BY <1>0, <1>8 DEF ReceiverCrash, diskVars
  <1>9. ASSUME NEW g \in Files, TakeFile(g) PROVE FALSE
    BY <1>0, <1>9 DEF TakeFile
  <1>10. ASSUME UNCHANGED vars PROVE FALSE
    BY <1>0, <1>10 DEF vars, diskVars
  <1> QED
    BY <1>0, <1>1, <1>2, <1>3, <1>4, <1>5, <1>6, <1>7, <1>8, <1>9, <1>10, FileActions
    DEF Next, ResumedMismatch, RejectHeader, RejectData, StreamEnds, EndTransfer,
        StagingFails, diskVars

\* ResumeKeepsProgress: neither a failed attempt, a crash nor a retry costs received bytes.
THEOREM ProgressIsKept == ASSUME OneListener PROVE Spec => ResumeKeepsProgress
  <1> DEFINE A == \A f \in Files :
          (part[f] # NoFile /\ part[f] # <<>> /\ part'[f] # part[f]) =>
              \/ part'[f] # NoFile /\ IsPrefix(part[f], part'[f])
              \/ part'[f] = NoFile /\ dest'[f] = part[f]
              \/ part'[f] = NoFile /\ \E l \in Listeners : rst[l] # "idle" /\ outcome'[l] = "checksum"
  <1>1. SoloInv /\ [Next]_vars => [A]_vars
    BY ProgressStep
  <1>2. Spec => [][A]_vars
    BY <1>1, SoloInvariant, PTL DEF Spec
  <1> QED
    BY <1>2 DEF ResumeKeepsProgress

-----------------------------------------------------------------------------
(* The refinement.                                                          *)

\* The abstract inbox starts with the other files, and no offer accepted.
LEMMA InboxInit == Init => Inbox!Init
  BY DEF Init, Inbox!Init

\* A step that leaves the finished files, the offers and the handlers alone stutters.
LEMMA InboxStutter == UNCHANGED <<dest, rst, offer>> => UNCHANGED Inbox!vars
  BY DEF Inbox!vars

\* Returning from the handler closes the accepted offer.
LEMMA InboxClose ==
  ASSUME TypeOK, NEW l \in Listeners, NEW r, End(l, r), UNCHANGED <<dest, offer>>
  PROVE  Inbox!Close(l)
  BY DEF End, Inbox!Close, TypeOK, ReceiverTypeOK

\* Every step of the transfer is a step of the inbox, or leaves it as it is.
LEMMA InboxStep ==
  ASSUME SoloInv, [Next]_vars
  PROVE  [Inbox!Next]_(Inbox!vars)
  <1> USE DEF SoloInv, ControlInv
  <1>1. ASSUME NEW l \in Listeners, SenderStep(l) PROVE UNCHANGED Inbox!vars
    BY <1>1, InboxStutter, SenderActions
    DEF ReadAccept, ReadRefusal, SendHeader, OffsetPastEnd, SendChunk, EndOfSource,
        SendFinished, SendBroken, Stop, receiverVars, diskVars
  <1>2. ASSUME NEW l \in Listeners, Accept(l) PROVE Inbox!Accept(l)
    <2>1. rst[l] = "deciding" /\ rst' = [rst EXCEPT ![l] = "header"] /\ UNCHANGED <<offer, dest>>
      BY <1>2 DEF Accept, senderVars, diskVars
    <2>2. offer[l] \in [Files -> Contents]
      BY DEF TypeOK, SenderTypeOK
    <2>3. rst \in [Listeners -> ReceiverStates]
      BY DEF TypeOK, ReceiverTypeOK
    <2> QED
      BY <2>1, <2>2, <2>3 DEF Inbox!Accept
  <1>3. ASSUME NEW l \in Listeners, DecisionStep(l), ~Accept(l) PROVE Inbox!Close(l)
    BY <1>3, InboxClose, DecisionActions
    DEF Decline, RefuseResumeState, RefuseResumeEntry, senderVars, diskVars
  <1>4. ASSUME NEW l \in Listeners, OpenPartial(l) \/ Appending(l) PROVE UNCHANGED Inbox!vars
    <2>1. UNCHANGED <<dest, offer>>
      BY <1>4 DEF OpenPartial, Appending, Store, PartialIsHashed, senderVars
    <2>2. \A k \in Listeners : rst[k] \in {"header", "data", "staging"}
                               <=> rst'[k] \in {"header", "data", "staging"}
      BY <1>4 DEF OpenPartial, Appending, Store, TypeOK, ReceiverTypeOK
    <2> QED
      BY <2>1, <2>2 DEF Inbox!vars
  <1>5. ASSUME NEW l \in Listeners, FinalizeResumed(l) \/ FinishFile(l)
        PROVE  Inbox!Deliver(l, rfile[l]) \/ UNCHANGED Inbox!vars
    <2>1. rfile[l] \in Files /\ rst[l] \in {"header", "data"}
      BY <1>5 DEF FinalizeResumed, FinishFile, PositionsOK
    <2>2. \A k \in Listeners : rst[k] \in {"header", "data", "staging"}
                               <=> rst'[k] \in {"header", "data", "staging"}
      BY <1>5, <2>1 DEF FinalizeResumed, FinishFile, Advance, TypeOK, ReceiverTypeOK
    <2>3. UNCHANGED offer
      BY <1>5 DEF FinalizeResumed, FinishFile, senderVars
    <2>4. \/ UNCHANGED dest
          \/ /\ dest[rfile[l]] = NoFile
             /\ dest' = [dest EXCEPT ![rfile[l]] = offer[l][rfile[l]]]
      BY <1>5 DEF FinalizeResumed, FinishFile, PartialIsHashed
    <2>5. CASE UNCHANGED dest
      BY <2>2, <2>3, <2>5 DEF Inbox!vars
    <2>6. CASE /\ dest[rfile[l]] = NoFile
               /\ dest' = [dest EXCEPT ![rfile[l]] = offer[l][rfile[l]]]
      BY <2>1, <2>2, <2>3, <2>6 DEF Inbox!Deliver
    <2> QED
      BY <2>4, <2>5, <2>6
  <1>6. ASSUME NEW l \in Listeners, FileStep(l), ~OpenPartial(l), ~Appending(l),
               ~FinalizeResumed(l), ~FinishFile(l)
        PROVE  Inbox!Close(l)
    BY <1>6, InboxClose, FileActions
    DEF ResumedMismatch, RejectHeader, ChecksumMismatch, RejectData, StreamEnds,
        EndTransfer, StagingFails, senderVars, diskVars
  <1>7. ASSUME NEW l \in Listeners, SendPaths(l) \/ AutoRetry(l) PROVE UNCHANGED Inbox!vars
    <2>1. /\ rst[l] = "idle" /\ rst' = [rst EXCEPT ![l] = "deciding"]
          /\ UNCHANGED dest
          /\ \A k \in Listeners : k # l => offer'[k] = offer[k]
      BY <1>7 DEF SendPaths, AutoRetry, Connect, diskVars, TypeOK, SenderTypeOK
    <2>2. rst \in [Listeners -> ReceiverStates]
      BY DEF TypeOK, ReceiverTypeOK
    <2> QED
      BY <2>1, <2>2 DEF Inbox!vars
  <1>8. ASSUME NEW l \in Listeners, SendAborted(l) \/ LinkDown(l) \/ EditSource(l)
        PROVE  UNCHANGED Inbox!vars
    BY <1>8, InboxStutter
    DEF SendAborted, LinkDown, EditSource, Stop, senderVars, receiverVars, diskVars
  <1>9. ASSUME NEW l \in Listeners, AbortReceive(l) PROVE Inbox!Close(l)
    BY <1>9, InboxClose DEF AbortReceive, senderVars, diskVars
  <1>10. ASSUME ReceiverCrash PROVE Inbox!CloseAll
    BY <1>10 DEF ReceiverCrash, Inbox!CloseAll, senderVars, diskVars
  <1>11. ASSUME NEW f \in Files, TakeFile(f) PROVE Inbox!Take(f)
    BY <1>11 DEF TakeFile, Inbox!Take, senderVars
  <1>12. ASSUME UNCHANGED vars PROVE UNCHANGED Inbox!vars
    BY <1>12, InboxStutter DEF vars, senderVars, receiverVars, diskVars
  <1>13. ASSUME NEW l \in Listeners, FileStep(l) PROVE [Inbox!Next]_(Inbox!vars)
    <2>1. rfile[l] \in Files \/ ~(FinalizeResumed(l) \/ FinishFile(l))
      BY DEF FinalizeResumed, FinishFile, PositionsOK
    <2> QED
      BY <1>4, <1>5, <1>6, <1>13, <2>1 DEF Inbox!Next
  <1>14. ASSUME NEW l \in Listeners, DecisionStep(l) PROVE [Inbox!Next]_(Inbox!vars)
    BY <1>2, <1>3, <1>14 DEF Inbox!Next
  <1>15. ASSUME NEW l \in Listeners, Environment(l) PROVE [Inbox!Next]_(Inbox!vars)
    BY <1>7, <1>8, <1>9, <1>15 DEF Environment, Inbox!Next
  <1>16. ReceiverCrash \/ (\E f \in Files : TakeFile(f)) => Inbox!Next
    BY <1>10, <1>11 DEF Inbox!Next
  <1> QED
    BY <1>1, <1>12, <1>13, <1>14, <1>15, <1>16 DEF Next

\* With one listener the file transfer implements the inbox: a finished file appears in one
\* step, complete, with the content of the accepted offer, and stays as it is.
THEOREM TransferImplementsInbox == ASSUME OneListener PROVE Spec => ImplementsVerifiedInbox
  <1>1. Spec => Inbox!Init
    BY InboxInit DEF Spec
  <1>2. SoloInv /\ [Next]_vars => [Inbox!Next]_(Inbox!vars)
    BY InboxStep
  <1>3. Spec => [][Inbox!Next]_(Inbox!vars)
    BY <1>2, SoloInvariant, PTL DEF Spec
  <1> QED
    BY <1>1, <1>3 DEF ImplementsVerifiedInbox, Inbox!Spec

-----------------------------------------------------------------------------
(* A transfer that nothing disturbs, with one listener.  Its invariant says *)
(* that the frames under way are those between the receiver's place in the  *)
(* offer and the sender's.                                                  *)

\* A place in what is sent of an offer o: the header of a file is at 0, its chunk n at n, and
\* behind the last file is the end.  Where it goes on after n chunks of a file.
GoesOn(o, f, n) == IF n < Len(o[f]) THEN <<f, n + 1>> ELSE <<f + 1, 0>>

\* The place of a frame, and the place after it when the resume offsets are s.
Place(x) == <<x.file, IF x.type = "header" THEN 0 ELSE x.offset + 1>>

PlaceAfter(o, s, x) ==
  GoesOn(o, x.file, IF x.type = "header" THEN s[x.file] ELSE x.offset + 1)

\* The frame of the offer at its place.
TrueFrame(o, s, x) ==
  /\ x.file \in Files /\ x.type \in {"header", "data"} /\ x.offset \in Nat
  /\ x.type = "header" => /\ x.size = Len(o[x.file]) /\ x.sha = o[x.file]
                          /\ x.offset = s[x.file]
  /\ x.type = "data" => /\ x.offset < Len(o[x.file])
                        /\ x.chunk = o[x.file][x.offset + 1]

\* The frames w lead from one place to another.
InOrder(o, s, w, from, to) ==
  /\ \A i \in 1..Len(w) : TrueFrame(o, s, w[i])
  /\ \A i \in 1..(Len(w) - 1) : PlaceAfter(o, s, w[i]) = Place(w[i + 1])
  /\ IF w = <<>> THEN from = to
     ELSE from = Place(w[1]) /\ PlaceAfter(o, s, w[Len(w)]) = to

\* What the receiver expects, and what the sender writes next.
Expected(l) ==
  IF rst[l] = "data" THEN GoesOn(offer[l], rfile[l], Len(hashed[l])) ELSE <<rfile[l], 0>>

Coming(l) ==
  IF sst[l] = "data" THEN GoesOn(offer[l], sfile[l], spos[l])
  ELSE IF sst[l] = "sent" THEN <<NFiles + 1, 0>> ELSE <<sfile[l], 0>>

\* The bytes that were hashed are the first of the file.
StartOf(s, t) == Len(s) <= Len(t) /\ \A i \in 1..Len(s) : s[i] = t[i]

\* A file still to come is there as far as the decision says.
AsDecided(l, f) ==
  Consistent(f, offer[l][f]) /\ offset[l][f] = ResumeBytes(f, offer[l][f])

StillToCome(l, f) == f > rfile[l] \/ (rst[l] = "header" /\ f = rfile[l])

SenderSound(l) ==
  /\ sst[l] \in {"waiting", "header", "data", "sent"}
  /\ sst[l] # "sent" => up[l]
  /\ sst[l] = "waiting" => decision[l] = "accepted"

Receiving(l) ==
  /\ SenderSound(l)
  /\ \A f \in Files : offset[l][f] <= Len(offer[l][f])
  /\ \A f \in Files : StillToCome(l, f) => AsDecided(l, f)
  /\ rst[l] = "data" => StartOf(hashed[l], offer[l][rfile[l]])
  /\ InOrder(offer[l], offset[l], wire[l], Expected(l), Coming(l))

Deciding(l) == wire[l] = <<>> /\ up[l] /\ sst[l] = "waiting" /\ decision[l] = "none"

\* Nothing disturbed the attempt, and the offer has no empty file.
Sound(l) == calm[l] /\ \A f \in Files : offer[l][f] # <<>>

Healthy(l) ==
  /\ ~Failed(l)
  /\ source[l] = offer[l]
  /\ rst[l] = "deciding" => Deciding(l)
  /\ rst[l] \in {"header", "data", "staging"} => Receiving(l)

\* A sender that does not send is before the first file.
SenderAtStart(l) ==
  sst[l] \in {"idle", "waiting", "sent", "broken", "ended"} => sfile[l] = 1

HealthyInv == \A l \in Listeners : SenderAtStart(l) /\ (Sound(l) => Healthy(l))

\* A frame is written behind the others.
LEMMA InOrderPush ==
  ASSUME NEW o, NEW s, NEW from, NEW to, NEW S, NEW w \in Seq(S), NEW x \in S,
         InOrder(o, s, w, from, to), TrueFrame(o, s, x), Place(x) = to
  PROVE  InOrder(o, s, Append(w, x), from, PlaceAfter(o, s, x))
  <1> DEFINE v == Append(w, x)
             n == Len(w)
  <1>1. n \in Nat /\ Len(v) = n + 1 /\ v # <<>> /\ v[n + 1] = x
        /\ \A i \in 1..n : v[i] = w[i]
    OBVIOUS
  <1>2. n = 0 <=> w = <<>>
    OBVIOUS
  <1>3. /\ \A i \in 1..n : TrueFrame(o, s, w[i])
        /\ \A i \in 1..(n - 1) : PlaceAfter(o, s, w[i]) = Place(w[i + 1])
        /\ n = 0 => from = to
        /\ n # 0 => from = Place(w[1]) /\ PlaceAfter(o, s, w[n]) = to
    BY <1>2 DEF InOrder
  <1> HIDE DEF v, n
  <1>4. \A i \in 1..(n + 1) : TrueFrame(o, s, v[i])
    BY <1>1, <1>3
  <1>5. ASSUME NEW i \in 1..n PROVE PlaceAfter(o, s, v[i]) = Place(v[i + 1])
    <2>1. CASE i = n
      BY <1>1, <1>3, <2>1
    <2>2. CASE i # n
      <3>1. i \in 1..(n - 1) /\ i + 1 \in 1..n
        BY <1>1, <2>2
      <3> QED
        BY <1>1, <1>3, <3>1
    <2> QED BY <2>1, <2>2
  <1>6. from = Place(v[1])
    <2>1. CASE n = 0
      BY <1>1, <1>3, <2>1
    <2>2. CASE n # 0
      <3>1. 1 \in 1..n
        BY <1>1, <2>2
      <3> QED
        BY <1>1, <1>3, <2>2, <3>1
    <2> QED BY <2>1, <2>2
  <1>7. Len(v) - 1 = n
    BY <1>1
  <1> QED
    BY <1>1, <1>4, <1>5, <1>6, <1>7 DEF InOrder, v

\* No sequence but the empty one is without length.
LEMMA EmptyLength == ASSUME NEW S, NEW w \in Seq(S) PROVE w = <<>> <=> Len(w) = 0
  OBVIOUS

\* The first frame is read.
LEMMA InOrderPop ==
  ASSUME NEW o, NEW s, NEW from, NEW to, NEW S, NEW w \in Seq(S), w # <<>>,
         InOrder(o, s, w, from, to)
  PROVE  /\ TrueFrame(o, s, Head(w)) /\ Place(Head(w)) = from
         /\ InOrder(o, s, Tail(w), PlaceAfter(o, s, Head(w)), to)
  <1> DEFINE v == Tail(w)
             n == Len(w)
  <1>1. /\ n \in Nat \ {0} /\ Len(v) = n - 1 /\ (v = <<>> <=> n = 1) /\ Head(w) = w[1]
        /\ \A i \in 1..(n - 1) : v[i] = w[i + 1]
    <2>1. n \in Nat \ {0} /\ Head(w) = w[1]
      OBVIOUS
    <2>2. v \in Seq(S) /\ Len(v) = n - 1
      OBVIOUS
    <2>3. \A i \in 1..(n - 1) : v[i] = w[i + 1]
      OBVIOUS
    <2>4. v = <<>> <=> Len(v) = 0
      BY <2>2, EmptyLength
    <2> QED BY <2>1, <2>2, <2>3, <2>4
  <1>2. /\ \A i \in 1..n : TrueFrame(o, s, w[i])
        /\ \A i \in 1..(n - 1) : PlaceAfter(o, s, w[i]) = Place(w[i + 1])
        /\ from = Place(w[1]) /\ PlaceAfter(o, s, w[n]) = to
    BY DEF InOrder
  <1> HIDE DEF v, n
  <1>3. \A i \in 1..(n - 1) : TrueFrame(o, s, v[i])
    <2> TAKE i \in 1..(n - 1)
    <2>1. i + 1 \in 1..n
      BY <1>1
    <2> QED BY <1>1, <1>2, <2>1
  <1>4. ASSUME NEW i \in 1..(n - 2) PROVE PlaceAfter(o, s, v[i]) = Place(v[i + 1])
    <2>1. i \in 1..(n - 1) /\ i + 1 \in 1..(n - 1)
      BY <1>1
    <2> QED BY <1>1, <1>2, <2>1
  <1>5. CASE n = 1
    <2>1. PlaceAfter(o, s, Head(w)) = to /\ v = <<>>
      BY <1>1, <1>2, <1>5
    <2> QED
      BY <1>1, <1>2, <1>3, <1>4, <1>5, <2>1 DEF InOrder, v
  <1>6. CASE n # 1
    <2>1. 1 \in 1..(n - 1) /\ n - 1 \in 1..(n - 1) /\ (n - 1) + 1 = n /\ (n - 1) - 1 = n - 2
          /\ 1 \in 1..n
      BY <1>1, <1>6
    <2>2. PlaceAfter(o, s, Head(w)) = Place(v[1]) /\ v[n - 1] = w[n]
      BY <1>1, <1>2, <2>1
    <2> QED
      BY <1>1, <1>2, <1>3, <1>4, <1>6, <2>1, <2>2 DEF InOrder, v
  <1> QED
    BY <1>5, <1>6

\* What the types say of one listener.
LEMMA ListenerTypes ==
  ASSUME TypeOK, NEW l \in Listeners
  PROVE  /\ wire[l] \in Seq(HeaderFrame \cup DataFrame)
         /\ offset[l] \in [Files -> Nat]
         /\ hashed[l] \in Seq(Chunks)
         /\ rfile[l] \in 1..(NFiles + 1) /\ sfile[l] \in 1..(NFiles + 1)
         /\ spos[l] \in Nat
         /\ \A f \in Files : /\ offer[l][f] \in Contents /\ offer[l][f] \in Seq(Chunks)
                             /\ Len(offer[l][f]) \in Nat
         /\ NFiles \in Nat \ {0}
  <1>1. \A f \in Files : offer[l][f] \in Seq(Chunks)
    BY ContentsAssumption DEF TypeOK, SenderTypeOK
  <1> QED
    BY <1>1, NFilesAssumption DEF TypeOK, SenderTypeOK, ConnTypeOK, ReceiverTypeOK

\* A file that is left alone stays as decided.
LEMMA StaysAsDecided ==
  ASSUME NEW l \in Listeners, NEW f \in Files, AsDecided(l, f),
         part'[f] = part[f], dest'[f] = dest[f], offer' = offer, offset' = offset
  PROVE  AsDecided(l, f)'
  BY DEF AsDecided, Consistent, ResumeBytes

\* The sender goes on: what it writes is what comes next.
LEMMA SenderGoesOn ==
  ASSUME TypeOK, NEW l \in Listeners, Receiving(l),
         UNCHANGED receiverVars, UNCHANGED diskVars, offset' = offset, offer' = offer,
         SenderSound(l)',
         InOrder(offer[l], offset[l], wire'[l], Expected(l), Coming(l)')
  PROVE  Receiving(l)'
  <1>1. UNCHANGED <<rst, rfile, hashed, part, dest>>
    BY DEF receiverVars, diskVars
  <1>2. \A f \in Files : StillToCome(l, f)' => AsDecided(l, f)'
    BY <1>1, StaysAsDecided DEF Receiving, StillToCome
  <1>3. Expected(l)' = Expected(l)
    BY <1>1 DEF Expected
  <1> QED
    BY <1>1, <1>2, <1>3 DEF Receiving

\* A frame is written.
LEMMA SenderWrites ==
  ASSUME TypeOK, NEW l \in Listeners, Receiving(l),
         UNCHANGED receiverVars, UNCHANGED diskVars, offset' = offset, offer' = offer,
         up' = up, NEW x,
         x \in HeaderFrame \cup DataFrame,
         TrueFrame(offer[l], offset[l], x), Place(x) = Coming(l),
         wire' = [wire EXCEPT ![l] = Append(@, x)],
         sst[l] # "sent", sst'[l] = "data",
         Coming(l)' = PlaceAfter(offer[l], offset[l], x)
  PROVE  Receiving(l)'
  <1>1. wire'[l] = Append(wire[l], x)
    BY DEF TypeOK, ConnTypeOK
  <1>2. InOrder(offer[l], offset[l], Append(wire[l], x), Expected(l),
                PlaceAfter(offer[l], offset[l], x))
    BY ListenerTypes, InOrderPush DEF Receiving
  <1>3. SenderSound(l)'
    BY DEF Receiving, SenderSound
  <1> QED
    BY <1>1, <1>2, <1>3, SenderGoesOn

LEMMA SenderHealthy ==
  ASSUME TypeOK, PositionsOK, HealthyInv, NEW l \in Listeners, SenderStep(l), Sound(l)
  PROVE  Healthy(l)'
  <1>0. Healthy(l) /\ SenderAtStart(l)
    BY DEF HealthyInv
  <1>1. /\ UNCHANGED receiverVars /\ UNCHANGED diskVars /\ offset' = offset /\ offer' = offer
        /\ source' = source /\ rst' = rst /\ outcome' = outcome
    BY SenderActions DEF ReadAccept, ReadRefusal, SendHeader, OffsetPastEnd, SendChunk,
        EndOfSource, SendFinished, SendBroken, Stop, connVars, receiverVars, sourceVars
  <1>2. ~Failed(l)' /\ source'[l] = offer'[l]
    BY <1>0, <1>1 DEF Healthy, Failed
  <1>3. CASE rst[l] = "deciding"
    BY <1>0, <1>3, SenderActions DEF Healthy, Deciding, ReadAccept, ReadRefusal, SendHeader,
        OffsetPastEnd, SendChunk, EndOfSource, SendFinished, SendBroken
  <1>4. CASE rst[l] \in {"header", "data", "staging"}
    <2>0. Receiving(l) /\ source[l] = offer[l]
      BY <1>0, <1>4 DEF Healthy
    <2>1. \A f \in Files : offset[l][f] <= Len(source[l][f])
      BY <2>0 DEF Receiving
    <2>2. InOrder(offer[l], offset[l], wire[l], Expected(l), Coming(l))
      BY <2>0 DEF Receiving
    <2>3. ASSUME ReadAccept(l) PROVE Receiving(l)'
      <3>1. sst[l] = "waiting" /\ sst'[l] = "header" /\ UNCHANGED <<up, wire, sfile>>
        BY <2>3 DEF ReadAccept, TypeOK, SenderTypeOK
      <3>2. SenderSound(l)' /\ Coming(l)' = Coming(l)
        BY <2>0, <3>1 DEF SenderSound, Receiving, Coming
      <3> QED
        BY <1>1, <2>0, <2>2, <3>1, <3>2, SenderGoesOn
    <2>4. ~ReadRefusal(l) /\ ~SendBroken(l)
      BY <2>0, <2>1 DEF ReadRefusal, SendBroken, OffsetsFit, Receiving, SenderSound
    <2>5. ~OffsetPastEnd(l)
      <3>1. ASSUME OffsetPastEnd(l) PROVE FALSE
        <4>1. sfile[l] \in Files
          BY <3>1, ListenerTypes DEF OffsetPastEnd, Files
        <4>2. offset[l][sfile[l]] <= Len(source[l][sfile[l]])
          BY <2>1, <4>1
        <4>3. offset[l][sfile[l]] \in Nat /\ Len(source[l][sfile[l]]) \in Nat
          BY <2>0, <4>1, ListenerTypes
        <4> QED
          BY <3>1, <4>2, <4>3 DEF OffsetPastEnd
      <3> QED BY <3>1
    <2>6. ASSUME SendHeader(l) PROVE Receiving(l)'
      <3> DEFINE f == sfile[l]
                 x == FileHeader(l, f)
      <3>1. /\ sst[l] = "header" /\ f <= NFiles /\ UNCHANGED <<up, sfile>>
            /\ wire' = [wire EXCEPT ![l] = Append(@, x)]
            /\ sst'[l] = "data" /\ spos'[l] = offset[l][f]
        BY <2>6 DEF SendHeader, TypeOK, SenderTypeOK
      <3>2. f \in Files /\ offset[l][f] \in Nat /\ offer[l][f] \in Contents
            /\ Len(offer[l][f]) \in Nat
        BY <3>1, ListenerTypes DEF Files
      <3>3. x = [type |-> "header", file |-> f, size |-> Len(offer[l][f]), sha |-> offer[l][f],
                 offset |-> offset[l][f]]
        BY <2>0 DEF FileHeader
      <3>4. x \in HeaderFrame
        BY <3>2, <3>3 DEF HeaderFrame
      <3>5. TrueFrame(offer[l], offset[l], x) /\ Place(x) = <<f, 0>>
            /\ PlaceAfter(offer[l], offset[l], x) = GoesOn(offer[l], f, offset[l][f])
        BY <3>2, <3>3 DEF TrueFrame, Place, PlaceAfter
      <3> HIDE DEF x
      <3>6. Place(x) = Coming(l) /\ Coming(l)' = PlaceAfter(offer[l], offset[l], x)
        BY <1>1, <3>1, <3>5 DEF Coming
      <3> QED
        BY <1>1, <2>0, <3>1, <3>4, <3>5, <3>6, SenderWrites
    <2>7. ASSUME SendChunk(l) PROVE Receiving(l)'
      <3> DEFINE f == sfile[l]
                 x == FileFrame(l, f)
      <3>1. /\ sst[l] = "data" /\ UNCHANGED <<up, sfile, sst>>
            /\ spos[l] < Len(offer[l][f])
            /\ wire' = [wire EXCEPT ![l] = Append(@, x)]
            /\ spos'[l] = spos[l] + 1
        BY <2>0, <2>7 DEF SendChunk, TypeOK, SenderTypeOK
      <3>2. f \in Files /\ spos[l] \in Nat /\ offer[l][f] \in Seq(Chunks)
            /\ Len(offer[l][f]) \in Nat
        BY <3>1, ListenerTypes DEF PositionsOK
      <3>3. offer[l][f][spos[l] + 1] \in Chunks
        BY <3>1, <3>2
      <3>4. x = [type |-> "data", file |-> f, offset |-> spos[l],
                 chunk |-> offer[l][f][spos[l] + 1]]
        BY <2>0 DEF FileFrame
      <3>5. x \in DataFrame
        BY <3>2, <3>3, <3>4 DEF DataFrame
      <3>6. TrueFrame(offer[l], offset[l], x) /\ Place(x) = <<f, spos[l] + 1>>
            /\ PlaceAfter(offer[l], offset[l], x) = GoesOn(offer[l], f, spos[l] + 1)
        BY <3>1, <3>2, <3>4 DEF TrueFrame, Place, PlaceAfter
      <3> HIDE DEF x
      <3>7. Place(x) = Coming(l) /\ Coming(l)' = PlaceAfter(offer[l], offset[l], x)
        BY <1>1, <3>1, <3>6 DEF Coming, GoesOn
      <3> QED
        BY <1>1, <2>0, <3>1, <3>5, <3>6, <3>7, SenderWrites
    <2>8. ASSUME EndOfSource(l) PROVE Receiving(l)'
      <3>1. /\ sst[l] = "data" /\ UNCHANGED <<up, wire, decision>>
            /\ spos[l] >= Len(offer[l][sfile[l]])
            /\ sst'[l] = "header" /\ sfile'[l] = sfile[l] + 1
        BY <2>0, <2>8 DEF EndOfSource, connVars, TypeOK, SenderTypeOK
      <3>2. sfile[l] \in Files
        BY <3>1 DEF PositionsOK
      <3>3. Len(offer[l][sfile[l]]) \in Nat /\ spos[l] \in Nat
        BY <3>2, ListenerTypes
      <3>4. Coming(l)' = Coming(l)
        BY <3>1, <3>3 DEF Coming, GoesOn
      <3>5. SenderSound(l)'
        BY <2>0, <3>1 DEF SenderSound, Receiving
      <3> QED
        BY <1>1, <2>0, <2>2, <3>1, <3>4, <3>5, SenderGoesOn
    <2>9. ASSUME SendFinished(l) PROVE Receiving(l)'
      <3>1. /\ sst[l] = "header" /\ UNCHANGED wire /\ sfile[l] = NFiles + 1 /\ sst'[l] = "sent"
        BY <2>9 DEF SendFinished, Stop, TypeOK, SenderTypeOK
      <3>2. SenderSound(l)' /\ Coming(l)' = Coming(l)
        BY <3>1 DEF SenderSound, Coming
      <3> QED
        BY <1>1, <2>0, <2>2, <3>1, <3>2, SenderGoesOn
    <2>10. Receiving(l)'
      BY <1>1, <2>3, <2>4, <2>5, <2>6, <2>7, <2>8, <2>9, SenderActions
    <2> QED
      BY <1>1, <1>2, <1>4, <2>10 DEF Healthy
  <1>5. CASE rst[l] \notin {"deciding", "header", "data", "staging"}
    BY <1>1, <1>2, <1>5 DEF Healthy
  <1> QED
    BY <1>3, <1>4, <1>5

\* What a prefix is, element by element.
LEMMA PrefixStarts ==
  ASSUME NEW S, NEW s \in Seq(S), NEW t \in Seq(S), IsPrefix(s, t)
  PROVE  StartOf(s, t)
  <1>1. Len(s) \in Nat /\ Len(t) \in Nat /\ Len(s) <= Len(t)
        /\ SubSeq(s, 1, Len(s)) = SubSeq(t, 1, Len(s))
    BY DEF IsPrefix
  <1>2. ASSUME NEW i \in 1..Len(s) PROVE s[i] = t[i]
    <2>1. SubSeq(s, 1, Len(s))[i] = s[i] /\ SubSeq(t, 1, Len(s))[i] = t[i]
      BY <1>1
    <2> QED BY <1>1, <2>1
  <1> QED BY <1>1, <1>2 DEF StartOf

\* A start that is not shorter is the whole.
LEMMA WholeStart ==
  ASSUME NEW S, NEW s \in Seq(S), NEW t \in Seq(S), StartOf(s, t), Len(s) >= Len(t)
  PROVE  s = t
  <1>1. Len(s) \in Nat /\ Len(t) \in Nat /\ Len(s) = Len(t)
    BY DEF StartOf
  <1> QED BY <1>1 DEF StartOf

\* One more element of the whole.
LEMMA LongerStart ==
  ASSUME NEW S, NEW s \in Seq(S), NEW t \in Seq(S), StartOf(s, t), Len(s) < Len(t)
  PROVE  StartOf(Append(s, t[Len(s) + 1]), t)
  <1>1. Len(s) \in Nat /\ Len(t) \in Nat /\ Len(s) + 1 \in 1..Len(t)
    OBVIOUS
  <1> DEFINE v == Append(s, t[Len(s) + 1])
  <1>2. t[Len(s) + 1] \in S
    BY <1>1
  <1>3. Len(v) = Len(s) + 1 /\ v[Len(s) + 1] = t[Len(s) + 1] /\ \A i \in 1..Len(s) : v[i] = s[i]
    BY <1>1, <1>2
  <1> HIDE DEF v
  <1>4. \A i \in 1..Len(v) : v[i] = t[i]
    BY <1>1, <1>3 DEF StartOf
  <1>5. StartOf(v, t)
    BY <1>1, <1>3, <1>4 DEF StartOf
  <1> QED BY <1>5 DEF v

\* The resume offset of a file that lies in the directory as the offer would have put it there.
LEMMA DecidedBytes ==
  ASSUME TypeOK, NEW l \in Listeners, NEW f \in Files, Consistent(f, offer[l][f])
  PROVE  /\ ResumeBytes(f, offer[l][f]) \in Nat
         /\ ResumeBytes(f, offer[l][f]) <= Len(offer[l][f])
         /\ part[f] # NoFile => part[f] \in Seq(Chunks) /\ StartOf(part[f], offer[l][f])
         /\ ~ResumeConflict(f, offer[l][f])
  <1>1. offer[l][f] \in Seq(Chunks) /\ Len(offer[l][f]) \in Nat
    BY ListenerTypes
  <1>2. part[f] # NoFile => part[f] \in Seq(Chunks)
    BY DEF TypeOK, DiskTypeOK
  <1>3. part[f] # NoFile => StartOf(part[f], offer[l][f])
    BY <1>1, <1>2, PrefixStarts DEF Consistent
  <1>4. part[f] # NoFile => Len(part[f]) \in Nat /\ Len(part[f]) <= Len(offer[l][f])
    BY <1>2, <1>3 DEF StartOf
  <1>5. ~ResumeConflict(f, offer[l][f])
    BY <1>1, <1>4 DEF ResumeConflict, Consistent
  <1> QED
    BY <1>1, <1>2, <1>3, <1>4, <1>5 DEF ResumeBytes

LEMMA DecisionHealthy ==
  ASSUME TypeOK, PositionsOK, HealthyInv, NEW l \in Listeners, DecisionStep(l), Sound(l)'
  PROVE  Healthy(l)'
  <1>0. /\ UNCHANGED senderVars /\ offer' = offer /\ source' = source
        /\ rst[l] = "deciding"
    BY DecisionActions DEF Decline, RefuseResumeState, RefuseResumeEntry, Accept, senderVars,
        sourceVars
  <1>1. Sound(l) /\ Healthy(l) /\ SenderAtStart(l)
    <2>1. calm'[l] => calm[l]
      BY DecisionActions DEF Decline, RefuseResumeState, RefuseResumeEntry, Accept,
          CalmAtDecision, TypeOK
    <2> QED
      BY <1>0, <2>1 DEF Sound, HealthyInv
  <1>2. Deciding(l) /\ source[l] = offer[l] /\ ~Failed(l) /\ rfile[l] = 1
    BY <1>0, <1>1 DEF Healthy, PositionsOK
  <1>3. \A f \in Files : offer[l][f] # <<>> /\ Len(offer[l][f]) # 0
    BY <1>1, ListenerTypes DEF Sound
  <1>4. CASE Decline(l)
    <2>1. rst'[l] = "idle" /\ outcome'[l] = "declined"
      BY <1>4 DEF Decline, End, TypeOK, ReceiverTypeOK
    <2> QED
      BY <1>0, <1>2, <2>1 DEF Healthy, Failed
  <1>5. ~RefuseResumeState(l)
    <2>1. ASSUME RefuseResumeState(l) PROVE FALSE
      <3>1. \A f \in Files : Consistent(f, offer[l][f])
        BY <2>1, <1>0 DEF RefuseResumeState, CalmAtDecision, Sound, TypeOK
      <3> QED
        BY <2>1, <3>1, DecidedBytes DEF RefuseResumeState
    <2> QED BY <2>1
  <1>6. ~RefuseResumeEntry(l)
    BY <1>3 DEF RefuseResumeEntry, EmptyResumeEntry
  <1>7. CASE Accept(l)
    <2>1. \A f \in Files : Consistent(f, offer[l][f])
      BY <1>7, <1>0 DEF Accept, CalmAtDecision, Sound, TypeOK
    <2>2. /\ offset'[l] = [f \in Files |-> ResumeBytes(f, offer[l][f])]
          /\ decision'[l] = "accepted" /\ rst'[l] = "header"
          /\ UNCHANGED <<up, wire, rfile, outcome>> /\ part' = part /\ dest' = dest
          /\ sst' = sst /\ sfile' = sfile
      BY <1>7 DEF Accept, senderVars, diskVars, TypeOK, ConnTypeOK, ReceiverTypeOK
    <2>3. SenderSound(l)'
      BY <1>2, <2>2 DEF SenderSound, Deciding
    <2>4. ASSUME NEW f \in Files
          PROVE  (offset[l][f] <= Len(offer[l][f]))' /\ AsDecided(l, f)'
      <3>1. ResumeBytes(f, offer[l][f]) <= Len(offer[l][f])
        BY <2>1, DecidedBytes
      <3>2. offset'[l][f] = ResumeBytes(f, offer[l][f])
        BY <2>2
      <3> QED
        BY <1>0, <2>1, <2>2, <3>1, <3>2 DEF AsDecided, Consistent, ResumeBytes
    <2>5. InOrder(offer[l], offset[l], wire[l], Expected(l), Coming(l))'
      BY <1>1, <1>2, <2>2 DEF InOrder, Expected, Coming, SenderAtStart, Deciding
    <2>6. Receiving(l)'
      BY <2>2, <2>3, <2>4, <2>5 DEF Receiving
    <2> QED
      BY <1>0, <1>2, <2>2, <2>6 DEF Healthy, Failed
  <1> QED
    BY <1>4, <1>5, <1>6, <1>7, DecisionActions

\* The receiver goes on in its file, or to the next one: what it expects is what comes first.
LEMMA ReceiverGoesOn ==
  ASSUME TypeOK, NEW l \in Listeners, Receiving(l), UNCHANGED senderVars, up' = up,
         decision' = decision, offset' = offset,
         \A f \in Files \ {rfile[l]} : part'[f] = part[f] /\ dest'[f] = dest[f],
         \A f \in Files : StillToCome(l, f)' => StillToCome(l, f) /\ f # rfile[l],
         rst'[l] = "data" => StartOf(hashed[l], offer[l][rfile[l]])',
         InOrder(offer[l], offset[l], wire'[l], Expected(l)', Coming(l))
  PROVE  Receiving(l)'
  <1>1. UNCHANGED <<offer, sst, sfile, spos>>
    BY DEF senderVars
  <1>2. ASSUME NEW f \in Files, StillToCome(l, f)' PROVE AsDecided(l, f)'
    <2>1. AsDecided(l, f) /\ f # rfile[l]
      BY <1>2 DEF Receiving
    <2> QED
      BY <1>1, <2>1, StaysAsDecided
  <1>3. SenderSound(l)'
    BY <1>1 DEF Receiving, SenderSound
  <1>4. Coming(l)' = Coming(l)
    BY <1>1 DEF Coming
  <1>5. InOrder(offer[l], offset[l], wire[l], Expected(l), Coming(l))'
    BY <1>1, <1>4
  <1>6. \A f \in Files : (offset[l][f] <= Len(offer[l][f]))'
    BY <1>1 DEF Receiving
  <1> QED
    BY <1>2, <1>3, <1>5, <1>6 DEF Receiving

\* What is read where a header is expected is the header that is expected ...
LEMMA HeaderArrives ==
  ASSUME TypeOK, PositionsOK, NEW l \in Listeners, Receiving(l), rst[l] = "header",
         wire[l] # <<>>
  PROVE  /\ HeaderMatches(l, Head(wire[l]))
         /\ InOrder(offer[l], offset[l], Tail(wire[l]),
                    GoesOn(offer[l], rfile[l], offset[l][rfile[l]]), Coming(l))
  <1> DEFINE h == Head(wire[l])
  <1>1. rfile[l] \in Files
    BY DEF PositionsOK
  <1>2. /\ TrueFrame(offer[l], offset[l], h) /\ Place(h) = <<rfile[l], 0>>
        /\ InOrder(offer[l], offset[l], Tail(wire[l]), PlaceAfter(offer[l], offset[l], h),
                   Coming(l))
    BY ListenerTypes, InOrderPop DEF Receiving, Expected
  <1> HIDE DEF h
  <1>3. h.file = rfile[l] /\ (h.type = "header" \/ h.offset + 1 = 0) /\ h.offset \in Nat
    BY <1>2 DEF Place, TrueFrame
  <1>4. h.type = "header"
    BY <1>3
  <1>5. HeaderMatches(l, h)
    BY <1>2, <1>3, <1>4 DEF HeaderMatches, IsHeader, TrueFrame
  <1>6. PlaceAfter(offer[l], offset[l], h) = GoesOn(offer[l], rfile[l], offset[l][rfile[l]])
    BY <1>3, <1>4 DEF PlaceAfter
  <1> QED
    BY <1>2, <1>5, <1>6 DEF h

\* ... and where a chunk is expected, the chunk that continues the file.
LEMMA ChunkArrives ==
  ASSUME TypeOK, PositionsOK, NEW l \in Listeners, Receiving(l), rst[l] = "data",
         Len(hashed[l]) < Len(offer[l][rfile[l]]), wire[l] # <<>>
  PROVE  /\ NextChunk(l, Head(wire[l]))
         /\ Head(wire[l]).chunk = offer[l][rfile[l]][Len(hashed[l]) + 1]
         /\ InOrder(offer[l], offset[l], Tail(wire[l]),
                    GoesOn(offer[l], rfile[l], Len(hashed[l]) + 1), Coming(l))
  <1> DEFINE h == Head(wire[l])
             n == Len(hashed[l])
  <1>1. rfile[l] \in Files /\ n \in Nat
    BY ListenerTypes DEF PositionsOK
  <1>2. Expected(l) = <<rfile[l], n + 1>>
    BY DEF Expected, GoesOn
  <1>3. /\ TrueFrame(offer[l], offset[l], h) /\ Place(h) = <<rfile[l], n + 1>>
        /\ InOrder(offer[l], offset[l], Tail(wire[l]), PlaceAfter(offer[l], offset[l], h),
                   Coming(l))
    BY <1>2, ListenerTypes, InOrderPop DEF Receiving
  <1> HIDE DEF h
  <1>4. /\ h.file = rfile[l] /\ h.offset \in Nat /\ h.type \in {"header", "data"}
        /\ h.type # "header" => h.offset + 1 = n + 1
        /\ h.type = "header" => n + 1 = 0
    BY <1>3 DEF Place, TrueFrame
  <1>5. h.type = "data" /\ h.offset = n
    BY <1>1, <1>4
  <1>6. NextChunk(l, h) /\ h.chunk = offer[l][rfile[l]][n + 1]
    BY <1>3, <1>4, <1>5 DEF NextChunk, TrueFrame
  <1>7. PlaceAfter(offer[l], offset[l], h) = GoesOn(offer[l], rfile[l], n + 1)
    BY <1>4, <1>5 DEF PlaceAfter
  <1> QED
    BY <1>3, <1>6, <1>7 DEF h

\* The file that is next is there as decided: it can be opened at its offset, or is all there.
LEMMA NextFileIsThere ==
  ASSUME TypeOK, PositionsOK, NEW l \in Listeners, Receiving(l), rst[l] = "header", Sound(l)
  PROVE  LET f == rfile[l] IN
         /\ offset[l][f] \in Nat /\ offset[l][f] <= Len(offer[l][f])
         /\ part[f] # NoFile => /\ part[f] \in Seq(Chunks) /\ StartOf(part[f], offer[l][f])
                                /\ Len(part[f]) = offset[l][f] /\ dest[f] = NoFile
         /\ offset[l][f] < Len(offer[l][f]) => CanOpen(l, f)
         /\ offset[l][f] = Len(offer[l][f]) =>
               dest[f] = offer[l][f] \/ (dest[f] = NoFile /\ part[f] = offer[l][f])
  <1> DEFINE f == rfile[l]
  <1>1. f \in Files /\ offer[l][f] \in Seq(Chunks) /\ Len(offer[l][f]) \in Nat
        /\ offset[l][f] \in Nat
    BY ListenerTypes DEF PositionsOK
  <1>2. AsDecided(l, f)
    BY <1>1 DEF Receiving, StillToCome
  <1> HIDE DEF f
  <1>3. offer[l][f] # <<>> /\ Len(offer[l][f]) # 0
    BY <1>1 DEF Sound
  <1>4. offset[l][f] <= Len(offer[l][f])
    BY <1>1, <1>2, DecidedBytes DEF AsDecided
  <1>5. part[f] # NoFile => /\ part[f] \in Seq(Chunks) /\ StartOf(part[f], offer[l][f])
                            /\ Len(part[f]) = offset[l][f] /\ dest[f] = NoFile
    BY <1>1, <1>2, DecidedBytes DEF AsDecided, ResumeBytes, Consistent
  <1>6. offset[l][f] < Len(offer[l][f]) => CanOpen(l, f)
    BY <1>1, <1>2, <1>5 DEF AsDecided, ResumeBytes, CanOpen
  <1>7. ASSUME offset[l][f] = Len(offer[l][f]), dest[f] # offer[l][f]
        PROVE  dest[f] = NoFile /\ part[f] = offer[l][f]
    <2>1. dest[f] = NoFile
      BY <1>2, <1>7 DEF AsDecided, Consistent
    <2>2. part[f] # NoFile
      BY <1>2, <1>3, <1>7, <2>1 DEF AsDecided, ResumeBytes
    <2>3. Len(part[f]) >= Len(offer[l][f])
      BY <1>1, <1>5, <1>7, <2>2
    <2> QED
      BY <1>1, <1>5, <2>1, <2>2, <2>3, WholeStart
  <1> QED
    BY <1>1, <1>4, <1>5, <1>6, <1>7 DEF f

\* The next file is opened.
LEMMA OpenHealthy ==
  ASSUME TypeOK, PositionsOK, NEW l \in Listeners, Receiving(l), Sound(l), OpenPartial(l)
  PROVE  Receiving(l)'
  <1> DEFINE f == rfile[l]
  <1>1. /\ rst[l] = "header" /\ wire[l] # <<>> /\ rst'[l] = "data" /\ wire'[l] = Tail(wire[l])
        /\ UNCHANGED <<up, decision, offset, rfile>> /\ UNCHANGED senderVars
        /\ offset[l][f] < Len(offer[l][f]) /\ CanOpen(l, f) /\ dest' = dest
    BY DEF OpenPartial, TypeOK, ReceiverTypeOK, ConnTypeOK
  <1>2. f \in Files
    BY <1>1 DEF PositionsOK
  <1>3. IF offset[l][f] = 0 THEN part' = [part EXCEPT ![f] = <<>>] /\ hashed'[l] = <<>>
        ELSE part' = part /\ hashed'[l] = part[f]
    BY DEF OpenPartial, TypeOK, ReceiverTypeOK
  <1>4. /\ offset[l][f] \in Nat /\ Len(offer[l][f]) \in Nat
        /\ part[f] # NoFile => StartOf(part[f], offer[l][f])
    BY <1>1, <1>2, NextFileIsThere, ListenerTypes
  <1>5. /\ StartOf(hashed'[l], offer[l][f]) /\ Len(hashed'[l]) = offset[l][f]
    <2>1. CASE offset[l][f] = 0
      BY <1>3, <1>4, <2>1 DEF StartOf
    <2>2. CASE offset[l][f] # 0
      BY <1>1, <1>3, <1>4, <2>2 DEF CanOpen
    <2> QED BY <2>1, <2>2
  <1>6. \A g \in Files \ {f} : part'[g] = part[g] /\ dest'[g] = dest[g]
    BY <1>1, <1>3 DEF TypeOK, DiskTypeOK
  <1>7. InOrder(offer[l], offset[l], wire'[l], Expected(l)', Coming(l))
    <2>1. InOrder(offer[l], offset[l], Tail(wire[l]), GoesOn(offer[l], f, offset[l][f]),
                  Coming(l))
      BY <1>1, HeaderArrives
    <2>2. Expected(l)' = GoesOn(offer[l], f, offset[l][f])
      BY <1>1, <1>5 DEF Expected, senderVars
    <2> QED BY <1>1, <2>1, <2>2
  <1>8. \A g \in Files : StillToCome(l, g)' => StillToCome(l, g) /\ g # f
    BY <1>1, <1>2, ListenerTypes DEF StillToCome, Files
  <1>9. StartOf(hashed[l], offer[l][rfile[l]])'
    BY <1>1, <1>5 DEF senderVars
  <1> QED
    BY <1>1, <1>6, <1>7, <1>8, <1>9, ReceiverGoesOn

\* The handler goes on behind a file that is finished.
LEMMA AdvanceHealthy ==
  ASSUME TypeOK, PositionsOK, NEW l \in Listeners, Receiving(l), rfile[l] \in Files,
         Advance(l), UNCHANGED senderVars, up' = up, decision' = decision, offset' = offset,
         \A f \in Files \ {rfile[l]} : part'[f] = part[f] /\ dest'[f] = dest[f],
         InOrder(offer[l], offset[l], wire'[l], <<rfile[l] + 1, 0>>, Coming(l))
  PROVE  Receiving(l)'
  <1>1. rfile'[l] = rfile[l] + 1 /\ rst'[l] \in {"staging", "header"}
    BY DEF Advance, TypeOK, ReceiverTypeOK
  <1>2. Expected(l)' = <<rfile[l] + 1, 0>>
    BY <1>1 DEF Expected
  <1>3. \A f \in Files : StillToCome(l, f)' => StillToCome(l, f) /\ f # rfile[l]
    BY <1>1, ListenerTypes DEF StillToCome, Files
  <1> QED
    BY <1>1, <1>2, <1>3, ReceiverGoesOn

\* A file that is all there already is finished.
LEMMA FinalizeHealthy ==
  ASSUME TypeOK, PositionsOK, NEW l \in Listeners, Receiving(l), Sound(l), FinalizeResumed(l)
  PROVE  Receiving(l)'
  <1> DEFINE f == rfile[l]
  <1>1. /\ rst[l] = "header" /\ wire[l] # <<>> /\ wire'[l] = Tail(wire[l])
        /\ UNCHANGED <<up, decision, offset>> /\ UNCHANGED senderVars
        /\ offset[l][f] = Len(offer[l][f]) /\ Advance(l)
    BY DEF FinalizeResumed, TypeOK, ConnTypeOK
  <1>2. f \in Files
    BY <1>1 DEF PositionsOK
  <1>3. \A g \in Files \ {f} : part'[g] = part[g] /\ dest'[g] = dest[g]
    BY DEF FinalizeResumed, TypeOK, DiskTypeOK
  <1>4. GoesOn(offer[l], f, offset[l][f]) = <<f + 1, 0>>
    BY <1>1, <1>2, ListenerTypes DEF GoesOn
  <1>5. InOrder(offer[l], offset[l], wire'[l], <<f + 1, 0>>, Coming(l))
    BY <1>1, <1>4, HeaderArrives
  <1> QED
    BY <1>1, <1>2, <1>3, <1>5, AdvanceHealthy

\* The next chunk is stored.
LEMMA StoreHealthy ==
  ASSUME TypeOK, PositionsOK, NEW l \in Listeners, Receiving(l), rst[l] = "data",
         wire[l] # <<>>, Len(hashed[l]) < Len(offer[l][rfile[l]]),
         Store(l, offer[l][rfile[l]][Len(hashed[l]) + 1])
  PROVE  Receiving(l)'
  <1> DEFINE f == rfile[l]
             n == Len(hashed[l])
             c == offer[l][f][n + 1]
  <1>1. /\ wire'[l] = Tail(wire[l]) /\ hashed'[l] = Append(hashed[l], c)
        /\ UNCHANGED <<up, decision, offset, rst, rfile>> /\ UNCHANGED senderVars
    BY DEF Store, TypeOK, ConnTypeOK, ReceiverTypeOK
  <1>2. f \in Files /\ hashed[l] \in Seq(Chunks) /\ offer[l][f] \in Seq(Chunks) /\ n \in Nat
        /\ Len(offer[l][f]) \in Nat
    BY ListenerTypes DEF PositionsOK
  <1>3. \A g \in Files \ {f} : part'[g] = part[g] /\ dest'[g] = dest[g]
    BY DEF Store, TypeOK, DiskTypeOK
  <1>4. StartOf(hashed[l], offer[l][f])
    BY DEF Receiving
  <1>5. StartOf(hashed'[l], offer[l][f])
    BY <1>1, <1>2, <1>4, LongerStart
  <1>6. Len(hashed'[l]) = n + 1
    <2>1. c \in Chunks
      BY <1>2
    <2> QED BY <1>1, <1>2, <2>1
  <1>7. InOrder(offer[l], offset[l], wire'[l], Expected(l)', Coming(l))
    <2>1. InOrder(offer[l], offset[l], Tail(wire[l]), GoesOn(offer[l], f, n + 1), Coming(l))
      BY ChunkArrives
    <2>2. Expected(l)' = GoesOn(offer[l], f, n + 1)
      BY <1>1, <1>6 DEF Expected, senderVars
    <2> QED BY <1>1, <2>1, <2>2
  <1>8. \A g \in Files : StillToCome(l, g)' => StillToCome(l, g) /\ g # f
    BY <1>1, <1>2, ListenerTypes DEF StillToCome, Files
  <1>9. StartOf(hashed[l], offer[l][rfile[l]])'
    BY <1>1, <1>5 DEF senderVars
  <1> QED
    BY <1>1, <1>3, <1>7, <1>8, <1>9, ReceiverGoesOn

\* The received file is finished.
LEMMA FinishHealthy ==
  ASSUME TypeOK, PositionsOK, NEW l \in Listeners, Receiving(l), FinishFile(l)
  PROVE  Receiving(l)'
  <1> DEFINE f == rfile[l]
  <1>1. /\ rst[l] = "data" /\ Len(hashed[l]) >= Len(offer[l][f])
        /\ UNCHANGED <<up, decision, offset, wire>> /\ UNCHANGED senderVars /\ Advance(l)
    BY DEF FinishFile, connVars
  <1>2. f \in Files /\ Len(hashed[l]) \in Nat /\ Len(offer[l][f]) \in Nat
    BY <1>1, ListenerTypes DEF PositionsOK
  <1>3. \A g \in Files \ {f} : part'[g] = part[g] /\ dest'[g] = dest[g]
    BY DEF FinishFile, TypeOK, DiskTypeOK
  <1>4. Expected(l) = <<f + 1, 0>>
    <2>1. GoesOn(offer[l], f, Len(hashed[l])) = <<f + 1, 0>>
      BY <1>1, <1>2 DEF GoesOn
    <2> QED BY <1>1, <2>1 DEF Expected
  <1>5. InOrder(offer[l], offset[l], wire'[l], <<f + 1, 0>>, Coming(l))
    BY <1>1, <1>4 DEF Receiving
  <1> QED
    BY <1>1, <1>2, <1>3, <1>5, AdvanceHealthy

LEMMA FileHealthy ==
  ASSUME SoloInv, HealthyInv, NEW l \in Listeners, FileStep(l), Sound(l)'
  PROVE  Healthy(l)'
  <1> USE DEF SoloInv, ControlInv
  <1> DEFINE f == rfile[l]
  <1>0. /\ UNCHANGED senderVars /\ offer' = offer /\ source' = source
        /\ rst[l] \in {"header", "data", "staging"}
        /\ calm'[l] => calm[l]
    BY FileActions DEF OpenPartial, FinalizeResumed, ResumedMismatch, RejectHeader, Appending,
        Store, FinishFile, ChecksumMismatch, RejectData, StreamEnds, EndTransfer, StagingFails,
        senderVars, sourceVars, TypeOK
  <1>1. Sound(l) /\ Receiving(l) /\ ~Failed(l) /\ source[l] = offer[l]
    <2>1. Sound(l)
      BY <1>0 DEF Sound
    <2> QED
      BY <1>0, <2>1 DEF HealthyInv, Healthy
  <1>2. ASSUME Receiving(l)', outcome' = outcome, rst'[l] # "deciding"
        PROVE  Healthy(l)'
    BY <1>0, <1>1, <1>2 DEF Healthy, Failed
  <1>3. CASE OpenPartial(l)
    <2>1. outcome' = outcome /\ rst'[l] = "data"
      BY <1>3 DEF OpenPartial, TypeOK, ReceiverTypeOK
    <2> QED
      BY <1>1, <1>2, <1>3, <2>1, OpenHealthy
  <1>4. CASE FinalizeResumed(l)
    <2>1. outcome' = outcome /\ rst'[l] # "deciding"
      BY <1>4 DEF FinalizeResumed, Advance, TypeOK, ReceiverTypeOK
    <2> QED
      BY <1>1, <1>2, <1>4, <2>1, FinalizeHealthy
  <1>5. ~ResumedMismatch(l)
    <2>1. ASSUME ResumedMismatch(l) PROVE FALSE
      <3>1. rst[l] = "header" /\ offset[l][f] = Len(offer[l][f])
        BY <2>1 DEF ResumedMismatch
      <3>2. dest[f] = offer[l][f] \/ (dest[f] = NoFile /\ part[f] = offer[l][f])
        BY <1>1, <3>1, NextFileIsThere
      <3>3. f \in Files /\ offer[l][f] # NoFile
        BY <3>1, ListenerTypes, NoFileAssumption DEF PositionsOK
      <3> QED
        BY <2>1, <3>2, <3>3 DEF ResumedMismatch
    <2> QED BY <2>1
  <1>6. ~RejectHeader(l)
    <2>1. ASSUME RejectHeader(l) PROVE FALSE
      <3>1. rst[l] = "header" /\ wire[l] # <<>>
        BY <2>1 DEF RejectHeader
      <3>2. HeaderMatches(l, Head(wire[l]))
        BY <1>1, <3>1, HeaderArrives
      <3>3. f \in Files /\ offer[l][f] # NoFile
        BY <3>1, ListenerTypes, NoFileAssumption DEF PositionsOK
      <3>4. /\ offset[l][f] < Len(offer[l][f]) => CanOpen(l, f)
            /\ offset[l][f] = Len(offer[l][f]) => dest[f] # NoFile \/ part[f] # NoFile
        BY <1>1, <3>1, <3>3, NextFileIsThere
      <3> QED
        BY <2>1, <3>2, <3>4 DEF RejectHeader
    <2> QED BY <2>1
  <1>7. CASE AppendChunk(l) \/ AppendPlain(l)
    <2>1. /\ rst[l] = "data" /\ wire[l] # <<>> /\ Len(hashed[l]) < Len(offer[l][f])
      BY <1>7 DEF AppendChunk, AppendPlain
    <2>2. /\ NextChunk(l, Head(wire[l]))
          /\ Head(wire[l]).chunk = offer[l][f][Len(hashed[l]) + 1]
      BY <1>1, <2>1, ChunkArrives
    <2>3. Store(l, Head(wire[l]).chunk)
      BY <1>7, <2>2 DEF AppendChunk, AppendPlain, PlainBytes, IsHeader, NextChunk
    <2>4. Receiving(l)'
      BY <1>1, <2>1, <2>2, <2>3, StoreHealthy
    <2>5. outcome' = outcome /\ rst'[l] # "deciding"
      BY <2>1, <2>3 DEF Store
    <2> QED
      BY <1>2, <2>4, <2>5
  <1>8. CASE FinishFile(l)
    <2>1. outcome' = outcome /\ rst'[l] # "deciding"
      BY <1>8 DEF FinishFile, Advance, TypeOK, ReceiverTypeOK
    <2> QED
      BY <1>1, <1>2, <1>8, <2>1, FinishHealthy
  <1>9. rst[l] = "data" => /\ f \in Files /\ hashed[l] \in Seq(Chunks)
                           /\ offer[l][f] \in Seq(Chunks) /\ StartOf(hashed[l], offer[l][f])
    BY <1>1, ListenerTypes DEF Receiving, PositionsOK
  <1>10. ~ChecksumMismatch(l)
    BY <1>9, WholeStart DEF ChecksumMismatch
  <1>11. ~RejectData(l)
    <2>1. ASSUME RejectData(l) PROVE FALSE
      <3>1. rst[l] = "data"
        BY <2>1 DEF RejectData
      <3>2. part[f] # NoFile
        BY <1>9, <3>1, NoFileAssumption DEF PartialIsHashed
      <3> QED
        BY <1>1, <2>1, <3>1, <3>2, ChunkArrives DEF RejectData
    <2> QED BY <2>1
  <1>12. ~StreamEnds(l)
    <2>1. ASSUME StreamEnds(l) PROVE FALSE
      <3>1. /\ wire[l] = <<>> /\ ~up[l]
            /\ \/ rst[l] = "header"
               \/ rst[l] = "data" /\ Len(hashed[l]) < Len(offer[l][f])
        BY <2>1 DEF StreamEnds
      <3>2. Coming(l) = <<NFiles + 1, 0>>
        BY <1>1, <3>1 DEF Receiving, SenderSound, Coming
      <3>3. Expected(l) = Coming(l)
        BY <1>1, <3>1 DEF Receiving, InOrder
      <3>4. f \in Nat /\ f # NFiles + 1 /\ Len(hashed[l]) \in Nat
        BY <3>1, ListenerTypes DEF PositionsOK, Files
      <3>5. CASE rst[l] = "header"
        BY <3>2, <3>3, <3>4, <3>5 DEF Expected
      <3>6. CASE rst[l] = "data" /\ Len(hashed[l]) < Len(offer[l][f])
        <4>1. Expected(l) = <<f, Len(hashed[l]) + 1>>
          BY <3>6 DEF Expected, GoesOn
        <4> QED
          BY <3>2, <3>3, <3>4, <4>1
      <3> QED BY <3>1, <3>5, <3>6
    <2> QED BY <2>1
  <1>13. CASE EndTransfer(l)
    <2>1. rst'[l] = "idle" /\ outcome'[l] = "done"
      BY <1>13 DEF EndTransfer, End, TypeOK, ReceiverTypeOK
    <2> QED
      BY <1>0, <1>1, <2>1 DEF Healthy, Failed
  <1>14. ~StagingFails(l)
    <2>1. StagingFails(l) => ~calm'[l]
      BY DEF StagingFails, TypeOK
    <2> QED BY <2>1 DEF Sound
  <1> QED
    BY <1>3, <1>4, <1>5, <1>6, <1>7, <1>8, <1>10, <1>11, <1>12, <1>13, <1>14
    DEF FileStep, ReceivePlain, EndPlain, ReceiveFile

\* What ends an attempt or disturbs it leaves nothing to say of it; a new one is at its start.
LEMMA EnvironmentHealthy ==
  ASSUME TypeOK, HealthyInv, NEW l \in Listeners, Environment(l), Sound(l)'
  PROVE  Healthy(l)'
  <1>1. SendAborted(l) \/ LinkDown(l) \/ EditSource(l) \/ AbortReceive(l) => ~calm'[l]
    BY DEF SendAborted, LinkDown, EditSource, AbortReceive, TypeOK
  <1>2. CASE SendPaths(l) \/ AutoRetry(l)
    <2>1. /\ rst'[l] = "deciding" /\ outcome'[l] = "none" /\ wire'[l] = <<>> /\ up'[l]
          /\ sst'[l] = "waiting" /\ decision'[l] = "none" /\ source' = source
      BY <1>2 DEF SendPaths, AutoRetry, Connect, sourceVars, TypeOK, SenderTypeOK, ConnTypeOK,
          ReceiverTypeOK
    <2>2. source[l] = offer'[l]
      <3>1. CASE SendPaths(l)
        BY <3>1 DEF SendPaths, TypeOK, SenderTypeOK
      <3>2. CASE AutoRetry(l)
        BY <3>2 DEF AutoRetry, Sound, TypeOK
      <3> QED BY <1>2, <3>1, <3>2
    <2> QED
      BY <2>1, <2>2 DEF Healthy, Failed, Deciding
  <1> QED
    BY <1>1, <1>2 DEF Environment, Sound

\* A send task that does not send is before the first file.
LEMMA AtStartStep ==
  ASSUME TypeOK, NEW l \in Listeners, SenderAtStart(l), NEW k \in Listeners,
         SenderStep(k) \/ DecisionStep(k) \/ FileStep(k) \/ Environment(k)
  PROVE  SenderAtStart(l)'
  <1>1. ASSUME NEW s, Stop(k, s) PROVE SenderAtStart(l)'
    BY <1>1 DEF Stop, SenderAtStart, TypeOK, SenderTypeOK
  <1>2. ASSUME UNCHANGED senderVars PROVE SenderAtStart(l)'
    BY <1>2 DEF senderVars, SenderAtStart
  <1>3. CASE SenderStep(k)
    BY <1>1, <1>3, SenderActions DEF ReadAccept, ReadRefusal, SendHeader, OffsetPastEnd,
        SendChunk, EndOfSource, SendFinished, SendBroken, SenderAtStart, TypeOK, SenderTypeOK
  <1>4. CASE DecisionStep(k)
    BY <1>2, <1>4, DecisionActions DEF Decline, RefuseResumeState, RefuseResumeEntry, Accept
  <1>5. CASE FileStep(k)
    BY <1>2, <1>5, FileActions DEF OpenPartial, FinalizeResumed, ResumedMismatch, RejectHeader,
        Appending, Store, FinishFile, ChecksumMismatch, RejectData, StreamEnds, EndTransfer,
        StagingFails
  <1>6. CASE Environment(k)
    <2>1. CASE SendPaths(k) \/ AutoRetry(k)
      BY <2>1 DEF SendPaths, AutoRetry, Connect, SenderAtStart, TypeOK, SenderTypeOK
    <2> QED
      BY <1>1, <1>2, <1>6, <2>1 DEF Environment, SendAborted, LinkDown, EditSource, AbortReceive
  <1> QED
    BY <1>3, <1>4, <1>5, <1>6

LEMMA HealthyStep ==
  ASSUME OneListener, SoloInv, HealthyInv
  PROVE  [Next]_vars => HealthyInv'
  <1>0. TypeOK /\ PositionsOK
    BY DEF SoloInv, ControlInv
  <1>1. ASSUME NEW k \in Listeners,
               SenderStep(k) \/ DecisionStep(k) \/ FileStep(k) \/ Environment(k)
        PROVE  HealthyInv'
    <2>1. ASSUME NEW l \in Listeners PROVE SenderAtStart(l)'
      BY <1>0, <1>1, AtStartStep DEF HealthyInv
    <2>2. ASSUME NEW l \in Listeners, Sound(l)' PROVE Healthy(l)'
      <3>1. l = k
        BY DEF OneListener
      <3>2. CASE SenderStep(l)
        <4>1. calm' = calm /\ offer' = offer
          BY <3>2, SenderActions DEF ReadAccept, ReadRefusal, SendHeader, OffsetPastEnd,
              SendChunk, EndOfSource, SendFinished, SendBroken, Stop
        <4>2. Sound(l)
          BY <2>2, <4>1 DEF Sound
        <4> QED
          BY <1>0, <3>2, <4>2, SenderHealthy
      <3>3. CASE DecisionStep(l)
        BY <1>0, <2>2, <3>3, DecisionHealthy
      <3>4. CASE FileStep(l)
        BY <2>2, <3>4, FileHealthy
      <3>5. CASE Environment(l)
        BY <1>0, <2>2, <3>5, EnvironmentHealthy
      <3> QED
        BY <1>1, <3>1, <3>2, <3>3, <3>4, <3>5
    <2> QED
      BY <2>1, <2>2 DEF HealthyInv
  <1>2. ASSUME ReceiverCrash \/ \E f \in Files : TakeFile(f) PROVE HealthyInv'
    <2>1. UNCHANGED senderVars /\ \A l \in Listeners : ~calm'[l]
      BY <1>2 DEF ReceiverCrash, TakeFile
    <2> QED
      BY <2>1 DEF HealthyInv, Sound, SenderAtStart, senderVars
  <1>3. ASSUME UNCHANGED vars PROVE HealthyInv'
    BY <1>3 DEF vars, senderVars, connVars, receiverVars, diskVars, sourceVars, HealthyInv,
        SenderAtStart, Sound, Healthy, Failed, Deciding, Receiving, SenderSound, StillToCome,
        AsDecided, Consistent, ResumeBytes, Expected, Coming
  <1> QED
    BY <1>1, <1>2, <1>3 DEF Next

\* With one listener, an attempt that nothing disturbs does not fail: header, offset and chunk
\* agree at every step, whatever of the files was received before.
THEOREM HealthyTransfers == ASSUME OneListener PROVE Spec => []HealthyTransferSucceeds
  <1>1. Init => HealthyInv
    BY DEF Init, HealthyInv, SenderAtStart, Sound
  <1>2. SoloInv /\ HealthyInv /\ [Next]_vars => HealthyInv'
    BY HealthyStep
  <1>3. HealthyInv => HealthyTransferSucceeds
    BY DEF HealthyInv, Sound, Healthy, HealthyTransferSucceeds
  <1> QED
    BY <1>1, <1>2, <1>3, SoloInvariant, PTL DEF Spec
=============================================================================
