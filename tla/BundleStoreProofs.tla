-------------------------- MODULE BundleStoreProofs ---------------------------
(***************************************************************************)
(* The bundle store, for any number of threads, handlers, files, versions  *)
(* and jobs.  There is a free name for every import (RoomInv).  An import  *)
(* that meets no other one writes over no file, because what it looked for *)
(* is not there when it copies (LookInv).  An import that nothing disturbs *)
(* succeeds, and what it reports is there (CalmInv).  A rollback removes   *)
(* what its import wrote (OwnInv).                                         *)
(***************************************************************************)
EXTENDS BundleStore, SequenceTheorems, SubsequencesProofs, TLAPS

\* At the start the destinations are empty directories.
THEOREM DiskStart == Init => DiskOK
BY DEF Init, DiskOK

\* A directory with one file written is a directory.
LEMMA WithTyped ==
    ASSUME NEW dir \in Directory \cup {NoDir}, NEW f, NEW content,
           f \in Files => content \in Versions \cup {Missing, Torn}
    PROVE  With(dir, f, content) \in Directory
<1> DEFINE old == IF dir = NoDir THEN Empty ELSE dir
<1>1. old \in Directory
  BY DEF Directory, Empty
<1>2. With(dir, f, content) = [old EXCEPT ![f] = content]
  BY DEF With
<1> HIDE DEF old
<1> QED
  BY <1>1, <1>2 DEF Directory

\* What a directory has already keeps its content when another file is written into it.
LEMMA WithKeeps ==
    ASSUME NEW dir \in Directory, dir # NoDir, NEW f, NEW content,
           NEW g \in Files, g # f
    PROVE  With(dir, f, content)[g] = dir[g]
BY DEF With, Directory

\* Copying or breaking off writes something a file can hold.
LEMMA SourceTyped ==
    ASSUME DiskOK, NEW f \in Files
    PROVE  Source(f) \in Versions \cup {Missing, Torn}
BY DEF DiskOK, Source, Directory

\* Writing a file leaves the other files as they are.
LEMMA WriteSafe ==
    ASSUME DiskOK, NEW t, NEW f, NEW content,
           f \in Files => content \in Versions \cup {Missing, Torn},
           Write(t, f, content)
    PROVE  /\ dest' \in [Dests -> Directory \cup {NoDir}]
           /\ temp' \in Directory \cup {NoDir}
           /\ \A d \in Dests, g \in Files :
                 Exists(d, g) /\ ~(Skips(t) /\ d = job[t].dest /\ g = f)
                     => dest'[d][g] = dest[d][g]
<1> DEFINE e == job[t].dest
<1>1. CASE ~Skips(t)
  BY <1>1, WithTyped DEF Write, DiskOK
<1>2. CASE Skips(t)
  <2>1. /\ dest' = [dest EXCEPT ![e] = With(dest[e], f, content)]
        /\ temp' = temp
    BY <1>2 DEF Write
  <2>2. e \in Dests => With(dest[e], f, content) \in Directory
    BY WithTyped DEF DiskOK
  <2>3. dest' \in [Dests -> Directory \cup {NoDir}]
    BY <2>1, <2>2 DEF DiskOK
  <2>4. ASSUME NEW d \in Dests, NEW g \in Files, Exists(d, g), ~(d = e /\ g = f)
        PROVE  dest'[d][g] = dest[d][g]
    <3>1. CASE d # e
      BY <2>1, <3>1 DEF DiskOK
    <3>2. CASE d = e
      <4>1. g # f /\ dest[d] # NoDir /\ dest[d] \in Directory
        BY <2>4, <3>2 DEF Exists, DiskOK
      <4>2. dest'[d] = With(dest[d], f, content)
        BY <2>1, <3>2 DEF DiskOK
      <4> QED
        BY <4>1, <4>2, WithKeeps
    <3> QED
      BY <3>1, <3>2
  <2> QED
    BY <1>2, <2>1, <2>3, <2>4 DEF DiskOK
<1> QED
  BY <1>1, <1>2

-----------------------------------------------------------------------------
(* One step.                                                                *)

\* An import that skips conflicts has looked for a file, and found it not to be there.
Overwriter(d, f) ==
    \E t \in Threads : /\ job[t].at = "copying" /\ Skips(t)
                       /\ job[t].dest = d /\ f \in job[t].looked

\* What a step may do to a file that is at a destination.
Kept == \A d \in Dests, f \in Files :
            Exists(d, f) => \/ dest'[d] = NoDir
                            \/ dest'[d][f] \in {dest[d][f], Missing}
                            \/ Overwriter(d, f)

\* The import area is left alone.
Aside == dest' = dest /\ temp' = temp

LEMMA AsideSafe ==
    ASSUME DiskOK, Aside, staged' = staged, stager' = stager
    PROVE  DiskOK' /\ Kept
BY DEF Aside, DiskOK, Kept

\* Staging writes its own directory only.
LEMMA StageSafe ==
    ASSUME DiskOK, NEW k \in Stagers,
           \/ \E v \in Versions : StageBegin(k, v)
           \/ StageFile(k) \/ StageEnds(k) \/ DeleteStaged
    PROVE  DiskOK' /\ Kept
<1>0. Aside => Kept
  BY DEF Aside, Kept
<1>1. ASSUME NEW v \in Versions, StageBegin(k, v)
      PROVE  DiskOK' /\ Aside
  <2>1. Paths[v] \in SUBSET Files
    BY PathsAssumption
  <2>2. [at |-> "copying", version |-> v, todo |-> Paths[v]] \in Staging
    BY <2>1 DEF Staging
  <2>3. staged' \in [version : Versions \cup {NoVersion}, files : Directory]
    BY <1>1 DEF StageBegin, Directory, Empty
  <2> QED
    BY <1>1, <2>2, <2>3 DEF StageBegin, DiskOK, importVars, Aside
<1>2. ASSUME StageFile(k)
      PROVE  DiskOK' /\ Aside
  <2>1. PICK f \in stager[k].todo :
          /\ stager' = [stager EXCEPT ![k].todo = @ \ {f}]
          /\ staged' = IF staged = NoDir
                       THEN [version |-> NoVersion,
                             files |-> With(NoDir, f, stager[k].version)]
                       ELSE [staged EXCEPT !.files[f] = stager[k].version]
    BY <1>2 DEF StageFile
  <2>2. stager[k] \in Staging
    BY <1>2 DEF StageFile, DiskOK
  <2>3. f \in Files /\ stager[k].version \in Versions
    BY <2>1, <2>2 DEF Staging
  <2>4. stager' \in [Stagers -> {Idle} \cup Staging]
    <3>1. [stager[k] EXCEPT !.todo = @ \ {f}] \in Staging
      BY <2>2 DEF Staging
    <3> QED
      BY <2>1, <3>1 DEF DiskOK
  <2>5. \/ staged' = NoDir
        \/ staged' \in [version : Versions \cup {NoVersion}, files : Directory]
    <3>1. CASE staged = NoDir
      <4>1. With(NoDir, f, stager[k].version) \in Directory
        BY <2>3, WithTyped
      <4> QED
        BY <2>1, <3>1, <4>1
    <3>2. CASE staged # NoDir
      BY <2>1, <2>3, <3>2 DEF DiskOK, Directory
    <3> QED
      BY <3>1, <3>2
  <2> QED
    BY <1>2, <2>4, <2>5 DEF StageFile, DiskOK, importVars, Aside
<1>3. StageEnds(k) => DiskOK' /\ Aside
  BY DEF StageEnds, DiskOK, importVars, Aside
<1>4. DeleteStaged => DiskOK' /\ Aside
  BY DEF DeleteStaged, DiskOK, importVars, Aside
<1> QED
  BY <1>0, <1>1, <1>2, <1>3, <1>4

\* A step of an import writes over a file only if it has looked for it.
LEMMA ImportSafe ==
    ASSUME DiskOK, NEW t \in Threads,
           (\E s \in Strategies : ImportPlan(t, s)) \/ ImportStep(t)
    PROVE  DiskOK' /\ Kept
<1>1. ASSUME NEW s \in Strategies, ImportPlan(t, s)
      PROVE  DiskOK' /\ Kept
  BY <1>1, AsideSafe DEF ImportPlan, stageVars, importVars, Aside
<1>2. ASSUME ImportOpen(t)
      PROVE  DiskOK' /\ Kept
  <2>1. /\ dest' \in {dest, [dest EXCEPT ![1] = IF dest[1] = NoDir THEN Empty ELSE dest[1]]}
        /\ temp' \in {NoDir, Empty}
        /\ UNCHANGED <<staged, stager>>
    BY <1>2 DEF ImportOpen, stageVars
  <2>2. Empty \in Directory
    BY DEF Empty, Directory
  <2> QED
    BY <2>1, <2>2 DEF DiskOK, Kept, Exists
<1>3. ImportRefused(t) => DiskOK' /\ Kept
  BY AsideSafe DEF ImportRefused, stageVars, importVars, Aside
<1>4. ASSUME NEW f \in ToCopy(t), NEW content, job[t].at = "copying",
             f \in Files => content \in Versions \cup {Missing, Torn},
             Write(t, f, content), UNCHANGED <<staged, stager>>
      PROVE  DiskOK' /\ Kept
  <2>1. Skips(t) => Overwriter(job[t].dest, f)
    BY <1>4 DEF ToCopy, Overwriter
  <2> QED
    BY <1>4, <2>1, WriteSafe DEF DiskOK, Kept
<1>5. ImportFile(t) => DiskOK' /\ Kept
  BY <1>4, SourceTyped DEF ImportFile, stageVars
<1>9. CopyBreaks(t) => DiskOK' /\ Kept
  <2> SUFFICES ASSUME CopyBreaks(t) PROVE DiskOK' /\ Kept
    OBVIOUS
  <2>1. staged' = staged /\ stager' = stager /\ job[t].at = "copying"
    BY DEF CopyBreaks, stageVars
  <2>2. PICK f \in ToCopy(t) :
          IF Skips(t) THEN Write(t, f, Torn) ELSE temp' = NoDir /\ dest' = dest
    BY DEF CopyBreaks
  <2>3. CASE Skips(t)
    BY <1>4, <2>1, <2>2, <2>3
  <2>4. CASE ~Skips(t)
    BY <2>1, <2>2, <2>4 DEF DiskOK, Kept
  <2> QED
    BY <2>3, <2>4
<1>10. ImportLook(t) => DiskOK' /\ Kept
  BY AsideSafe DEF ImportLook, stageVars, importVars, Aside
<1>6. ImportRename(t) => DiskOK' /\ Kept
  <2> SUFFICES ASSUME ImportRename(t) PROVE DiskOK' /\ Kept
    OBVIOUS
  <2>1. /\ temp # NoDir
        /\ dest[job[t].dest] \in {NoDir, Empty}
        /\ dest' = [dest EXCEPT ![job[t].dest] = temp]
        /\ temp' = NoDir
        /\ staged' = staged /\ stager' = stager
    BY DEF ImportRename, CanRename, stageVars
  <2>2. \A f \in Files : ~Exists(job[t].dest, f)
    BY <2>1 DEF Exists, Empty
  <2> QED
    BY <2>1, <2>2 DEF DiskOK, Kept
<1>7. OpenBreaks(t) \/ SourceGone(t) \/ RenameFails(t) => DiskOK' /\ Kept
  BY DEF OpenBreaks, SourceGone, RenameFails, stageVars, DiskOK, Kept
<1>8. ImportReceipt(t) \/ ReceiptFails(t) => DiskOK' /\ Kept
  BY AsideSafe DEF ImportReceipt, ReceiptFails, stageVars, Aside
<1> QED
  BY <1>1, <1>2, <1>3, <1>5, <1>6, <1>7, <1>8, <1>9, <1>10 DEF ImportStep

\* A rollback only removes.
LEMMA RollbackSafe ==
    ASSUME DiskOK, NEW t \in Threads, RollbackPlan(t) \/ RollbackStep(t)
    PROVE  DiskOK' /\ Kept
<1>1. RollbackPlan(t) \/ RollbackBreaks(t) => DiskOK' /\ Kept
  BY AsideSafe DEF RollbackPlan, RollbackBreaks, stageVars, importVars, Aside
<1>2. RollbackFile(t) => DiskOK' /\ Kept
  <2> SUFFICES ASSUME RollbackFile(t) PROVE DiskOK' /\ Kept
    OBVIOUS
  <2> DEFINE e == job[t].dest
  <2>1. /\ temp' = temp /\ staged' = staged /\ stager' = stager
        /\ \E f \in job[t].todo :
              dest[e] # NoDir /\ dest' = [dest EXCEPT ![e][f] = Missing]
    BY DEF RollbackFile, stageVars, Exists
  <2>2. PICK f : dest[e] # NoDir /\ dest' = [dest EXCEPT ![e][f] = Missing]
    BY <2>1
  <2>3. e \in Dests => [dest[e] EXCEPT ![f] = Missing] \in Directory
    BY <2>2 DEF DiskOK, Directory
  <2>4. dest' \in [Dests -> Directory \cup {NoDir}]
    BY <2>2, <2>3 DEF DiskOK
  <2>5. Kept
    BY <2>2 DEF DiskOK, Directory, Kept
  <2> QED
    BY <2>1, <2>4, <2>5 DEF DiskOK
<1>3. RollbackDirectory(t) => DiskOK' /\ Kept
  BY DEF RollbackDirectory, stageVars, DiskOK, Kept
<1> QED
  BY <1>1, <1>2, <1>3 DEF RollbackStep

LEMMA StepSafe == DiskOK /\ [Next]_vars => DiskOK' /\ (Kept \/ UNCHANGED vars)
<1> SUFFICES ASSUME DiskOK, [Next]_vars PROVE DiskOK' /\ (Kept \/ UNCHANGED vars)
  OBVIOUS
<1>1. CASE UNCHANGED vars
  BY <1>1 DEF vars, stageVars, importVars, DiskOK
<1>2. ASSUME NEW k \in Stagers,
             (\E v \in Versions : StageBegin(k, v)) \/ StageFile(k) \/ StageEnds(k)
      PROVE  DiskOK' /\ Kept
  BY <1>2, StageSafe
<1>3. DeleteStaged => DiskOK' /\ Kept
  BY DEF DeleteStaged, DiskOK, importVars, Kept
<1>4. ASSUME NEW t \in Threads,
             \/ (\E s \in Strategies : ImportPlan(t, s)) \/ ImportStep(t)
             \/ RollbackPlan(t) \/ RollbackStep(t)
      PROVE  DiskOK' /\ Kept
  BY <1>4, ImportSafe, RollbackSafe
<1>5. Crash => DiskOK' /\ Kept
  BY DEF Crash, DiskOK, Kept
<1> QED
  BY <1>1, <1>2, <1>3, <1>4, <1>5 DEF Next

-----------------------------------------------------------------------------
(* Types.                                                                   *)

\* The imports that have been planned, and whether a thread has a destination in hand.
Planning == {t \in Threads : job[t].at = "planned"}
Holds(t, d) == job[t].at \in {"copying", "renamed"} /\ job[t].dest = d

\* There is a free name for every import that is planned: what is taken, or in hand, was taken
\* by another job, the first name aside.
RoomInv ==
    /\ IsFiniteSet(Planning) /\ Cardinality(Planning) <= jobs
    /\ \A d \in Dests : (dest[d] # NoDir \/ \E t \in Threads : Holds(t, d)) =>
          d + Cardinality(Planning) <= jobs + 1

\* The fields of a job are those of the step it is at.
LEMMA JobShapes ==
    ASSUME NEW j \in Job
    PROVE  /\ j.at = "idle" <=> j = Idle
           /\ j.at = "planned" <=> j \in Planned
           /\ j.at \in {"copying", "renamed"} <=> j \in Copying
           /\ j.at = "removing" <=> j \in Removing
           /\ j.at \in {"idle", "planned", "copying", "renamed", "removing"}
BY DEF Job, Idle, Planned, Copying, Removing

\* One thread takes another step.
LEMMA JobMoves ==
    ASSUME JobsOK, NEW t \in Threads, NEW r, job' = [job EXCEPT ![t] = r]
    PROVE  /\ job'[t] = r
           /\ \A u \in Threads \ {t} : job'[u] = job[u]
BY DEF JobsOK

LEMMA JobsMove ==
    ASSUME JobsOK, NEW t \in Threads, NEW r \in Job, job' = [job EXCEPT ![t] = r],
           r.at \in {"copying", "renamed"} => /\ r.todo \cap r.imported = {}
                                             /\ r.looked \subseteq r.todo,
           jobs' \in 0..MaxJobs, refused' \subseteq Threads, calm' \subseteq Threads,
           beside' \subseteq Threads
    PROVE  JobsOK'
<1>1. job' \in [Threads -> Job]
  BY DEF JobsOK
<1>2. ASSUME NEW u \in Threads, job'[u].at \in {"copying", "renamed"}
      PROVE  job'[u].todo \cap job'[u].imported = {} /\ job'[u].looked \subseteq job'[u].todo
  <2>1. CASE u = t
    BY <1>2, <2>1, JobMoves
  <2>2. CASE u # t
    BY <1>2, <2>2, JobMoves DEF JobsOK
  <2> QED BY <2>1, <2>2
<1> QED
  BY <1>1, <1>2 DEF JobsOK

LEMMA JobEnds ==
    ASSUME JobsOK, NEW t \in Threads, NEW how, End(t, how)
    PROVE  JobsOK'
<1>1. Idle \in Job /\ Idle.at = "idle"
  BY DEF Job, Idle
<1>2. /\ jobs' \in 0..MaxJobs /\ refused' \subseteq Threads /\ calm' \subseteq Threads
      /\ beside' \subseteq Threads
  BY DEF End, JobsOK
<1> QED
  BY <1>1, <1>2, JobsMove DEF End

LEMMA JobBegins ==
    ASSUME JobsOK, NEW t \in Threads, NEW j \in Job, j.at \in {"planned", "removing"},
           Begin(t, j)
    PROVE  JobsOK'
<1>1. jobs' \in 0..MaxJobs
  BY BoundsAssumption DEF Begin, JobsOK
<1>2. refused' \subseteq Threads /\ calm' \subseteq Threads /\ beside' \subseteq Threads
  BY DEF Begin, JobsOK
<1> QED
  BY <1>1, <1>2, JobsMove DEF Begin

\* A free name, and with it a destination, can be found.
LEMMA NameFound ==
    ASSUME TypeOK, RoomInv, NEW t \in Threads, job[t].at = "planned"
    PROVE  /\ Destination(job[t]) \in Dests
           /\ Destination(job[t]) + Cardinality(Planning) <= jobs + 2
           /\ Cardinality(Planning) \in Nat \ {0}
           /\ job[t].strategy = "rename" => dest[Destination(job[t])] = NoDir
<1> DEFINE p == Cardinality(Planning)
           free == {d \in Dests \ {1} : dest[d] = NoDir}
           m == jobs + 2 - p
<1>1. p \in Nat \ {0}
  <2>1. t \in Planning
    BY DEF Planning
  <2>2. Planning # {} /\ IsFiniteSet(Planning)
    BY <2>1 DEF RoomInv
  <2> QED
    BY <2>2, FS_EmptySet, FS_CardinalityType
<1>2. MaxJobs \in Nat /\ jobs \in 0..MaxJobs /\ p <= jobs
  BY BoundsAssumption DEF TypeOK, JobsOK, RoomInv
<1>3. m \in Dests \ {1}
  BY <1>1, <1>2 DEF Dests
<1>4. \A d \in Dests : dest[d] # NoDir => d + p <= jobs + 1
  BY DEF RoomInv
<1> HIDE DEF p
<1>5. dest[m] = NoDir
  BY <1>1, <1>2, <1>3, <1>4
<1>6. m \in free
  BY <1>3, <1>5
<1>7. PICK d \in free : \A e \in free : d <= e
  <2>1. free \subseteq Nat /\ free # {}
    BY <1>6 DEF Dests
  <2> HIDE DEF free
  <2> QED
    BY <2>1, LeastMember
<1>8. Min(free) \in free /\ \A e \in free : Min(free) <= e
  BY <1>7 DEF Min
<1>9. Min(free) \in Dests /\ dest[Min(free)] = NoDir /\ Min(free) <= m
  BY <1>6, <1>8
<1>10. 1 \in Dests /\ 1 <= m
  BY <1>1, <1>2 DEF Dests
<1>11. Destination(job[t]) = 1 \/ Destination(job[t]) = Min(free)
  BY DEF Destination, unique_bundle_import_destination
<1>12. job[t].strategy = "rename" => dest[Destination(job[t])] = NoDir
  BY <1>9 DEF Destination, unique_bundle_import_destination
<1>13. Destination(job[t]) \in Dests /\ Destination(job[t]) <= m
  BY <1>9, <1>10, <1>11
<1>14. Destination(job[t]) + p <= jobs + 2
  BY <1>1, <1>2, <1>13 DEF Dests
<1> QED
  BY <1>1, <1>12, <1>13, <1>14 DEF p

\* What the import area keeps beside its files.
RestOK ==
    /\ receipts \in Seq(Receipt)
    /\ origin \in [Dests -> [Files -> 0..MaxJobs]]
    /\ spoiled \subseteq Dests

\* A file of a job under way: the rest of its list, and what it has imported.
LEMMA CopyingFields ==
    ASSUME JobsOK, NEW t \in Threads, job[t].at \in {"copying", "renamed"}
    PROVE  /\ job[t] \in Copying
           /\ job[t].dest \in Dests /\ job[t].n \in 1..MaxJobs
           /\ job[t].todo \in SUBSET Files /\ job[t].imported \in SUBSET Files
           /\ job[t].version \in Versions /\ job[t].strategy \in Strategies
           /\ job[t].todo \cap job[t].imported = {}
           /\ job[t].looked \subseteq job[t].todo /\ ToCopy(t) \subseteq job[t].todo
<1>1. job[t] \in Copying
  BY JobShapes DEF JobsOK
<1> QED
  BY <1>1 DEF Copying, JobsOK, ToCopy

LEMMA RemovingFields ==
    ASSUME JobsOK, NEW t \in Threads, job[t].at = "removing"
    PROVE  /\ job[t] \in Removing
           /\ job[t].dest \in Dests /\ job[t].n \in 1..MaxJobs
           /\ job[t].todo \in SUBSET Files
<1>1. job[t] \in Removing
  BY JobShapes DEF JobsOK
<1> QED
  BY <1>1 DEF Removing

\* The steps of a job with a file: it is skipped, or not found, or copied.
Skipped(j, f) == [j EXCEPT !.todo = @ \ {f}]
Found(j, f)   == [j EXCEPT !.looked = {f}]
Did(j, f)     == [j EXCEPT !.todo = @ \ {f}, !.looked = {}, !.imported = @ \cup {f}]

\* What these steps leave alone.
Same(j, r) == /\ r \in Copying
              /\ r.at = j.at /\ r.strategy = j.strategy
              /\ r.version = j.version /\ r.dest = j.dest /\ r.n = j.n

LEMMA DidFields ==
    ASSUME NEW j \in Copying, NEW f \in Files
    PROVE  /\ Same(j, Did(j, f))
           /\ Did(j, f).todo = j.todo \ {f} /\ Did(j, f).looked = {}
           /\ Did(j, f).imported = j.imported \cup {f}
BY DEF Did, Copying, Same

LEMMA LookFields ==
    ASSUME NEW j \in Copying, NEW f \in Files
    PROVE  /\ Same(j, Skipped(j, f)) /\ Same(j, Found(j, f))
           /\ Skipped(j, f).todo = j.todo \ {f} /\ Found(j, f).todo = j.todo
           /\ Skipped(j, f).looked = j.looked /\ Found(j, f).looked = {f}
           /\ Skipped(j, f).imported = j.imported /\ Found(j, f).imported = j.imported
BY DEF Skipped, Found, Copying, Same

\* A file is looked for.
LEMMA LookDone ==
    ASSUME JobsOK, NEW t \in Threads, ImportLook(t)
    PROVE  /\ job[t] \in Copying /\ job[t].at = "copying" /\ Skips(t) /\ job[t].looked = {}
           /\ \E f \in job[t].todo :
                 /\ f \in Files
                 /\ \/ /\ Exists(job[t].dest, f)
                       /\ job' = [job EXCEPT ![t] = Skipped(job[t], f)]
                    \/ /\ ~Exists(job[t].dest, f)
                       /\ job' = [job EXCEPT ![t] = Found(job[t], f)]
           /\ UNCHANGED <<dest, temp, receipts, origin, spoiled>>
BY CopyingFields DEF ImportLook, Looked, Skipped, Found, importVars

\* A file of the manifest is copied, and imported.
LEMMA FileDone ==
    ASSUME JobsOK, NEW t \in Threads, ImportFile(t)
    PROVE  /\ job[t] \in Copying /\ job[t].at = "copying"
           /\ \E f \in ToCopy(t) :
                 /\ f \in job[t].todo /\ f \in Files
                 /\ Source(f) # Missing
                 /\ Write(t, f, Source(f))
                 /\ job' = [job EXCEPT ![t] = Did(job[t], f)]
                 /\ spoiled' = IF Skips(t) /\ Pursued(job[t].dest, f)
                               THEN spoiled \cup {job[t].dest} ELSE spoiled
<1>1. job[t] \in Copying /\ job[t].at = "copying" /\ ToCopy(t) \subseteq job[t].todo
      /\ job[t].todo \subseteq Files
  BY CopyingFields DEF ImportFile
<1>2. PICK f \in ToCopy(t) :
          /\ Source(f) # Missing
          /\ Write(t, f, Source(f))
          /\ job' = [job EXCEPT ![t].todo = @ \ {f}, ![t].looked = {},
                                ![t].imported = @ \cup {f}]
          /\ spoiled' = IF Skips(t) /\ Pursued(job[t].dest, f)
                        THEN spoiled \cup {job[t].dest} ELSE spoiled
  BY DEF ImportFile
<1>3. job' = [job EXCEPT ![t] = Did(job[t], f)]
  BY <1>1, <1>2 DEF Did, JobsOK
<1> QED
  BY <1>1, <1>2, <1>3

\* An import puts its number at a file.
LEMMA OriginTyped ==
    ASSUME RestOK, NEW d \in Dests, NEW f \in Files, NEW n \in 1..MaxJobs,
           origin' \in {origin, [origin EXCEPT ![d][f] = n]}
    PROVE  origin' \in [Dests -> [Files -> 0..MaxJobs]]
<1>1. MaxJobs \in Nat /\ n \in 0..MaxJobs
  BY BoundsAssumption
<1>2. origin[d] \in [Files -> 0..MaxJobs]
  BY DEF RestOK
<1>3. [origin[d] EXCEPT ![f] = n] \in [Files -> 0..MaxJobs]
  BY <1>1, <1>2
<1> QED
  BY <1>3 DEF RestOK

LEMMA FileTyped ==
    ASSUME TypeOK, NEW t \in Threads, ImportFile(t) \/ ImportLook(t)
    PROVE  JobsOK' /\ RestOK'
<1>0. JobsOK /\ RestOK
  BY DEF TypeOK, RestOK
<1>1. UNCHANGED <<refused, calm, beside, jobs, receipts>>
  BY DEF ImportFile, ImportLook, importVars
<1>2. job[t] \in Copying /\ job[t].dest \in Dests /\ job[t].n \in 1..MaxJobs
      /\ job[t].todo \cap job[t].imported = {} /\ job[t].looked \subseteq job[t].todo
  BY <1>0, CopyingFields DEF ImportFile, ImportLook
<1>3. ASSUME NEW r \in Copying, job' = [job EXCEPT ![t] = r],
             r.todo \cap r.imported = {}, r.looked \subseteq r.todo
      PROVE  JobsOK'
  <2>1. r \in Job
    BY DEF Job
  <2>2. /\ jobs' \in 0..MaxJobs /\ refused' \subseteq Threads /\ calm' \subseteq Threads
        /\ beside' \subseteq Threads
    BY <1>0, <1>1 DEF JobsOK
  <2> QED
    BY <1>0, <1>3, <2>1, <2>2, JobsMove
<1>4. ASSUME ImportLook(t) PROVE JobsOK' /\ RestOK'
  <2>1. PICK f \in job[t].todo : f \in Files
                 /\ \/ job' = [job EXCEPT ![t] = Skipped(job[t], f)]
                    \/ job' = [job EXCEPT ![t] = Found(job[t], f)]
    BY <1>0, <1>4, LookDone
  <2>2. job[t].looked = {} /\ UNCHANGED <<receipts, origin, spoiled>>
    BY <1>0, <1>4, LookDone
  <2>3. /\ Skipped(job[t], f) \in Copying
        /\ Skipped(job[t], f).todo \cap Skipped(job[t], f).imported = {}
        /\ Skipped(job[t], f).looked \subseteq Skipped(job[t], f).todo
    BY <1>2, <2>1, <2>2, LookFields DEF Same
  <2>4. /\ Found(job[t], f) \in Copying
        /\ Found(job[t], f).todo \cap Found(job[t], f).imported = {}
        /\ Found(job[t], f).looked \subseteq Found(job[t], f).todo
    BY <1>2, <2>1, <2>2, LookFields DEF Same
  <2>5. JobsOK'
    BY <1>3, <2>1, <2>3, <2>4
  <2> QED
    BY <1>0, <2>2, <2>5 DEF RestOK
<1>5. ASSUME ImportFile(t) PROVE JobsOK' /\ RestOK'
  <2>1. PICK f \in Files :
           /\ Write(t, f, Source(f))
           /\ job' = [job EXCEPT ![t] = Did(job[t], f)]
           /\ spoiled' \in {spoiled, spoiled \cup {job[t].dest}}
    BY <1>0, <1>5, FileDone
  <2>2. /\ Did(job[t], f) \in Copying
        /\ Did(job[t], f).todo \cap Did(job[t], f).imported = {}
        /\ Did(job[t], f).looked \subseteq Did(job[t], f).todo
    BY <1>2, <2>1, DidFields DEF Same
  <2>3. JobsOK'
    BY <1>3, <2>1, <2>2
  <2>4. origin' \in {origin, [origin EXCEPT ![job[t].dest][f] = job[t].n]}
    BY <2>1 DEF Write
  <2>5. origin' \in [Dests -> [Files -> 0..MaxJobs]]
    BY <1>0, <1>2, <2>4, OriginTyped
  <2> QED
    BY <1>0, <1>1, <1>2, <2>1, <2>3, <2>5 DEF RestOK
<1> QED
  BY <1>4, <1>5

\* The steps of one import keep the types.
LEMMA ImportTyped ==
    ASSUME TypeOK, RoomInv, NEW t \in Threads,
           (\E s \in Strategies : ImportPlan(t, s)) \/ ImportStep(t)
    PROVE  JobsOK' /\ RestOK' /\ stagings' = stagings
<1>0. JobsOK /\ RestOK
  BY DEF TypeOK, RestOK
<1>1. ASSUME NEW s \in Strategies, ImportPlan(t, s)
      PROVE  JobsOK' /\ RestOK' /\ stagings' = stagings
  <2> DEFINE j == [at |-> "planned", strategy |-> s, forced |-> dest[1] # NoDir, n |-> jobs + 1]
  <2>1. Begin(t, j) /\ UNCHANGED <<receipts, origin, stagings>>
    BY <1>1 DEF ImportPlan, stageVars, importVars
  <2>2. jobs < MaxJobs /\ spoiled' \subseteq Dests
    BY <1>0, <1>1, <2>1 DEF Begin, RestOK, ImportPlan, importVars
  <2>3. jobs + 1 \in 1..MaxJobs
    BY <1>0, <2>2, BoundsAssumption DEF JobsOK
  <2>4. j \in Planned /\ j.at = "planned"
    BY <2>3 DEF Planned
  <2>5. j \in Job
    BY <2>4 DEF Job
  <2> HIDE DEF j
  <2> QED
    BY <1>0, <2>1, <2>2, <2>4, <2>5, JobBegins DEF RestOK
<1>2. ASSUME ImportOpen(t)
      PROVE  JobsOK' /\ RestOK' /\ stagings' = stagings
  <2> DEFINE r == Opened(job[t])
  <2>1. /\ job[t].at = "planned" /\ Detected
        /\ job' = [job EXCEPT ![t] = r]
        /\ UNCHANGED <<stagings, receipts, origin, refused, calm, jobs>>
        /\ Meets(t, Destination(job[t]))
    BY <1>2 DEF ImportOpen, stageVars
  <2>2. job[t] \in Planned
    BY <1>0, <2>1, JobShapes DEF JobsOK
  <2>3. job[t].strategy \in Strategies /\ job[t].n \in 1..MaxJobs
    BY <2>2 DEF Planned
  <2>4. staged.version \in Versions
    BY <2>1 DEF TypeOK, DiskOK, Detected
  <2>5. Paths[staged.version] \in SUBSET Files
    BY <2>4, PathsAssumption
  <2>6. Destination(job[t]) \in Dests
    BY <2>1, NameFound
  <2>7. r \in Copying /\ r.imported = {} /\ r.looked = {}
    BY <2>3, <2>4, <2>5, <2>6 DEF Opened, Copying
  <2>8. r \in Job /\ r.todo \cap r.imported = {} /\ r.looked \subseteq r.todo
    BY <2>7 DEF Job
  <2> HIDE DEF r
  <2>10. beside' \subseteq Threads /\ spoiled' \subseteq Dests
    BY <1>0, <2>1, <2>6 DEF Meets, Into, JobsOK, RestOK
  <2>9. JobsOK'
    BY <1>0, <2>1, <2>8, <2>10, JobsMove DEF JobsOK
  <2> QED
    BY <1>0, <2>1, <2>9, <2>10 DEF RestOK
<1>3. ASSUME \/ ImportRefused(t) \/ OpenBreaks(t) \/ SourceGone(t) \/ RenameFails(t)
             \/ ReceiptFails(t)
      PROVE  JobsOK' /\ RestOK' /\ stagings' = stagings
  <2>1. /\ \E how : End(t, how)
        /\ UNCHANGED <<stagings, receipts, origin>>
    BY <1>3 DEF ImportRefused, OpenBreaks, SourceGone, RenameFails, ReceiptFails, stageVars,
                importVars
  <2>2. spoiled' = spoiled \/ (job[t].at \in {"copying", "renamed"}
                               /\ spoiled' \in {spoiled, spoiled \cup {job[t].dest}})
    BY <1>3 DEF ImportRefused, OpenBreaks, SourceGone, RenameFails, ReceiptFails, Spoil,
                importVars, AllWritten
  <2>3. spoiled' \subseteq Dests
    BY <1>0, <2>2, CopyingFields DEF RestOK
  <2> QED
    BY <1>0, <2>1, <2>3, JobEnds DEF RestOK
<1>4. ASSUME CopyBreaks(t)
      PROVE  JobsOK' /\ RestOK' /\ stagings' = stagings
  <2>1. /\ End(t, "broken") /\ job[t].at = "copying"
        /\ UNCHANGED <<stagings, receipts>>
        /\ spoiled' \in {spoiled, spoiled \cup {job[t].dest}}
        /\ \E f \in ToCopy(t) : origin' \in {origin, [origin EXCEPT ![job[t].dest][f] = job[t].n]}
    BY <1>4 DEF CopyBreaks, Spoil, Write, stageVars
  <2>2. job[t].dest \in Dests /\ job[t].n \in 1..MaxJobs /\ ToCopy(t) \subseteq Files
    BY <1>0, <2>1, CopyingFields
  <2>3. origin' \in [Dests -> [Files -> 0..MaxJobs]]
    BY <1>0, <2>1, <2>2, OriginTyped
  <2> QED
    BY <1>0, <2>1, <2>2, <2>3, JobEnds DEF RestOK
<1>5. ASSUME ImportRename(t)
      PROVE  JobsOK' /\ RestOK' /\ stagings' = stagings
  <2> DEFINE r == [job[t] EXCEPT !.at = "renamed"]
  <2>1. /\ job[t].at = "copying" /\ job' = [job EXCEPT ![t] = r]
        /\ origin' = [origin EXCEPT ![job[t].dest] = [f \in Files |-> job[t].n]]
        /\ UNCHANGED <<stagings, receipts, refused, calm, beside, jobs>>
        /\ spoiled' \in {spoiled, spoiled \cup {job[t].dest}}
    BY <1>5 DEF ImportRename, stageVars
  <2>2. job[t] \in Copying /\ job[t].todo \cap job[t].imported = {}
        /\ job[t].looked \subseteq job[t].todo
        /\ job[t].dest \in Dests /\ job[t].n \in 1..MaxJobs
    BY <1>0, <2>1, CopyingFields
  <2>3. r \in Copying /\ r.todo \cap r.imported = {} /\ r.looked \subseteq r.todo
    BY <2>2 DEF Copying
  <2>4. r \in Job
    BY <2>3 DEF Job
  <2>5. origin' \in [Dests -> [Files -> 0..MaxJobs]]
    BY <1>0, <2>1, <2>2 DEF RestOK
  <2> HIDE DEF r
  <2>6. JobsOK'
    BY <1>0, <2>1, <2>3, <2>4, JobsMove DEF JobsOK
  <2> QED
    BY <1>0, <2>1, <2>2, <2>5, <2>6 DEF RestOK
<1>6. ASSUME ImportReceipt(t)
      PROVE  JobsOK' /\ RestOK' /\ stagings' = stagings
  <2> DEFINE r == [dest |-> job[t].dest, imported |-> job[t].imported, n |-> job[t].n]
  <2>1. /\ End(t, "done") /\ job[t].at \in {"copying", "renamed"}
        /\ receipts' = Append(receipts, r)
        /\ UNCHANGED <<stagings, origin, spoiled>>
    BY <1>6 DEF ImportReceipt, AllWritten, stageVars
  <2>2. r \in Receipt
    BY <1>0, <2>1, CopyingFields DEF Receipt
  <2> HIDE DEF r
  <2>3. receipts' \in Seq(Receipt)
    BY <1>0, <2>1, <2>2 DEF RestOK
  <2> QED
    BY <1>0, <2>1, <2>3, JobEnds DEF RestOK
<1> QED
  BY <1>0, <1>1, <1>2, <1>3, <1>4, <1>5, <1>6, FileTyped
     DEF ImportStep, ImportFile, ImportLook, stageVars

\* So do those of a rollback, and of everything else.
LEMMA RollbackTyped ==
    ASSUME TypeOK, NEW t \in Threads, RollbackPlan(t) \/ RollbackStep(t)
    PROVE  JobsOK' /\ RestOK' /\ stagings' = stagings
<1>0. JobsOK /\ RestOK
  BY DEF TypeOK, RestOK
<1>1. ASSUME RollbackPlan(t)
      PROVE  JobsOK' /\ RestOK' /\ stagings' = stagings
  <2> DEFINE r == Last(receipts)
             j == [at |-> "removing", dest |-> r.dest, todo |-> r.imported, n |-> r.n]
  <2>1. /\ receipts # <<>> /\ Begin(t, j)
        /\ UNCHANGED <<stagings, receipts, origin>>
    BY <1>1 DEF RollbackPlan, find_latest_bundle_import_receipt, stageVars
  <2>2. r \in Receipt
    BY <1>0, <2>1 DEF RestOK, Last
  <2>3. j \in Removing /\ j.at = "removing"
    BY <2>2 DEF Receipt, Removing
  <2>4. j \in Job
    BY <2>3 DEF Job
  <2>5. spoiled' \subseteq Dests
    BY <1>0, <1>1, <2>2 DEF RollbackPlan, find_latest_bundle_import_receipt, RestOK, Receipt
  <2> HIDE DEF j
  <2> QED
    BY <1>0, <2>1, <2>3, <2>4, <2>5, JobBegins DEF RestOK
<1>2. ASSUME RollbackFile(t)
      PROVE  JobsOK' /\ RestOK' /\ stagings' = stagings
  <2>1. /\ job[t].at = "removing"
        /\ UNCHANGED <<stagings, receipts, origin, spoiled, refused, calm, beside, jobs>>
        /\ \E f : job' = [job EXCEPT ![t].todo = @ \ {f}]
    BY <1>2 DEF RollbackFile, stageVars
  <2>2. PICK f : job' = [job EXCEPT ![t] = [job[t] EXCEPT !.todo = @ \ {f}]]
    BY <2>1
  <2>3. job[t] \in Removing
    BY <1>0, <2>1, RemovingFields
  <2> DEFINE r == [job[t] EXCEPT !.todo = @ \ {f}]
  <2>4. r \in Removing /\ r.at = "removing"
    BY <2>3 DEF Removing
  <2>5. r \in Job
    BY <2>4 DEF Job
  <2> HIDE DEF r
  <2>6. JobsOK'
    BY <1>0, <2>1, <2>2, <2>4, <2>5, JobsMove DEF JobsOK, r
  <2> QED
    BY <1>0, <2>1, <2>6 DEF RestOK
<1>3. RollbackBreaks(t) \/ RollbackDirectory(t) => JobsOK' /\ RestOK' /\ stagings' = stagings
  BY <1>0, JobEnds DEF RollbackBreaks, RollbackDirectory, stageVars, importVars, RestOK
<1> QED
  BY <1>1, <1>2, <1>3 DEF RollbackStep

LEMMA OtherTyped ==
    ASSUME TypeOK,
           \/ \E k \in Stagers : (\E v \in Versions : StageBegin(k, v)) \/ StageFile(k) \/ StageEnds(k)
           \/ DeleteStaged \/ Crash
    PROVE  JobsOK' /\ RestOK' /\ stagings' \in 0..MaxStagings
<1>0. JobsOK /\ RestOK /\ stagings \in 0..MaxStagings /\ MaxStagings \in Nat
  BY BoundsAssumption DEF TypeOK, RestOK
<1>1. \/ stagings' = stagings
      \/ stagings < MaxStagings /\ stagings' = stagings + 1
  BY DEF StageBegin, StageFile, StageEnds, DeleteStaged, Crash
<1>2. stagings' \in 0..MaxStagings
  BY <1>0, <1>1
<1>3. ASSUME Crash
      PROVE  JobsOK' /\ RestOK'
  <2>1. JobsOK'
    BY <1>0, <1>3 DEF Crash, JobsOK, Job, Idle
  <2>2. UNCHANGED <<receipts, origin>>
        /\ spoiled' \subseteq spoiled \cup
              {job[t].dest : t \in {u \in Threads : job[u].at \in {"copying", "renamed"}}}
    BY <1>3 DEF Crash
  <2>3. spoiled' \subseteq Dests
    BY <1>0, <2>2, CopyingFields DEF RestOK
  <2> QED
    BY <1>0, <2>1, <2>2, <2>3 DEF RestOK
<1>4. ~Crash => UNCHANGED <<job, refused, beside, jobs, receipts, origin, spoiled>> /\ calm' \subseteq calm
  BY DEF StageBegin, StageFile, StageEnds, DeleteStaged, importVars, Disturb
<1> QED
  BY <1>0, <1>2, <1>3, <1>4 DEF JobsOK, RestOK

LEMMA TypeStep ==
    ASSUME TypeOK, RoomInv, [Next]_vars
    PROVE  TypeOK'
<1>1. DiskOK'
  BY StepSafe DEF TypeOK
<1>2. CASE UNCHANGED vars
  BY <1>2 DEF vars, stageVars, importVars, TypeOK, DiskOK, JobsOK
<1>3. CASE Next
  <2>1. JobsOK' /\ RestOK' /\ stagings' \in 0..MaxStagings
    BY <1>3, ImportTyped, RollbackTyped, OtherTyped DEF Next, TypeOK
  <2> QED
    BY <1>1, <2>1 DEF TypeOK, RestOK
<1> QED
  BY <1>2, <1>3

-----------------------------------------------------------------------------
(* Room for every destination.                                              *)

\* A thread goes on with its job, or ends it: it may have made the directory it has in hand.
GoesOn(t) ==
    /\ jobs' = jobs
    /\ \A u \in Threads \ {t} : job'[u] = job[u]
    /\ job'[t].at # "planned"
    /\ job'[t].at \in {"copying", "renamed"} => Holds(t, job'[t].dest)
    /\ \A d \in Dests : dest'[d] # NoDir => dest[d] # NoDir \/ Holds(t, d)

LEMMA RoomShrinks ==
    ASSUME RoomInv, JobsOK, jobs' = jobs, Planning' \subseteq Planning,
           \A d \in Dests : dest'[d] # NoDir => dest[d] # NoDir \/ \E t \in Threads : Holds(t, d),
           \A d \in Dests, t \in Threads : Holds(t, d)' => Holds(t, d)
    PROVE  RoomInv'
<1>1. IsFiniteSet(Planning') /\ Cardinality(Planning') <= Cardinality(Planning)
  BY FS_Subset DEF RoomInv
<1>2. Cardinality(Planning') \in Nat /\ Cardinality(Planning) \in Nat /\ jobs \in Nat
  BY <1>1, FS_CardinalityType DEF RoomInv, JobsOK
<1>3. ASSUME NEW d \in Dests, dest'[d] # NoDir \/ \E t \in Threads : Holds(t, d)'
      PROVE  d + Cardinality(Planning') <= jobs' + 1
  <2>1. dest[d] # NoDir \/ \E t \in Threads : Holds(t, d)
    BY <1>3
  <2>2. d + Cardinality(Planning) <= jobs + 1
    BY <2>1 DEF RoomInv
  <2> QED
    BY <1>1, <1>2, <2>2 DEF Dests
<1>4. Cardinality(Planning') <= jobs'
  BY <1>1, <1>2 DEF RoomInv
<1> QED
  BY <1>1, <1>3, <1>4 DEF RoomInv

LEMMA GoingOnHasRoom ==
    ASSUME RoomInv, JobsOK, NEW t \in Threads, GoesOn(t)
    PROVE  RoomInv'
<1>1. Planning' \subseteq Planning
  BY DEF Planning, GoesOn
<1>2. \A d \in Dests, u \in Threads : Holds(u, d)' => Holds(u, d)
  BY DEF GoesOn, Holds
<1> QED
  BY <1>1, <1>2, RoomShrinks DEF GoesOn

LEMMA EndGoesOn ==
    ASSUME JobsOK, NEW t \in Threads, NEW how, End(t, how),
           \A d \in Dests : dest'[d] # NoDir => dest[d] # NoDir \/ Holds(t, d)
    PROVE  GoesOn(t)
<1>1. job'[t] = Idle /\ \A u \in Threads \ {t} : job'[u] = job[u]
  BY JobMoves DEF End
<1>2. Idle.at = "idle"
  BY DEF Idle
<1> QED
  BY <1>1, <1>2 DEF GoesOn, End

\* One import that is planned more, or one less.
LEMMA PlanningGrows ==
    ASSUME RoomInv, JobsOK, NEW t \in Threads, NEW j, Begin(t, j)
    PROVE  /\ IsFiniteSet(Planning')
           /\ Cardinality(Planning') <= Cardinality(Planning) + 1
           /\ Cardinality(Planning) \in Nat /\ Cardinality(Planning') \in Nat
           /\ jobs' = jobs + 1
           /\ \A u \in Threads \ {t} : job'[u] = job[u]
           /\ job'[t] = j
<1>1. job'[t] = j /\ \A u \in Threads \ {t} : job'[u] = job[u]
  BY JobMoves DEF Begin
<1>2. Planning' \subseteq Planning \cup {t}
  BY <1>1 DEF Planning
<1>3. IsFiniteSet(Planning) /\ IsFiniteSet(Planning \cup {t})
      /\ Cardinality(Planning) \in Nat
      /\ Cardinality(Planning \cup {t}) <= Cardinality(Planning) + 1
  <2>1. IsFiniteSet(Planning) /\ Cardinality(Planning) \in Nat
    BY FS_CardinalityType DEF RoomInv
  <2>2. /\ IsFiniteSet(Planning \cup {t})
        /\ \/ Cardinality(Planning \cup {t}) = Cardinality(Planning)
           \/ Cardinality(Planning \cup {t}) = Cardinality(Planning) + 1
    BY <2>1, FS_AddElement
  <2> QED
    BY <2>1, <2>2
<1>4. IsFiniteSet(Planning') /\ Cardinality(Planning') <= Cardinality(Planning \cup {t})
  BY <1>2, <1>3, FS_Subset
<1>5. Cardinality(Planning') \in Nat /\ Cardinality(Planning \cup {t}) \in Nat
  BY <1>3, <1>4, FS_CardinalityType
<1> QED
  BY <1>1, <1>3, <1>4, <1>5 DEF Begin

LEMMA BeginHasRoom ==
    ASSUME RoomInv, JobsOK, NEW t \in Threads, NEW j, Begin(t, j),
           j.at \in {"planned", "removing"}, dest' = dest
    PROVE  RoomInv'
<1> DEFINE p == Cardinality(Planning)
           q == Cardinality(Planning')
<1>1. /\ IsFiniteSet(Planning') /\ p \in Nat /\ q \in Nat /\ q <= p + 1
      /\ jobs' = jobs + 1 /\ jobs \in Nat
      /\ job'[t] = j /\ \A u \in Threads \ {t} : job'[u] = job[u]
  BY PlanningGrows DEF JobsOK
<1>2. \A d \in Dests, u \in Threads : Holds(u, d)' => Holds(u, d)
  BY <1>1 DEF Holds
<1>3. p <= jobs
  BY DEF RoomInv
<1>4. ASSUME NEW d \in Dests, dest'[d] # NoDir \/ \E u \in Threads : Holds(u, d)'
      PROVE  d + q <= jobs' + 1
  <2>1. d + p <= jobs + 1
    BY <1>2, <1>4 DEF RoomInv
  <2> HIDE DEF p, q
  <2> QED
    BY <1>1, <2>1 DEF Dests
<1>5. q <= jobs'
  <2> HIDE DEF p, q
  <2> QED
    BY <1>1, <1>3
<1> QED
  BY <1>1, <1>4, <1>5 DEF RoomInv

LEMMA OpenHasRoom ==
    ASSUME TypeOK, RoomInv, NEW t \in Threads, ImportOpen(t)
    PROVE  RoomInv'
<1> DEFINE p == Cardinality(Planning)
           q == Cardinality(Planning')
           e == Destination(job[t])
<1>0. JobsOK
  BY DEF TypeOK
<1>1. /\ job[t].at = "planned" /\ jobs' = jobs /\ jobs \in Nat
      /\ job' = [job EXCEPT ![t] = Opened(job[t])]
      /\ \A d \in Dests \ {1} : dest'[d] = dest[d]
  BY DEF ImportOpen, TypeOK, JobsOK, DiskOK
<1>2. job'[t] = Opened(job[t]) /\ \A u \in Threads \ {t} : job'[u] = job[u]
  BY <1>0, <1>1, JobMoves
<1>3. Planning' = Planning \ {t} /\ t \in Planning
  BY <1>1, <1>2 DEF Planning, Opened
<1>4. IsFiniteSet(Planning') /\ q = p - 1 /\ p \in Nat \ {0} /\ q \in Nat
  BY <1>1, <1>3, NameFound, FS_RemoveElement, FS_CardinalityType DEF RoomInv
<1>5. e \in Dests /\ e + p <= jobs + 2
  BY <1>1, NameFound
<1>6. p <= jobs
  BY DEF RoomInv
<1>7. ASSUME NEW d \in Dests, dest'[d] # NoDir \/ \E u \in Threads : Holds(u, d)'
      PROVE  d = 1 \/ d = e \/ d + p <= jobs + 1
  BY <1>1, <1>2, <1>7 DEF Holds, Opened, RoomInv
<1> HIDE DEF p, q, e
<1>8. ASSUME NEW d \in Dests, d = 1 \/ d = e \/ d + p <= jobs + 1
      PROVE  d + q <= jobs + 1
  BY <1>1, <1>4, <1>5, <1>6, <1>8 DEF Dests
<1>9. q <= jobs
  BY <1>1, <1>4, <1>6
<1>10. \A d \in Dests : (dest'[d] # NoDir \/ \E u \in Threads : Holds(u, d)') => d + q <= jobs' + 1
  BY <1>1, <1>7, <1>8
<1> QED
  BY <1>1, <1>4, <1>9, <1>10 DEF RoomInv, q

\* Where Write writes.
LEMMA WriteGoesOn ==
    ASSUME TypeOK, NEW t \in Threads, NEW f, NEW content, Write(t, f, content),
           job[t].at \in {"copying", "renamed"}
    PROVE  \A d \in Dests : dest'[d] # NoDir => dest[d] # NoDir \/ Holds(t, d)
BY DEF Write, TypeOK, DiskOK, Holds

LEMMA StepGoesOn ==
    ASSUME TypeOK, NEW t \in Threads,
           ImportStep(t) \/ RollbackStep(t), ~ImportOpen(t)
    PROVE  GoesOn(t)
<1>0. JobsOK
  BY DEF TypeOK
<1>1. ASSUME ImportFile(t) \/ ImportLook(t) PROVE GoesOn(t)
  <2>1. jobs' = jobs /\ job[t].at = "copying" /\ job[t] \in Copying
    BY <1>0, <1>1, FileDone, LookDone DEF ImportFile, ImportLook
  <2>2. PICK r : job' = [job EXCEPT ![t] = r] /\ Same(job[t], r)
    BY <1>0, <1>1, <2>1, FileDone, DidFields, LookDone, LookFields
  <2>3. job'[t] = r /\ \A u \in Threads \ {t} : job'[u] = job[u]
    BY <1>0, <2>2, JobMoves
  <2>5. job'[t].at = "copying" /\ job'[t].dest = job[t].dest
    BY <2>1, <2>2, <2>3 DEF Same
  <2>6. \A d \in Dests : dest'[d] # NoDir => dest[d] # NoDir \/ Holds(t, d)
    BY <1>0, <1>1, <2>1, FileDone, LookDone, WriteGoesOn
  <2> QED
    BY <2>1, <2>3, <2>5, <2>6 DEF GoesOn, Holds
<1>2. ASSUME CopyBreaks(t) PROVE GoesOn(t)
  <2>1. End(t, "broken") /\ job[t].at = "copying"
        /\ (dest' = dest \/ \E f : Write(t, f, Torn))
    BY <1>2 DEF CopyBreaks
  <2>2. \A d \in Dests : dest'[d] # NoDir => dest[d] # NoDir \/ Holds(t, d)
    BY <2>1, WriteGoesOn
  <2> QED
    BY <1>0, <2>1, <2>2, EndGoesOn
<1>3. ASSUME ImportRename(t) PROVE GoesOn(t)
  <2> DEFINE r == [job[t] EXCEPT !.at = "renamed"]
  <2>1. /\ job[t].at = "copying" /\ jobs' = jobs /\ job' = [job EXCEPT ![t] = r]
        /\ dest' = [dest EXCEPT ![job[t].dest] = temp]
    BY <1>3 DEF ImportRename
  <2>2. job[t] \in Copying
    BY <1>0, <2>1, CopyingFields
  <2>3. r.at = "renamed" /\ r.dest = job[t].dest
    BY <2>2 DEF Copying
  <2> HIDE DEF r
  <2>4. job'[t] = r /\ \A u \in Threads \ {t} : job'[u] = job[u]
    BY <1>0, <2>1, JobMoves
  <2>5. \A d \in Dests : dest'[d] # NoDir => dest[d] # NoDir \/ Holds(t, d)
    BY <2>1 DEF TypeOK, DiskOK, Holds
  <2> QED
    BY <2>1, <2>3, <2>4, <2>5 DEF GoesOn, Holds
<1>4. ASSUME \/ ImportRefused(t) \/ OpenBreaks(t) \/ SourceGone(t) \/ RenameFails(t)
             \/ ImportReceipt(t) \/ ReceiptFails(t) \/ RollbackBreaks(t)
      PROVE  GoesOn(t)
  <2>1. dest' = dest /\ \E how : End(t, how)
    BY <1>4 DEF ImportRefused, OpenBreaks, SourceGone, RenameFails, ImportReceipt,
                ReceiptFails, RollbackBreaks, importVars
  <2> QED
    BY <1>0, <2>1, EndGoesOn
<1>5. ASSUME RollbackFile(t) PROVE GoesOn(t)
  <2>1. /\ job[t].at = "removing" /\ jobs' = jobs
        /\ \E f : /\ job' = [job EXCEPT ![t].todo = @ \ {f}]
                  /\ dest[job[t].dest] # NoDir
                  /\ dest' = [dest EXCEPT ![job[t].dest][f] = Missing]
    BY <1>5 DEF RollbackFile, Exists
  <2>2. PICK f : /\ job' = [job EXCEPT ![t] = [job[t] EXCEPT !.todo = @ \ {f}]]
                 /\ dest[job[t].dest] # NoDir
                 /\ dest' = [dest EXCEPT ![job[t].dest][f] = Missing]
    BY <2>1
  <2> DEFINE r == [job[t] EXCEPT !.todo = @ \ {f}]
  <2>3. r.at = "removing"
    BY <1>0, <2>1, RemovingFields DEF Removing
  <2> HIDE DEF r
  <2>4. job'[t] = r /\ \A u \in Threads \ {t} : job'[u] = job[u]
    BY <1>0, <2>2, JobMoves DEF r
  <2>5. \A d \in Dests : dest'[d] # NoDir => dest[d] # NoDir
    BY <2>2 DEF TypeOK, DiskOK
  <2> QED
    BY <2>1, <2>3, <2>4, <2>5 DEF GoesOn
<1>6. ASSUME RollbackDirectory(t) PROVE GoesOn(t)
  <2>1. \A d \in Dests : dest'[d] # NoDir => dest[d] # NoDir
    BY <1>6 DEF RollbackDirectory, TypeOK, DiskOK
  <2> QED
    BY <1>0, <1>6, <2>1, EndGoesOn DEF RollbackDirectory
<1> QED
  BY <1>1, <1>2, <1>3, <1>4, <1>5, <1>6 DEF ImportStep, RollbackStep

LEMMA RoomStep ==
    ASSUME TypeOK, RoomInv, [Next]_vars
    PROVE  RoomInv'
<1>0. JobsOK
  BY DEF TypeOK
<1>1. CASE UNCHANGED vars
  BY <1>1 DEF vars, stageVars, importVars, RoomInv, Planning, Holds
<1>2. ASSUME NEW t \in Threads, ImportStep(t) \/ RollbackStep(t)
      PROVE  RoomInv'
  BY <1>0, <1>2, StepGoesOn, GoingOnHasRoom, OpenHasRoom
<1>3. ASSUME NEW t \in Threads, (\E s \in Strategies : ImportPlan(t, s)) \/ RollbackPlan(t)
      PROVE  RoomInv'
  <2>1. dest' = dest
    BY <1>3 DEF ImportPlan, RollbackPlan, importVars
  <2>2. ASSUME NEW s \in Strategies, ImportPlan(t, s)
        PROVE  \E j : Begin(t, j) /\ j.at \in {"planned", "removing"}
    <3> DEFINE j == [at |-> "planned", strategy |-> s, forced |-> dest[1] # NoDir, n |-> jobs + 1]
    <3>1. Begin(t, j) /\ j.at = "planned"
      BY <2>2 DEF ImportPlan
    <3> QED BY <3>1
  <2>3. ASSUME RollbackPlan(t)
        PROVE  \E j : Begin(t, j) /\ j.at \in {"planned", "removing"}
    <3> DEFINE r == find_latest_bundle_import_receipt
               j == [at |-> "removing", dest |-> r.dest, todo |-> r.imported, n |-> r.n]
    <3>1. Begin(t, j) /\ j.at = "removing"
      BY <2>3 DEF RollbackPlan
    <3> QED BY <3>1
  <2> QED
    BY <1>0, <1>3, <2>1, <2>2, <2>3, BeginHasRoom
<1>4. ASSUME \/ \E k \in Stagers : \/ \E v \in Versions : StageBegin(k, v)
                                   \/ StageFile(k) \/ StageEnds(k)
             \/ DeleteStaged
      PROVE  RoomInv'
  <2>1. UNCHANGED <<dest, job, jobs>>
    BY <1>4 DEF StageBegin, StageFile, StageEnds, DeleteStaged, importVars
  <2> QED
    BY <2>1 DEF RoomInv, Planning, Holds
<1>5. ASSUME Crash PROVE RoomInv'
  <2>1. UNCHANGED <<dest, jobs>> /\ \A t \in Threads : job'[t] = Idle
    BY <1>5 DEF Crash
  <2>2. Planning' = {} /\ \A d \in Dests, t \in Threads : ~Holds(t, d)'
    BY <2>1 DEF Planning, Holds, Idle
  <2> QED
    BY <1>0, <2>1, <2>2, RoomShrinks
<1> QED
  BY <1>1, <1>2, <1>3, <1>4, <1>5 DEF Next

BundleTypes == TypeOK /\ RoomInv

LEMMA BundleStart == Init => BundleTypes
<1> SUFFICES ASSUME Init PROVE BundleTypes
  OBVIOUS
<1>1. JobsOK
  BY BoundsAssumption DEF Init, JobsOK, Job, Idle
<1>2. TypeOK
  BY <1>1, DiskStart, BoundsAssumption DEF Init, TypeOK
<1>3. Planning = {} /\ \A d \in Dests : dest[d] = NoDir /\ \A t \in Threads : ~Holds(t, d)
  BY DEF Init, Planning, Holds, Idle
<1>4. IsFiniteSet(Planning) /\ Cardinality(Planning) = 0 /\ jobs = 0
  BY <1>3, FS_EmptySet DEF Init
<1> QED
  BY <1>2, <1>3, <1>4 DEF BundleTypes, RoomInv

\* Disk, jobs, receipts, origins and counters keep their types; in particular every import under
\* the rename strategy finds a name that is free (import.rs: unique_bundle_import_destination).
THEOREM BundleTypeCorrect == Spec => []TypeOK
<1>1. Init => BundleTypes
  BY BundleStart
<1>2. BundleTypes /\ [Next]_vars => BundleTypes'
  BY TypeStep, RoomStep DEF BundleTypes
<1> QED
  BY <1>1, <1>2, PTL DEF Spec, BundleTypes

-----------------------------------------------------------------------------
(* What was looked for is not there when it is copied.                      *)

\* Two imports under way into one destination have met.
Met(t, u, d) ==
    t # u /\ t \in Into(d) /\ u \in Into(d) => t \in beside /\ u \in beside /\ d \in spoiled

\* What an import looked for, that has met no other one, is not at its destination.
Unfound(t) ==
    job[t].at = "copying" /\ Skips(t) /\ t \notin beside =>
        \A f \in job[t].looked : ~Exists(job[t].dest, f)

LookInv ==
    /\ \A d \in Dests, t, u \in Threads : Met(t, u, d)
    /\ \A t \in Threads : Unfound(t)

\* A thread whose job goes on towards where it went, or ends, meets nobody.
LEMMA MetStays ==
    ASSUME LookInv, NEW t \in Threads,
           \A u \in Threads \ {t} : job'[u] = job[u],
           \A d \in Dests : t \in Into(d)' => t \in Into(d) /\ (t \in beside => t \in beside'),
           beside \ {t} \subseteq beside', spoiled \subseteq spoiled'
    PROVE  \A d \in Dests, u, w \in Threads : Met(u, w, d)'
<1> SUFFICES ASSUME NEW d \in Dests, NEW u \in Threads, NEW w \in Threads,
                    u # w, u \in Into(d)', w \in Into(d)'
             PROVE  u \in beside' /\ w \in beside' /\ d \in spoiled'
  BY DEF Met
<1>1. u \in Into(d) /\ w \in Into(d)
  BY DEF Into
<1>2. u \in beside /\ w \in beside /\ d \in spoiled
  BY <1>1 DEF LookInv, Met
<1> QED
  BY <1>2

\* So does an import that writes nothing new, or only where it goes to itself.
LEMMA UnfoundStays ==
    ASSUME LookInv, JobsOK, NEW t \in Threads,
           \A u \in Threads \ {t} : job'[u] = job[u] /\ (u \in beside => u \in beside'),
           \A d \in Dests, f \in Files : Exists(d, f)' => Exists(d, f) \/ t \in Into(d),
           Unfound(t)'
    PROVE  \A u \in Threads : Unfound(u)'
<1> SUFFICES ASSUME NEW u \in Threads \ {t}, job[u].at = "copying", Skips(u), u \notin beside',
                    NEW f \in job[u].looked, Exists(job[u].dest, f)'
             PROVE  FALSE
  BY DEF Unfound, Skips
<1>1. job[u].dest \in Dests /\ f \in Files
  BY CopyingFields
<1>2. u \notin beside /\ ~Exists(job[u].dest, f)
  BY DEF LookInv, Unfound
<1>3. t \in Into(job[u].dest) /\ u \in Into(job[u].dest)
  BY <1>1, <1>2 DEF Into
<1> QED
  BY <1>1, <1>2, <1>3 DEF LookInv, Met

\* A job ends.
LEMMA LookEnds ==
    ASSUME LookInv, JobsOK, NEW t \in Threads, NEW how, End(t, how),
           \A d \in Dests, f \in Files : Exists(d, f)' => Exists(d, f) \/ t \in Into(d),
           spoiled \subseteq spoiled'
    PROVE  LookInv'
<1>1. job'[t] = Idle /\ \A u \in Threads \ {t} : job'[u] = job[u]
  BY JobMoves DEF End
<1>2. beside' = beside \ {t}
  BY DEF End
<1>3. Unfound(t)' /\ \A d \in Dests : t \notin Into(d)'
  BY <1>1 DEF Unfound, Into, Idle
<1> QED
  BY <1>1, <1>2, <1>3, MetStays, UnfoundStays DEF LookInv

LEMMA LookBegins ==
    ASSUME LookInv, JobsOK, NEW t \in Threads, NEW j, Begin(t, j),
           j.at \in {"planned", "removing"}, dest' = dest, spoiled \subseteq spoiled'
    PROVE  LookInv'
<1>1. job'[t] = j /\ \A u \in Threads \ {t} : job'[u] = job[u]
  BY JobMoves DEF Begin
<1>2. beside' = beside \ {t}
  BY DEF Begin
<1>3. Unfound(t)' /\ \A d \in Dests : t \notin Into(d)'
  BY <1>1 DEF Unfound, Into
<1>4. \A d \in Dests, f \in Files : Exists(d, f)' => Exists(d, f)
  BY DEF Exists
<1> QED
  BY <1>1, <1>2, <1>3, <1>4, MetStays, UnfoundStays DEF LookInv

\* The step at which two imports meet.
LEMMA OpenLooks ==
    ASSUME TypeOK, RoomInv, LookInv, NEW t \in Threads, ImportOpen(t)
    PROVE  LookInv'
<1> DEFINE e == Destination(job[t])
           r == Opened(job[t])
<1>0. JobsOK /\ DiskOK
  BY DEF TypeOK
<1>1. /\ job[t].at = "planned" /\ job' = [job EXCEPT ![t] = r] /\ Meets(t, e)
      /\ dest' \in {dest, [dest EXCEPT ![1] = IF dest[1] = NoDir THEN Empty ELSE dest[1]]}
  BY DEF ImportOpen
<1>2. r.dest = e /\ r.looked = {} /\ r.at = "copying"
  BY DEF Opened
<1> HIDE DEF r, e
<1>3. job'[t] = r /\ \A u \in Threads \ {t} : job'[u] = job[u]
  BY <1>0, <1>1, JobMoves
<1>4. beside \subseteq beside' /\ spoiled \subseteq spoiled'
  BY <1>1 DEF Meets
<1>5. ASSUME NEW d \in Dests, NEW u \in Threads, NEW w \in Threads,
             u # w, u \in Into(d)', w \in Into(d)'
      PROVE  u \in beside' /\ w \in beside' /\ d \in spoiled'
  <2>1. CASE u # t /\ w # t
    <3>1. u \in Into(d) /\ w \in Into(d)
      BY <1>3, <1>5, <2>1 DEF Into
    <3> QED
      BY <1>4, <1>5, <3>1 DEF LookInv, Met
  <2>2. CASE u = t \/ w = t
    <3>1. d = e /\ \A x \in {u, w} \ {t} : x \in Into(d)
      BY <1>2, <1>3, <1>5, <2>2 DEF Into
    <3>2. Into(e) # {}
      BY <1>5, <2>2, <3>1
    <3>3. beside' = beside \cup Into(e) \cup {t} /\ spoiled' = spoiled \cup {e}
      BY <1>1, <3>2 DEF Meets
    <3> QED
      BY <3>1, <3>3
  <2> QED
    BY <2>1, <2>2
<1>6. \A d \in Dests, f \in Files : Exists(d, f)' => Exists(d, f)
  BY <1>0, <1>1 DEF Exists, Empty, DiskOK
<1>7. Unfound(t)'
  BY <1>2, <1>3 DEF Unfound
<1>8. \A u \in Threads : Unfound(u)'
  BY <1>0, <1>3, <1>4, <1>6, <1>7, UnfoundStays
<1> QED
  BY <1>5, <1>8 DEF LookInv, Met

LEMMA FileLooks ==
    ASSUME TypeOK, LookInv, NEW t \in Threads, ImportLook(t) \/ ImportFile(t)
    PROVE  LookInv'
<1>0. JobsOK /\ DiskOK
  BY DEF TypeOK
<1>1. job[t] \in Copying /\ job[t].at = "copying" /\ beside' = beside /\ spoiled \subseteq spoiled'
  BY <1>0, LookDone, FileDone DEF ImportLook, ImportFile, importVars
<1>2. PICK r : /\ job' = [job EXCEPT ![t] = r] /\ Same(job[t], r)
               /\ \/ dest' = dest /\ \A f \in r.looked : ~Exists(job[t].dest, f)
                  \/ r.looked = {}
  BY <1>0, LookDone, LookFields, FileDone, DidFields
<1>3. job'[t] = r /\ \A u \in Threads \ {t} : job'[u] = job[u]
  BY <1>0, <1>2, JobMoves
<1>4. \A d \in Dests : t \in Into(d)' <=> t \in Into(d)
  BY <1>1, <1>2, <1>3 DEF Same, Into
<1>5. \A d \in Dests, f \in Files : Exists(d, f)' => Exists(d, f) \/ t \in Into(d)
  <2>1. CASE dest' = dest
    BY <2>1 DEF Exists
  <2>2. CASE \E f : Write(t, f, Source(f))
    BY <1>0, <1>1, <2>2 DEF Write, DiskOK, Exists, Into
  <2> QED
    BY <1>0, <2>1, <2>2, LookDone, FileDone
<1>6. Unfound(t)'
  BY <1>2, <1>3 DEF Same, Unfound, Exists
<1> QED
  BY <1>0, <1>1, <1>3, <1>4, <1>5, <1>6, MetStays, UnfoundStays DEF LookInv

LEMMA RenameLooks ==
    ASSUME TypeOK, LookInv, NEW t \in Threads, ImportRename(t)
    PROVE  LookInv'
<1> DEFINE r == [job[t] EXCEPT !.at = "renamed"]
<1>0. JobsOK /\ DiskOK
  BY DEF TypeOK
<1>1. /\ job[t].at = "copying" /\ job' = [job EXCEPT ![t] = r]
      /\ dest' = [dest EXCEPT ![job[t].dest] = temp]
      /\ beside' = beside /\ spoiled \subseteq spoiled'
  BY DEF ImportRename
<1>2. r.at = "renamed" /\ r.dest = job[t].dest
  BY <1>0, <1>1, CopyingFields DEF Copying
<1> HIDE DEF r
<1>3. job'[t] = r /\ \A u \in Threads \ {t} : job'[u] = job[u]
  BY <1>0, <1>1, JobMoves
<1>4. (\A d \in Dests : t \in Into(d)' <=> t \in Into(d)) /\ Unfound(t)'
  BY <1>1, <1>2, <1>3 DEF Into, Unfound
<1>5. \A d \in Dests, f \in Files : Exists(d, f)' => Exists(d, f) \/ t \in Into(d)
  BY <1>0, <1>1 DEF Exists, DiskOK, Into
<1> QED
  BY <1>0, <1>1, <1>3, <1>4, <1>5, MetStays, UnfoundStays DEF LookInv

LEMMA RollbackFileLooks ==
    ASSUME TypeOK, LookInv, NEW t \in Threads, RollbackFile(t)
    PROVE  LookInv'
<1>0. JobsOK /\ DiskOK
  BY DEF TypeOK
<1>1. /\ job[t].at = "removing" /\ beside' = beside /\ spoiled' = spoiled
      /\ \E f : /\ job' = [job EXCEPT ![t] = [job[t] EXCEPT !.todo = @ \ {f}]]
                /\ dest[job[t].dest] # NoDir
                /\ dest' = [dest EXCEPT ![job[t].dest][f] = Missing]
  BY DEF RollbackFile, Exists
<1>2. PICK f : /\ job' = [job EXCEPT ![t] = [job[t] EXCEPT !.todo = @ \ {f}]]
               /\ dest[job[t].dest] # NoDir
               /\ dest' = [dest EXCEPT ![job[t].dest][f] = Missing]
  BY <1>1
<1> DEFINE r == [job[t] EXCEPT !.todo = @ \ {f}]
<1>3. r.at = "removing"
  BY <1>0, <1>1, RemovingFields DEF Removing
<1>4. job' = [job EXCEPT ![t] = r]
  BY <1>2
<1> HIDE DEF r
<1>5. job'[t] = r /\ \A u \in Threads \ {t} : job'[u] = job[u]
  BY <1>0, <1>4, JobMoves
<1>6. (\A d \in Dests : t \notin Into(d)') /\ Unfound(t)'
  BY <1>3, <1>5 DEF Into, Unfound
<1>7. \A d \in Dests, g \in Files : Exists(d, g)' => Exists(d, g)
  BY <1>0, <1>2 DEF DiskOK, Directory, Exists
<1> QED
  BY <1>0, <1>1, <1>5, <1>6, <1>7, MetStays, UnfoundStays DEF LookInv

LEMMA LookStep ==
    ASSUME TypeOK, RoomInv, LookInv, [Next]_vars
    PROVE  LookInv'
<1>0. JobsOK /\ DiskOK
  BY DEF TypeOK
<1>1. CASE UNCHANGED <<dest, job, beside, spoiled>>
  BY <1>1 DEF LookInv, Met, Unfound, Into, Skips, Exists
<1>2. ASSUME NEW t \in Threads,
             \/ ImportRefused(t) \/ OpenBreaks(t) \/ SourceGone(t) \/ RenameFails(t)
             \/ ImportReceipt(t) \/ ReceiptFails(t) \/ RollbackBreaks(t)
      PROVE  LookInv'
  <2>1. (\E how : End(t, how)) /\ dest' = dest /\ spoiled \subseteq spoiled'
    BY <1>2 DEF ImportRefused, OpenBreaks, SourceGone, RenameFails, ImportReceipt, ReceiptFails,
                RollbackBreaks, Spoil, importVars
  <2>2. \A d \in Dests, f \in Files : Exists(d, f)' => Exists(d, f)
    BY <2>1 DEF Exists
  <2> QED
    BY <1>0, <2>1, <2>2, LookEnds
<1>3. ASSUME NEW t \in Threads, CopyBreaks(t)
      PROVE  LookInv'
  <2>1. /\ job[t].at = "copying" /\ End(t, "broken") /\ spoiled \subseteq spoiled'
        /\ dest' = dest \/ \E f : Write(t, f, Torn)
    BY <1>3 DEF CopyBreaks, Spoil
  <2>2. \A d \in Dests, f \in Files : Exists(d, f)' => Exists(d, f) \/ t \in Into(d)
    BY <1>0, <2>1 DEF Write, DiskOK, Exists, Into
  <2> QED
    BY <1>0, <2>1, <2>2, LookEnds
<1>4. ASSUME NEW t \in Threads, RollbackDirectory(t)
      PROVE  LookInv'
  <2>1. /\ End(t, "done") /\ spoiled' = spoiled
        /\ dest' = [dest EXCEPT ![job[t].dest] = IF @ = Empty THEN NoDir ELSE @]
    BY <1>4 DEF RollbackDirectory
  <2>2. \A d \in Dests, f \in Files : Exists(d, f)' => Exists(d, f)
    BY <1>0, <2>1 DEF DiskOK, Exists
  <2> QED
    BY <1>0, <2>1, <2>2, LookEnds
<1>5. ASSUME NEW t \in Threads, ImportStep(t) \/ RollbackStep(t)
      PROVE  LookInv'
  BY <1>2, <1>3, <1>4, <1>5, OpenLooks, FileLooks, RenameLooks, RollbackFileLooks
     DEF ImportStep, RollbackStep
<1>6. ASSUME NEW t \in Threads, NEW s \in Strategies, ImportPlan(t, s)
      PROVE  LookInv'
  <2> DEFINE j == [at |-> "planned", strategy |-> s, forced |-> dest[1] # NoDir, n |-> jobs + 1]
  <2>1. Begin(t, j) /\ j.at = "planned" /\ UNCHANGED <<dest, spoiled>>
    BY <1>6 DEF ImportPlan, importVars
  <2> HIDE DEF j
  <2> QED
    BY <1>0, <2>1, LookBegins
<1>7. ASSUME NEW t \in Threads, RollbackPlan(t)
      PROVE  LookInv'
  <2> DEFINE r == find_latest_bundle_import_receipt
             j == [at |-> "removing", dest |-> r.dest, todo |-> r.imported, n |-> r.n]
  <2>1. Begin(t, j) /\ j.at = "removing" /\ dest' = dest /\ spoiled \subseteq spoiled'
    BY <1>7 DEF RollbackPlan
  <2> HIDE DEF j
  <2> QED
    BY <1>0, <2>1, LookBegins
<1>8. ASSUME \/ \E k \in Stagers : \/ \E v \in Versions : StageBegin(k, v)
                                   \/ StageFile(k) \/ StageEnds(k)
             \/ DeleteStaged \/ UNCHANGED vars
      PROVE  LookInv'
  <2>1. UNCHANGED <<dest, job, beside, spoiled>>
    BY <1>8 DEF StageBegin, StageFile, StageEnds, DeleteStaged, vars, importVars
  <2> QED
    BY <1>1, <2>1
<1>9. ASSUME Crash PROVE LookInv'
  <2>1. \A t \in Threads : job'[t] = Idle
    BY <1>9 DEF Crash
  <2> QED
    BY <2>1 DEF LookInv, Met, Unfound, Into, Idle
<1> QED
  BY <1>5, <1>6, <1>7, <1>8, <1>9 DEF Next

MetBundleInv == TypeOK /\ RoomInv /\ LookInv

LEMMA MetStart == Init => MetBundleInv
<1> SUFFICES ASSUME Init PROVE LookInv
  BY BundleStart DEF MetBundleInv, BundleTypes
<1> QED
  BY DEF Init, LookInv, Met, Unfound, Into, Idle

LEMMA MetAlways == Spec => []MetBundleInv
<1>1. MetBundleInv /\ [Next]_vars => MetBundleInv'
  BY TypeStep, RoomStep, LookStep DEF MetBundleInv
<1> QED
  BY <1>1, MetStart, PTL DEF Spec

\* Who overwrites a file is not alone in its destination.
Overwrites ==
    \A d \in Dests, f \in Files :
        (/\ Exists(d, f)
         /\ dest'[d] # NoDir
         /\ dest'[d][f] \notin {dest[d][f], Missing}) => Into(d) \cap beside # {}

\* An import overwrites no file that is at a destination, whichever strategy, whoever imports
\* into other destinations or rolls back at the same time, and wherever the process died, unless
\* it has met another import in that destination (import.rs 105-136).
THEOREM NothingOverwritten == Spec => ImportNeverOverwrites
<1>1. MetBundleInv /\ [Next]_vars => [Overwrites]_vars
  <2> SUFFICES ASSUME MetBundleInv, Kept PROVE Overwrites
    BY StepSafe DEF MetBundleInv, TypeOK
  <2> SUFFICES ASSUME NEW d \in Dests, NEW f \in Files, Exists(d, f), Overwriter(d, f)
               PROVE  Into(d) \cap beside # {}
    BY DEF Kept, Overwrites
  <2>1. PICK t \in Threads : /\ job[t].at = "copying" /\ Skips(t)
                             /\ job[t].dest = d /\ f \in job[t].looked
    BY DEF Overwriter
  <2>2. t \in beside
    BY <2>1 DEF MetBundleInv, LookInv, Unfound
  <2>3. t \in Into(d)
    BY <2>1 DEF Into
  <2> QED
    BY <2>2, <2>3
<1>2. Overwrites <=> \A d \in Dests, f \in Files :
          (/\ Exists(d, f)
           /\ dest'[d] # NoDir
           /\ dest'[d][f] \notin {dest[d][f], Missing}) => Into(d) \cap beside # {}
  BY DEF Overwrites
<1> QED
  BY <1>1, <1>2, MetAlways, PTL DEF Spec, ImportNeverOverwrites

-----------------------------------------------------------------------------
(* A job that nothing disturbs.                                             *)

\* What its import has written, and what it has found.
CopiedSkipping(t) ==
    LET v == job[t].version  d == job[t].dest IN
    /\ dest[d] # NoDir
    /\ \A f \in Paths[v] \ job[t].todo : Exists(d, f)
    /\ \A f \in job[t].imported : dest[d][f] = v

CopiedAside(t) ==
    LET v == job[t].version IN
    /\ dest[job[t].dest] = NoDir
    /\ job[t].imported = Paths[v] \ job[t].todo
    /\ temp = [f \in Files |-> IF f \in job[t].imported THEN v ELSE Missing]

Undisturbed(t) ==
    /\ job[t] # Idle => /\ \A u \in Threads \ {t} : job[u] = Idle
                        /\ \A k \in Stagers : stager[k] = Idle
    /\ job[t].at = "planned" => /\ Detected
                                /\ job[t].strategy = "reject" => dest[1] = NoDir
    /\ job[t].at = "copying" => /\ Detected /\ staged.version = job[t].version
                                /\ job[t].todo \subseteq Paths[job[t].version]
                                /\ IF Skips(t) THEN CopiedSkipping(t) ELSE CopiedAside(t)
    /\ job[t].at = "renamed" => /\ ~Skips(t)
                                /\ dest[job[t].dest] = Whole(job[t].version)

CalmInv == \A t \in calm : t \notin refused /\ Undisturbed(t)

\* A thread without a job has nothing to be disturbed in.
LEMMA IdleUndisturbed ==
    ASSUME NEW t, job[t] = Idle
    PROVE  Undisturbed(t)
BY DEF Undisturbed, Idle

\* A thread whose job goes on is the only one that could have been calm with a job.
LEMMA CalmOthers ==
    ASSUME JobsOK, CalmInv, NEW t \in Threads, job[t] # Idle,
           \A u \in Threads \ {t} : job'[u] = job[u],
           calm' \subseteq calm, refused' \subseteq refused \cup {t},
           t \in calm' => t \notin refused' /\ Undisturbed(t)'
    PROVE  CalmInv'
<1>1. ASSUME NEW u \in calm', u # t
      PROVE  u \notin refused' /\ Undisturbed(u)'
  <2>1. u \in calm /\ u \in Threads /\ u \notin refused /\ Undisturbed(u)
    BY <1>1 DEF CalmInv, JobsOK
  <2>2. job[u] = Idle
    BY <1>1, <2>1 DEF Undisturbed
  <2>3. job'[u] = Idle
    BY <1>1, <2>1, <2>2
  <2> QED
    BY <1>1, <2>1, <2>3, IdleUndisturbed DEF Undisturbed, Idle
<1> QED
  BY <1>1 DEF CalmInv

\* A job that ends well, or with an error of the disk, is calm no more.
LEMMA CalmEnds ==
    ASSUME JobsOK, CalmInv, NEW t \in Threads, NEW how, End(t, how), job[t] # Idle,
           how = "refused" => t \notin calm
    PROVE  CalmInv'
<1>1. \A u \in Threads \ {t} : job'[u] = job[u]
  BY JobMoves DEF End
<1>2. calm' \subseteq calm /\ t \notin calm' /\ refused' \subseteq refused \cup {t}
  BY DEF End
<1> QED
  BY <1>1, <1>2, CalmOthers

LEMMA CalmBegins ==
    ASSUME JobsOK, CalmInv, NEW t \in Threads, NEW j, Begin(t, j),
           UNCHANGED <<staged, stager, dest>>,
           \/ j.at = "removing"
           \/ j.at = "planned" /\ Detected /\ (j.strategy = "reject" => dest[1] = NoDir)
    PROVE  CalmInv'
<1>1. job'[t] = j /\ \A u \in Threads \ {t} : job'[u] = job[u]
  BY JobMoves DEF Begin
<1>2. ASSUME NEW u \in calm'
      PROVE  u \notin refused' /\ Undisturbed(u)'
  <2>1. u = t /\ Alone /\ \A k \in Stagers : stager[k] = Idle
    BY <1>2 DEF Begin
  <2>2. u \notin refused'
    BY <2>1 DEF Begin
  <2>3. \A w \in Threads \ {t} : job'[w] = Idle
    BY <1>1, <2>1 DEF Alone
  <2>4. j.at = "planned" => Detected'
    BY DEF Detected
  <2> QED
    BY <1>1, <2>1, <2>2, <2>3, <2>4 DEF Undisturbed
<1> QED
  BY <1>2 DEF CalmInv

LEMMA OpenCalm ==
    ASSUME TypeOK, RoomInv, CalmInv, NEW t \in Threads, ImportOpen(t)
    PROVE  CalmInv'
<1> DEFINE r == Opened(job[t])
           v == staged.version
<1>0. JobsOK /\ DiskOK
  BY DEF TypeOK
<1>1. /\ job[t].at = "planned" /\ Detected /\ job' = [job EXCEPT ![t] = r]
      /\ job[t].strategy = "reject" => dest[1] = NoDir
      /\ UNCHANGED <<staged, stager, refused, calm>>
  BY DEF ImportOpen, stageVars
<1>2. job'[t] = r /\ \A u \in Threads \ {t} : job'[u] = job[u]
  BY <1>0, <1>1, JobMoves
<1>3. r.at = "copying" /\ r.version = v /\ r.todo = Paths[v] /\ r.imported = {}
      /\ r.dest = Destination(job[t]) /\ r.strategy = job[t].strategy
  BY DEF Opened
<1>4. job[t].strategy \in Strategies
  BY <1>0, <1>1, JobShapes DEF JobsOK, Planned
<1>5. job[t] # Idle
  BY <1>1 DEF Idle
<1>6. Empty \in Directory /\ Empty # NoDir
  BY NoneAssumption DEF Empty, Directory
<1>7. 1 \in Dests
  BY BoundsAssumption DEF Dests
<1> HIDE DEF r
<1>8. ASSUME t \in calm
      PROVE  t \notin refused' /\ Undisturbed(t)'
  <2>1. t \notin refused /\ Undisturbed(t)
    BY <1>8 DEF CalmInv
  <2>2. /\ \A u \in Threads \ {t} : job'[u] = Idle
        /\ \A k \in Stagers : stager'[k] = Idle
    BY <1>1, <1>2, <1>5, <2>1 DEF Undisturbed
  <2>3. Detected' /\ staged'.version = job'[t].version
        /\ job'[t].todo \subseteq Paths[job'[t].version]
    BY <1>1, <1>2, <1>3 DEF Detected
  <2>4. CASE job[t].strategy = "skip_conflicts"
    <3>1. dest' = [dest EXCEPT ![1] = IF @ = NoDir THEN Empty ELSE @]
          /\ Destination(job[t]) = 1
      BY <2>4 DEF ImportOpen, Destination
    <3>2. dest'[1] # NoDir
      BY <1>0, <1>6, <1>7, <3>1 DEF DiskOK
    <3>3. job'[t].dest = 1 /\ job'[t].imported = {} /\ job'[t].todo = Paths[job'[t].version]
      BY <1>2, <1>3, <3>1
    <3>4. Skips(t)' /\ CopiedSkipping(t)'
      BY <1>2, <1>3, <2>4, <3>2, <3>3 DEF Skips, CopiedSkipping
    <3> QED
      BY <1>1, <1>2, <1>3, <2>1, <2>2, <2>3, <3>4 DEF Undisturbed
  <2>5. CASE job[t].strategy # "skip_conflicts"
    <3>1. dest' = dest /\ temp' = Empty
      BY <2>5 DEF ImportOpen
    <3>2. dest[Destination(job[t])] = NoDir
      <4>1. CASE job[t].strategy = "rename"
        BY <1>1, <4>1, NameFound
      <4>2. CASE job[t].strategy = "reject"
        BY <1>1, <4>2 DEF Destination
      <4> QED
        BY <1>4, <2>5, <4>1, <4>2 DEF Strategies
    <3>3. temp' = [f \in Files |-> IF f \in job'[t].imported THEN job'[t].version ELSE Missing]
      BY <1>2, <1>3, <3>1 DEF Empty
    <3>4. ~Skips(t)' /\ CopiedAside(t)'
      BY <1>2, <1>3, <2>5, <3>1, <3>2, <3>3 DEF Skips, CopiedAside
    <3> QED
      BY <1>1, <1>2, <1>3, <2>1, <2>2, <2>3, <3>4 DEF Undisturbed
  <2> QED
    BY <2>4, <2>5
<1> QED
  BY <1>0, <1>1, <1>2, <1>5, <1>8, CalmOthers

\* The staged copy of what is left to do is the staged version's.
LEMMA CalmSource ==
    ASSUME TypeOK, CalmInv, NEW t \in calm, job[t].at = "copying", NEW f \in job[t].todo
    PROVE  Source(f) = job[t].version /\ Source(f) # Missing
<1>1. JobsOK /\ t \in Threads
  BY DEF TypeOK, JobsOK
<1>2. f \in Files /\ job[t].version \in Versions
  BY <1>1, CopyingFields
<1>3. Detected /\ staged.version = job[t].version /\ f \in Paths[job[t].version]
  BY DEF CalmInv, Undisturbed
<1> QED
  BY <1>2, <1>3, NoneAssumption DEF Detected, Source

\* A directory with one file written has that file.
LEMMA WithHas ==
    ASSUME NEW dir \in Directory \cup {NoDir}, NEW f \in Files, NEW content
    PROVE  With(dir, f, content)[f] = content
BY DEF With, Directory, Empty

LEMMA LookCalm ==
    ASSUME TypeOK, CalmInv, NEW t \in Threads, ImportLook(t)
    PROVE  CalmInv'
<1> DEFINE j == job[t]
           v == job[t].version
           d == job[t].dest
<1>0. JobsOK
  BY DEF TypeOK
<1>1. /\ j \in Copying /\ j.at = "copying" /\ Skips(t)
      /\ UNCHANGED <<staged, stager, dest, refused, calm>>
  BY <1>0, LookDone DEF ImportLook, stageVars
<1>2. PICK f \in j.todo :
         /\ f \in Files
         /\ \/ Exists(d, f) /\ job' = [job EXCEPT ![t] = Skipped(j, f)]
            \/ job' = [job EXCEPT ![t] = Found(j, f)]
  BY <1>0, LookDone
<1>3. PICK r : /\ job' = [job EXCEPT ![t] = r] /\ Same(j, r)
               /\ r.imported = j.imported
               /\ \/ Exists(d, f) /\ r.todo = j.todo \ {f}
                  \/ r.todo = j.todo
  BY <1>1, <1>2, LookFields
<1>4. job'[t] = r /\ \A u \in Threads \ {t} : job'[u] = job[u]
  BY <1>0, <1>3, JobMoves
<1>5. /\ job'[t].at = "copying" /\ job'[t].strategy = j.strategy
      /\ job'[t].version = v /\ job'[t].dest = d
  BY <1>1, <1>3, <1>4 DEF Same
<1>6. ASSUME t \in calm
      PROVE  t \notin refused' /\ Undisturbed(t)'
  <2>1. t \notin refused /\ Undisturbed(t)
    BY <1>6 DEF CalmInv
  <2>2. /\ \A u \in Threads \ {t} : job'[u] = Idle
        /\ \A k \in Stagers : stager'[k] = Idle
    BY <1>1, <1>4, <2>1 DEF Undisturbed, Idle
  <2>3. Detected' /\ staged'.version = job'[t].version
        /\ job'[t].todo \subseteq Paths[job'[t].version]
    BY <1>1, <1>3, <1>4, <1>5, <2>1 DEF Detected, Undisturbed
  <2>4. CopiedSkipping(t)
    BY <1>1, <2>1 DEF Undisturbed
  <2>5. CopiedSkipping(t)'
    BY <1>1, <1>3, <1>4, <1>5, <2>4 DEF CopiedSkipping, Exists
  <2>6. Skips(t)'
    BY <1>1, <1>5 DEF Skips
  <2> QED
    BY <1>1, <1>5, <2>1, <2>2, <2>3, <2>5, <2>6 DEF Undisturbed
<1> QED
  BY <1>0, <1>1, <1>4, <1>6, CalmOthers DEF Idle

LEMMA FileCalm ==
    ASSUME TypeOK, CalmInv, NEW t \in Threads, ImportFile(t)
    PROVE  CalmInv'
<1> DEFINE j == job[t]
           v == job[t].version
           d == job[t].dest
<1>0. JobsOK /\ DiskOK
  BY DEF TypeOK
<1>1. /\ j \in Copying /\ j.at = "copying" /\ d \in Dests /\ v \in Versions
      /\ j.todo \in SUBSET Files /\ j.imported \in SUBSET Files
      /\ UNCHANGED <<staged, stager, refused, calm>>
  BY <1>0, FileDone, CopyingFields DEF ImportFile, stageVars
<1>2. PICK f \in j.todo :
         /\ f \in Files
         /\ Write(t, f, Source(f))
         /\ job' = [job EXCEPT ![t] = Did(j, f)]
  BY <1>0, FileDone
<1>4. /\ job'[t] = Did(j, f)
      /\ \A u \in Threads \ {t} : job'[u] = job[u]
  BY <1>0, <1>2, JobMoves
<1>5. /\ job'[t].at = "copying" /\ job'[t].strategy = j.strategy
      /\ job'[t].version = v /\ job'[t].dest = d
      /\ job'[t].todo = j.todo \ {f} /\ job'[t].imported = j.imported \cup {f}
  BY <1>1, <1>2, <1>4, DidFields DEF Same
<1>6. Skips(t)' <=> Skips(t)
  BY <1>5 DEF Skips
<1>7. ASSUME t \in calm
      PROVE  t \notin refused' /\ Undisturbed(t)'
  <2>1. t \notin refused /\ Undisturbed(t)
    BY <1>7 DEF CalmInv
  <2>2. /\ \A u \in Threads \ {t} : job'[u] = Idle
        /\ \A k \in Stagers : stager'[k] = Idle
    BY <1>1, <1>4, <2>1 DEF Undisturbed, Idle
  <2>3. Detected' /\ staged'.version = job'[t].version
        /\ job'[t].todo \subseteq Paths[job'[t].version]
    BY <1>1, <1>5, <2>1 DEF Detected, Undisturbed
  <2>4. Source(f) = v /\ v # Missing /\ f \in Files
    BY <1>1, <1>2, <1>7, CalmSource
  <2>5. Write(t, f, v)
    BY <1>2, <2>4
  <2>6. CASE Skips(t)
    <3>1. dest' = [dest EXCEPT ![d] = With(dest[d], f, v)] /\ CopiedSkipping(t)
      BY <1>1, <2>1, <2>5, <2>6 DEF Write, Undisturbed
    <3>2. dest'[d] = With(dest[d], f, v) /\ dest[d] \in Directory /\ dest[d] # NoDir
      BY <1>0, <1>1, <3>1 DEF DiskOK, CopiedSkipping
    <3>3. dest'[d][f] = v /\ \A g \in Files \ {f} : dest'[d][g] = dest[d][g]
      BY <2>4, <3>2, WithHas, WithKeeps
    <3>4. dest'[d] # NoDir
      BY <1>1, <2>4, <3>2, WithTyped, NoneAssumption DEF Directory
    <3>5. \A g \in Paths[v] \ job'[t].todo : dest'[d][g] # Missing
      <4>1. Paths[v] \in SUBSET Files
        BY <1>1, PathsAssumption
      <4> QED
        BY <1>5, <2>4, <3>1, <3>3, <4>1 DEF CopiedSkipping, Exists
    <3>6. \A g \in job'[t].imported : dest'[d][g] = v
      BY <1>1, <1>5, <3>1, <3>3 DEF CopiedSkipping
    <3>7. CopiedSkipping(t)'
      BY <1>5, <3>4, <3>5, <3>6 DEF CopiedSkipping, Exists
    <3> QED
      BY <1>1, <1>5, <1>6, <2>1, <2>2, <2>3, <2>6, <3>7 DEF Undisturbed
  <2>7. CASE ~Skips(t)
    <3>1. temp' = With(temp, f, v) /\ dest' = dest /\ CopiedAside(t)
      BY <1>1, <2>1, <2>5, <2>7 DEF Write, Undisturbed
    <3>2. temp = [g \in Files |-> IF g \in j.imported THEN v ELSE Missing]
      BY <3>1 DEF CopiedAside
    <3>3. temp \in Directory /\ temp # NoDir
      <4>1. temp \in Directory
        BY <1>1, <3>2 DEF Directory
      <4> QED BY <4>1, NoneAssumption DEF Directory
    <3>4. temp' = [g \in Files |-> IF g \in j.imported \cup {f} THEN v ELSE Missing]
      BY <2>4, <3>1, <3>2, <3>3 DEF With
    <3>5. j.imported \cup {f} = Paths[v] \ (j.todo \ {f})
      BY <2>1, <1>1, <3>1 DEF CopiedAside, Undisturbed
    <3>6. CopiedAside(t)'
      BY <1>5, <3>1, <3>4, <3>5 DEF CopiedAside
    <3> QED
      BY <1>1, <1>5, <1>6, <2>1, <2>2, <2>3, <2>7, <3>6 DEF Undisturbed
  <2> QED
    BY <2>6, <2>7
<1> QED
  BY <1>0, <1>1, <1>4, <1>7, CalmOthers DEF Idle

LEMMA RenameCalm ==
    ASSUME TypeOK, CalmInv, NEW t \in Threads, ImportRename(t)
    PROVE  CalmInv'
<1> DEFINE d == job[t].dest
           v == job[t].version
           r == [job[t] EXCEPT !.at = "renamed"]
<1>0. JobsOK /\ DiskOK
  BY DEF TypeOK
<1>1. /\ job[t].at = "copying" /\ ~Skips(t) /\ job[t].todo = {}
      /\ job' = [job EXCEPT ![t] = r] /\ dest' = [dest EXCEPT ![d] = temp]
      /\ UNCHANGED <<staged, stager, refused, calm>>
  BY DEF ImportRename, stageVars
<1>2. job[t] \in Copying /\ d \in Dests
  BY <1>0, <1>1, CopyingFields
<1>3. r.at = "renamed" /\ r.strategy = job[t].strategy /\ r.dest = d /\ r.version = v
  BY <1>2 DEF Copying
<1> HIDE DEF r
<1>4. job'[t] = r /\ \A u \in Threads \ {t} : job'[u] = job[u]
  BY <1>0, <1>1, JobMoves
<1>5. ASSUME t \in calm
      PROVE  t \notin refused' /\ Undisturbed(t)'
  <2>1. t \notin refused /\ Undisturbed(t)
    BY <1>5 DEF CalmInv
  <2>2. /\ \A u \in Threads \ {t} : job'[u] = Idle
        /\ \A k \in Stagers : stager'[k] = Idle
    BY <1>1, <1>4, <2>1 DEF Undisturbed, Idle
  <2>3. CopiedAside(t)
    BY <1>1, <2>1 DEF Undisturbed
  <2>4. temp = Whole(v)
    BY <1>1, <2>3 DEF CopiedAside, Whole
  <2>5. dest'[d] = Whole(v)
    BY <1>0, <1>1, <1>2, <2>4 DEF DiskOK
  <2>6. ~Skips(t)'
    BY <1>1, <1>3, <1>4 DEF Skips
  <2> QED
    BY <1>1, <1>3, <1>4, <2>1, <2>2, <2>5, <2>6 DEF Undisturbed
<1> QED
  BY <1>0, <1>1, <1>4, <1>5, CalmOthers DEF Idle

\* Nothing refuses a calm import: the staged bundle, its files and its place are as they were.
LEMMA RefusalCalm ==
    ASSUME TypeOK, CalmInv, NEW t \in Threads,
           ImportRefused(t) \/ SourceGone(t) \/ RenameFails(t)
    PROVE  CalmInv'
<1>0. JobsOK
  BY DEF TypeOK
<1>1. ASSUME ImportRefused(t) PROVE t \notin calm /\ job[t] # Idle /\ End(t, "refused")
  BY <1>1 DEF ImportRefused, CalmInv, Undisturbed, Idle
<1>2. ASSUME SourceGone(t) PROVE t \notin calm /\ job[t] # Idle /\ End(t, "refused")
  BY <1>0, <1>2, CalmSource, CopyingFields DEF SourceGone, Idle
<1>3. ASSUME RenameFails(t), t \in calm PROVE CanRename(t)
  <2>1. CopiedAside(t) /\ job[t].at = "copying"
    BY <1>3 DEF RenameFails, CalmInv, Undisturbed
  <2>2. job[t].version \in Versions
    BY <1>0, <2>1, CopyingFields
  <2>3. temp \in Directory
    BY <2>1, <2>2 DEF CopiedAside, Directory
  <2> QED
    BY <2>1, <2>3, NoneAssumption DEF CanRename, CopiedAside, Directory
<1>4. RenameFails(t) => job[t] # Idle
  BY DEF RenameFails, Idle
<1>5. RenameFails(t) => End(t, IF CanRename(t) THEN "broken" ELSE "refused")
  BY DEF RenameFails
<1> QED
  BY <1>0, <1>1, <1>2, <1>3, <1>4, <1>5, CalmEnds

LEMMA RollbackFileCalm ==
    ASSUME TypeOK, CalmInv, NEW t \in Threads, RollbackFile(t)
    PROVE  CalmInv'
<1>0. JobsOK
  BY DEF TypeOK
<1>1. /\ job[t].at = "removing" /\ UNCHANGED <<stager, refused, calm>>
      /\ \E f : job' = [job EXCEPT ![t] = [job[t] EXCEPT !.todo = @ \ {f}]]
  BY DEF RollbackFile, stageVars
<1>2. job[t] \in Removing /\ job[t] # Idle
  BY <1>0, <1>1, RemovingFields DEF Idle
<1>3. job'[t].at = "removing" /\ \A u \in Threads \ {t} : job'[u] = job[u]
  <2>1. PICK f : job' = [job EXCEPT ![t] = [job[t] EXCEPT !.todo = @ \ {f}]]
    BY <1>1
  <2>2. [job[t] EXCEPT !.todo = @ \ {f}].at = "removing"
    BY <1>1, <1>2 DEF Removing
  <2> QED
    BY <1>0, <2>1, <2>2, JobMoves
<1>4. ASSUME t \in calm
      PROVE  t \notin refused' /\ Undisturbed(t)'
  BY <1>1, <1>2, <1>3, <1>4 DEF CalmInv, Undisturbed
<1> QED
  BY <1>0, <1>1, <1>2, <1>3, <1>4, CalmOthers

LEMMA CalmStep ==
    ASSUME TypeOK, RoomInv, CalmInv, [Next]_vars
    PROVE  CalmInv'
<1>0. JobsOK
  BY DEF TypeOK
<1>1. CASE UNCHANGED vars
  BY <1>1 DEF vars, stageVars, importVars, CalmInv, Undisturbed, CopiedSkipping, CopiedAside,
              Skips, Exists, Detected
<1>2. ASSUME NEW t \in Threads,
             \/ OpenBreaks(t) \/ CopyBreaks(t) \/ ImportReceipt(t) \/ ReceiptFails(t)
             \/ RollbackBreaks(t) \/ RollbackDirectory(t)
      PROVE  CalmInv'
  <2>1. job[t].at # "idle" /\ (End(t, "broken") \/ End(t, "done"))
    BY <1>2 DEF OpenBreaks, CopyBreaks, ImportReceipt, ReceiptFails, RollbackBreaks,
                RollbackDirectory, AllWritten
  <2> QED
    BY <1>0, <2>1, CalmEnds DEF Idle
<1>3. ASSUME NEW t \in Threads, ImportStep(t) \/ RollbackStep(t)
      PROVE  CalmInv'
  BY <1>2, <1>3, OpenCalm, LookCalm, FileCalm, RenameCalm, RefusalCalm, RollbackFileCalm
     DEF ImportStep, RollbackStep
<1>4. ASSUME NEW t \in Threads, NEW s \in Strategies, ImportPlan(t, s)
      PROVE  CalmInv'
  <2> DEFINE j == [at |-> "planned", strategy |-> s, forced |-> dest[1] # NoDir, n |-> jobs + 1]
  <2>1. /\ Begin(t, j) /\ Detected /\ (s = "reject" => dest[1] = NoDir)
        /\ j.at = "planned" /\ j.strategy = s
        /\ UNCHANGED <<staged, stager, dest>>
    BY <1>4 DEF ImportPlan, stageVars, importVars
  <2> HIDE DEF j
  <2> QED
    BY <1>0, <2>1, CalmBegins
<1>5. ASSUME NEW t \in Threads, RollbackPlan(t)
      PROVE  CalmInv'
  <2> DEFINE r == find_latest_bundle_import_receipt
             j == [at |-> "removing", dest |-> r.dest, todo |-> r.imported, n |-> r.n]
  <2>1. Begin(t, j) /\ j.at = "removing" /\ UNCHANGED <<staged, stager, dest>>
    BY <1>5 DEF RollbackPlan, stageVars
  <2> HIDE DEF j
  <2> QED
    BY <1>0, <2>1, CalmBegins
<1>6. ASSUME \/ \E k \in Stagers : (\E v \in Versions : StageBegin(k, v)) \/ StageFile(k)
             \/ DeleteStaged \/ Crash
      PROVE  CalmInv'
  <2>1. calm' = {}
    BY <1>6 DEF StageBegin, StageFile, DeleteStaged, Crash, Disturb
  <2> QED
    BY <2>1 DEF CalmInv
<1>7. ASSUME NEW k \in Stagers, StageEnds(k)
      PROVE  CalmInv'
  <2>1. /\ stager[k] # Idle
        /\ UNCHANGED <<staged, dest, temp, job, refused, calm>>
    BY <1>7 DEF StageEnds, importVars
  <2>2. ASSUME NEW t \in calm' PROVE t \notin refused' /\ Undisturbed(t)'
    <3>1. t \in calm /\ t \notin refused /\ Undisturbed(t)
      BY <2>1, <2>2 DEF CalmInv
    <3>2. job[t] = Idle
      BY <2>1, <3>1 DEF Undisturbed
    <3> QED
      BY <2>1, <3>1, <3>2, IdleUndisturbed DEF Undisturbed, Idle
  <2> QED
    BY <2>2 DEF CalmInv
<1> QED
  BY <1>1, <1>3, <1>4, <1>5, <1>6, <1>7 DEF Next

CalmBundleInv == TypeOK /\ RoomInv /\ CalmInv

LEMMA CalmStart == Init => CalmInv
BY DEF Init, CalmInv

LEMMA CalmAlways == Spec => []CalmBundleInv
<1>1. Init => CalmBundleInv
  BY BundleStart, CalmStart DEF CalmBundleInv, BundleTypes
<1>2. CalmBundleInv /\ [Next]_vars => CalmBundleInv'
  BY TypeStep, RoomStep, CalmStep DEF CalmBundleInv
<1> QED
  BY <1>1, <1>2, PTL DEF Spec

\* An import that was planned, that runs alone and whose staged bundle nobody touches, fails
\* only when the disk does: not because of what broken imports, rollbacks and crashes left
\* (import.rs: the temporary directory is removed, a free name is looked for).
THEOREM HealthyImports == Spec => []HealthyImportSucceeds
<1>1. CalmBundleInv => HealthyImportSucceeds
  BY DEF CalmBundleInv, CalmInv, HealthyImportSucceeds
<1> QED
  BY <1>1, CalmAlways, PTL

\* A calm import reports what is there.
Honest == \A t \in Threads : (Reports(t) /\ t \in calm) => Complete(t)

\* What such an import reports is at its destination, whatever was left there or in the
\* temporary directory (import.rs, rollback.rs: the receipt is written last).
THEOREM ReportedImportsAreComplete == Spec => ImportIsComplete
<1>1. ASSUME CalmBundleInv, NEW t \in Threads, AllWritten(t), t \in calm
      PROVE  Complete(t)
  <2>1. Undisturbed(t)
    BY <1>1 DEF CalmBundleInv, CalmInv
  <2>2. CASE job[t].at = "renamed"
    BY <2>1, <2>2 DEF Undisturbed, Complete
  <2>3. CASE job[t].at = "copying" /\ Skips(t) /\ job[t].todo = {}
    BY <2>1, <2>3 DEF Undisturbed, CopiedSkipping, Complete
  <2> QED
    BY <1>1, <2>2, <2>3 DEF AllWritten
<1>2. CalmBundleInv /\ [Next]_vars => [Honest]_vars
  <2> SUFFICES ASSUME CalmBundleInv PROVE Honest
    OBVIOUS
  <2> QED
    BY <1>1 DEF Reports, Honest
<1>3. Honest <=> \A t \in Threads : (Reports(t) /\ t \in calm) => Complete(t)
  BY DEF Honest
<1> QED
  BY <1>2, <1>3, CalmAlways, PTL DEF Spec, ImportIsComplete

-----------------------------------------------------------------------------
(* Whose files a rollback removes.                                          *)

\* The files a job has still to remove are those of its receipt.
RemovesOwn(t, d) ==
    job[t].at = "removing" /\ job[t].dest = d =>
        \A f \in job[t].todo : Exists(d, f) => origin[d][f] = job[t].n

\* An import has put a file at its destination.
Wrote(t, d, f) ==
    /\ job[t].dest = d
    /\ \/ job[t].at = "renamed"
       \/ job[t].at = "copying" /\ Skips(t) /\ f \in job[t].imported

Importing(t) == job[t].at \in {"copying", "renamed"}

ImportedOwn(t, d) ==
    Importing(t) => \A f \in Files : Wrote(t, d, f) => origin[d][f] = job[t].n

\* The latest receipt names its own files, and those an import under way has put there since.
ReceiptOwn(d) ==
    receipts # <<>> /\ Last(receipts).dest = d =>
        \A f \in Last(receipts).imported :
            Exists(d, f) => \/ origin[d][f] = Last(receipts).n
                            \/ \E u \in Threads : /\ Importing(u) /\ Wrote(u, d, f)
                                                  /\ origin[d][f] = job[u].n

OwnAt(d) == /\ \A t \in Threads : RemovesOwn(t, d) /\ ImportedOwn(t, d)
            /\ ReceiptOwn(d)

OwnInv == \A d \in Dests \ spoiled : OwnAt(d)

LEMMA ReceiptsName ==
    ASSUME TypeOK, receipts # <<>>
    PROVE  Last(receipts) \in Receipt /\ Last(receipts).imported \subseteq Files
<1>1. Last(receipts) \in Receipt
  BY DEF TypeOK, Last
<1> QED
  BY <1>1 DEF Receipt

\* A job goes on or ends, and puts no file there: what it has in hand stays its own, and what it
\* has put there is still in its hands.
LEMMA OwnStays ==
    ASSUME TypeOK, NEW d \in Dests, OwnAt(d), NEW t \in Threads,
           receipts' = receipts, origin'[d] = origin[d],
           \A f \in Files : Exists(d, f)' => Exists(d, f),
           \A u \in Threads \ {t} : job'[u] = job[u],
           RemovesOwn(t, d)', ImportedOwn(t, d)',
           \A f \in Files : Importing(t) /\ Wrote(t, d, f) =>
               Importing(t)' /\ Wrote(t, d, f)' /\ job'[t].n = job[t].n
    PROVE  OwnAt(d)'
<1>1. ASSUME NEW u \in Threads \ {t} PROVE RemovesOwn(u, d)' /\ ImportedOwn(u, d)'
  <2>1. job[u].at = "removing" => job[u].todo \subseteq Files
    BY RemovingFields DEF TypeOK
  <2>2. RemovesOwn(u, d) /\ ImportedOwn(u, d) /\ job'[u] = job[u]
    BY DEF OwnAt
  <2>3. RemovesOwn(u, d)'
    BY <2>1, <2>2 DEF RemovesOwn
  <2>4. ImportedOwn(u, d)'
    BY <2>2 DEF ImportedOwn, Importing, Wrote, Skips
  <2> QED
    BY <2>3, <2>4
<1>2. ReceiptOwn(d)'
  <2> SUFFICES ASSUME receipts # <<>>, Last(receipts).dest = d,
                      NEW f \in Last(receipts).imported, Exists(d, f)',
                      origin[d][f] # Last(receipts).n
               PROVE  \E u \in Threads : /\ Importing(u)' /\ Wrote(u, d, f)'
                                         /\ origin[d][f] = job'[u].n
    BY DEF ReceiptOwn
  <2>1. f \in Files /\ Exists(d, f)
    BY ReceiptsName
  <2>2. PICK u \in Threads : Importing(u) /\ Wrote(u, d, f) /\ origin[d][f] = job[u].n
    BY <2>1 DEF OwnAt, ReceiptOwn
  <2>3. CASE u = t
    BY <2>1, <2>2, <2>3
  <2>4. CASE u # t
    <3>1. job'[u] = job[u]
      BY <2>4
    <3> QED
      BY <2>2, <3>1 DEF Importing, Wrote, Skips
  <2> QED
    BY <2>3, <2>4
<1> QED
  BY <1>1, <1>2 DEF OwnAt

\* An import puts files there that no rollback has to remove, being the only one that does.
LEMMA OwnWrites ==
    ASSUME TypeOK, LookInv, NEW d \in Dests, OwnAt(d), d \notin spoiled, NEW t \in Threads,
           NEW new \in SUBSET Files, Importing(t), job[t].dest = d,
           receipts' = receipts,
           \A f \in Files \ new : origin'[d][f] = origin[d][f],
           \A f \in Files \ new : Exists(d, f)' => Exists(d, f),
           \A f \in new : ~Pursued(d, f),
           \A f \in new : Wrote(t, d, f)' /\ origin'[d][f] = job[t].n,
           \A u \in Threads \ {t} : job'[u] = job[u],
           Importing(t)', job'[t].n = job[t].n, job'[t].dest = d,
           \A f \in Files \ new : Wrote(t, d, f)' <=> Wrote(t, d, f)
    PROVE  OwnAt(d)'
<1>1. ASSUME NEW u \in Threads \ {t} PROVE RemovesOwn(u, d)' /\ ImportedOwn(u, d)'
  <2>1. RemovesOwn(u, d) /\ job'[u] = job[u]
    BY DEF OwnAt
  <2>2. ASSUME job[u].at = "removing", job[u].dest = d, NEW f \in job[u].todo, Exists(d, f)'
        PROVE  origin'[d][f] = job[u].n
    <3>1. f \in Files
      BY <2>2, RemovingFields DEF TypeOK
    <3>2. f \notin new
      BY <2>2 DEF Pursued
    <3> QED
      BY <2>1, <2>2, <3>1, <3>2 DEF RemovesOwn
  <2>3. ~(Importing(u) /\ job[u].dest = d)
    BY DEF LookInv, Met, Into, Importing
  <2>4. RemovesOwn(u, d)'
    BY <2>1, <2>2 DEF RemovesOwn
  <2>5. ImportedOwn(u, d)'
    BY <2>1, <2>3 DEF ImportedOwn, Importing, Wrote
  <2> QED
    BY <2>4, <2>5
<1>2. RemovesOwn(t, d)'
  BY DEF Importing, RemovesOwn
<1>3. ImportedOwn(t, d)'
  <2>1. ImportedOwn(t, d)
    BY DEF OwnAt
  <2> QED
    BY <2>1 DEF ImportedOwn
<1>4. ReceiptOwn(d)'
  <2> SUFFICES ASSUME receipts # <<>>, Last(receipts).dest = d,
                      NEW f \in Last(receipts).imported, Exists(d, f)',
                      origin'[d][f] # Last(receipts).n
               PROVE  \E u \in Threads : /\ Importing(u)' /\ Wrote(u, d, f)'
                                         /\ origin'[d][f] = job'[u].n
    BY DEF ReceiptOwn
  <2>1. f \in Files
    BY ReceiptsName
  <2>2. CASE f \in new
    BY <2>2
  <2>3. CASE f \notin new
    <3>1. PICK u \in Threads : Importing(u) /\ Wrote(u, d, f) /\ origin[d][f] = job[u].n
      BY <2>1, <2>3 DEF OwnAt, ReceiptOwn
    <3>2. u = t
      BY <3>1 DEF LookInv, Met, Into, Importing, Wrote
    <3> QED
      BY <2>1, <2>3, <3>1, <3>2
  <2> QED
    BY <2>2, <2>3
<1> QED
  BY <1>1, <1>2, <1>3, <1>4 DEF OwnAt

\* A job ends without a receipt, and has put no file where others did not.
LEMMA OwnEnds ==
    ASSUME TypeOK, OwnInv, NEW t \in Threads, NEW how, End(t, how),
           receipts' = receipts, spoiled \subseteq spoiled',
           \A d \in Dests \ spoiled' :
              /\ origin'[d] = origin[d]
              /\ \A f \in Files : (Exists(d, f)' => Exists(d, f)) /\ ~(Importing(t) /\ Wrote(t, d, f))
    PROVE  OwnInv'
<1>1. job'[t] = Idle /\ \A u \in Threads \ {t} : job'[u] = job[u]
  BY JobMoves DEF End, TypeOK
<1>2. ASSUME NEW d \in Dests \ spoiled' PROVE OwnAt(d)'
  <2>1. OwnAt(d)
    BY DEF OwnInv
  <2>2. RemovesOwn(t, d)' /\ ImportedOwn(t, d)'
    BY <1>1 DEF RemovesOwn, ImportedOwn, Importing, Idle
  <2> QED
    BY <1>1, <2>1, <2>2, OwnStays
<1> QED
  BY <1>2 DEF OwnInv

LEMMA OpenOwns ==
    ASSUME TypeOK, OwnInv, NEW t \in Threads, ImportOpen(t)
    PROVE  OwnInv'
<1> DEFINE r == Opened(job[t])
<1>1. /\ job[t].at = "planned" /\ job' = [job EXCEPT ![t] = r]
      /\ UNCHANGED <<receipts, origin>> /\ spoiled \subseteq spoiled'
      /\ dest' \in {dest, [dest EXCEPT ![1] = IF dest[1] = NoDir THEN Empty ELSE dest[1]]}
  BY DEF ImportOpen, Meets
<1>2. r.at = "copying" /\ r.imported = {}
  BY DEF Opened
<1> HIDE DEF r
<1>3. job'[t] = r /\ \A u \in Threads \ {t} : job'[u] = job[u]
  BY <1>1, JobMoves DEF TypeOK
<1>4. ASSUME NEW d \in Dests \ spoiled'
      PROVE  OwnAt(d)'
  <2>1. OwnAt(d) /\ ~Importing(t)
    BY <1>1 DEF OwnInv, Importing
  <2>2. RemovesOwn(t, d)' /\ ImportedOwn(t, d)'
    BY <1>2, <1>3 DEF RemovesOwn, ImportedOwn, Wrote
  <2>3. \A f \in Files : Exists(d, f)' => Exists(d, f)
    BY <1>1 DEF Exists, Empty, TypeOK, DiskOK
  <2> QED
    BY <1>1, <1>3, <2>1, <2>2, <2>3, OwnStays
<1> QED
  BY <1>4 DEF OwnInv

LEMMA LookOwns ==
    ASSUME TypeOK, OwnInv, NEW t \in Threads, ImportLook(t)
    PROVE  OwnInv'
<1>0. JobsOK
  BY DEF TypeOK
<1>1. /\ job[t] \in Copying /\ job[t].at = "copying"
      /\ UNCHANGED <<dest, receipts, origin, spoiled>>
  BY <1>0, LookDone
<1>2. PICK r : /\ job' = [job EXCEPT ![t] = r] /\ Same(job[t], r)
               /\ r.imported = job[t].imported
  BY <1>0, LookDone, LookFields
<1>3. job'[t] = r /\ \A u \in Threads \ {t} : job'[u] = job[u]
  BY <1>0, <1>2, JobMoves
<1>4. ASSUME NEW d \in Dests \ spoiled'
      PROVE  OwnAt(d)'
  <2>1. OwnAt(d)
    BY <1>1 DEF OwnInv
  <2>2. /\ Importing(t)' /\ Importing(t) /\ job'[t].n = job[t].n
        /\ \A f : Wrote(t, d, f)' <=> Wrote(t, d, f)
    BY <1>1, <1>2, <1>3 DEF Same, Importing, Wrote, Skips
  <2>3. RemovesOwn(t, d)'
    BY <2>2 DEF RemovesOwn, Importing
  <2>4. ImportedOwn(t, d)'
    BY <1>1, <2>1, <2>2 DEF OwnAt, ImportedOwn
  <2>5. \A f \in Files : Exists(d, f)' => Exists(d, f)
    BY <1>1 DEF Exists
  <2> QED
    BY <1>1, <1>3, <2>1, <2>2, <2>3, <2>4, <2>5, OwnStays
<1> QED
  BY <1>4 DEF OwnInv

LEMMA FileOwns ==
    ASSUME TypeOK, LookInv, OwnInv, NEW t \in Threads, ImportFile(t)
    PROVE  OwnInv'
<1> DEFINE e == job[t].dest
<1>0. JobsOK /\ DiskOK /\ RestOK
  BY DEF TypeOK, RestOK
<1>1. /\ job[t] \in Copying /\ job[t].at = "copying" /\ e \in Dests
      /\ receipts' = receipts
  BY <1>0, FileDone, CopyingFields DEF ImportFile
<1>2. PICK f \in ToCopy(t) :
         /\ f \in Files
         /\ Write(t, f, Source(f))
         /\ job' = [job EXCEPT ![t] = Did(job[t], f)]
         /\ spoiled' = IF Skips(t) /\ Pursued(e, f) THEN spoiled \cup {e} ELSE spoiled
  BY <1>0, FileDone
<1>3. /\ job'[t] = Did(job[t], f)
      /\ \A u \in Threads \ {t} : job'[u] = job[u]
  BY <1>0, <1>2, JobMoves
<1>4. /\ job'[t].at = "copying" /\ job'[t].strategy = job[t].strategy
      /\ job'[t].dest = e /\ job'[t].n = job[t].n
      /\ job'[t].imported = job[t].imported \cup {f}
  BY <1>1, <1>2, <1>3, DidFields DEF Same
<1>5. Skips(t)' <=> Skips(t)
  BY <1>4 DEF Skips
<1>6. Importing(t) /\ Importing(t)'
  BY <1>1, <1>4 DEF Importing
<1>7. ASSUME NEW d \in Dests \ spoiled'
      PROVE  OwnAt(d)'
  <2>1. OwnAt(d) /\ d \in Dests \ spoiled
    BY <1>2 DEF OwnInv
  <2>2. CASE Skips(t) /\ d = e
    <3>1. /\ dest' = [dest EXCEPT ![d] = With(dest[d], f, Source(f))]
          /\ origin' = [origin EXCEPT ![d][f] = job[t].n]
      BY <1>2, <2>2 DEF Write
    <3>2. origin[d] \in [Files -> 0..MaxJobs] /\ origin'[d] = [origin[d] EXCEPT ![f] = job[t].n]
      BY <1>0, <2>1, <3>1 DEF RestOK
    <3>3. origin'[d][f] = job[t].n /\ \A g \in Files \ {f} : origin'[d][g] = origin[d][g]
      BY <1>2, <3>2
    <3>4. dest'[d] = With(dest[d], f, Source(f)) /\ dest[d] \in Directory \cup {NoDir}
      BY <1>0, <2>1, <3>1 DEF DiskOK
    <3>5. \A g \in Files \ {f} : Exists(d, g)' => Exists(d, g)
      BY <3>4 DEF Exists, With, Directory, Empty
    <3>6. ~Pursued(d, f)
      BY <1>2, <1>7, <2>2
    <3>7. Wrote(t, d, f)' /\ \A g \in Files \ {f} : Wrote(t, d, g)' <=> Wrote(t, d, g)
      BY <1>1, <1>4, <1>5, <2>2 DEF Wrote
    <3>8. {f} \in SUBSET Files
      BY <1>2
    <3> QED
      BY <1>1, <1>3, <1>4, <1>6, <2>1, <2>2, <3>3, <3>5, <3>6, <3>7, <3>8, OwnWrites
  <2>3. CASE ~(Skips(t) /\ d = e)
    <3>1. dest'[d] = dest[d] /\ origin'[d] = origin[d]
      BY <1>0, <1>2, <2>1, <2>3 DEF Write, DiskOK, RestOK
    <3>2. \A g : Wrote(t, d, g)' <=> Wrote(t, d, g)
      BY <1>1, <1>4, <1>5, <2>3 DEF Wrote
    <3>3. RemovesOwn(t, d)'
      BY <1>4 DEF RemovesOwn
    <3>4. ImportedOwn(t, d)'
      BY <1>4, <1>6, <2>1, <3>1, <3>2 DEF OwnAt, ImportedOwn
    <3>5. \A g \in Files : Exists(d, g)' => Exists(d, g)
      BY <3>1 DEF Exists
    <3> QED
      BY <1>1, <1>3, <1>4, <1>6, <2>1, <3>1, <3>2, <3>3, <3>4, <3>5, OwnStays
  <2> QED
    BY <2>2, <2>3
<1> QED
  BY <1>7 DEF OwnInv

LEMMA RenameOwns ==
    ASSUME TypeOK, LookInv, OwnInv, NEW t \in Threads, ImportRename(t)
    PROVE  OwnInv'
<1> DEFINE e == job[t].dest
           r == [job[t] EXCEPT !.at = "renamed"]
<1>0. JobsOK /\ DiskOK /\ RestOK
  BY DEF TypeOK, RestOK
<1>1. /\ job[t].at = "copying" /\ ~Skips(t) /\ job' = [job EXCEPT ![t] = r]
      /\ dest' = [dest EXCEPT ![e] = temp]
      /\ origin' = [origin EXCEPT ![e] = [f \in Files |-> job[t].n]]
      /\ receipts' = receipts
      /\ spoiled' = IF \E f \in Files : Pursued(e, f) THEN spoiled \cup {e} ELSE spoiled
  BY DEF ImportRename
<1>2. job[t] \in Copying /\ e \in Dests
  BY <1>0, <1>1, CopyingFields
<1>3. r.at = "renamed" /\ r.dest = e /\ r.n = job[t].n
  BY <1>2 DEF Copying
<1> HIDE DEF r
<1>4. job'[t] = r /\ \A u \in Threads \ {t} : job'[u] = job[u]
  BY <1>0, <1>1, JobMoves
<1>5. Importing(t) /\ Importing(t)'
  BY <1>1, <1>3, <1>4 DEF Importing
<1>6. ASSUME NEW d \in Dests \ spoiled'
      PROVE  OwnAt(d)'
  <2>1. OwnAt(d) /\ d \in Dests \ spoiled
    BY <1>1 DEF OwnInv
  <2>2. CASE d = e
    <3>1. \A f \in Files : origin'[d][f] = job[t].n
      BY <1>0, <1>1, <2>1, <2>2 DEF RestOK
    <3>2. \A f \in Files : ~Pursued(d, f) /\ Wrote(t, d, f)'
      BY <1>1, <1>3, <1>4, <1>6, <2>2 DEF Wrote
    <3>3. Files \in SUBSET Files /\ Files \ Files = {}
      OBVIOUS
    <3> QED
      BY <1>1, <1>3, <1>4, <1>5, <2>1, <2>2, <3>1, <3>2, <3>3, OwnWrites
  <2>3. CASE d # e
    <3>1. dest'[d] = dest[d] /\ origin'[d] = origin[d]
      BY <1>0, <1>1, <2>1, <2>3 DEF DiskOK, RestOK
    <3>2. \A f : ~Wrote(t, d, f) /\ ~Wrote(t, d, f)'
      BY <1>3, <1>4, <2>3 DEF Wrote
    <3>3. RemovesOwn(t, d)' /\ ImportedOwn(t, d)'
      BY <1>3, <1>4, <3>2 DEF RemovesOwn, ImportedOwn
    <3>4. \A f \in Files : Exists(d, f)' => Exists(d, f)
      BY <3>1 DEF Exists
    <3> QED
      BY <1>1, <1>4, <2>1, <3>1, <3>2, <3>3, <3>4, OwnStays
  <2> QED
    BY <2>2, <2>3
<1> QED
  BY <1>6 DEF OwnInv

LEMMA ReceiptOwns ==
    ASSUME TypeOK, OwnInv, NEW t \in Threads, ImportReceipt(t)
    PROVE  OwnInv'
<1> DEFINE e == job[t].dest
           r == [dest |-> e, imported |-> job[t].imported, n |-> job[t].n]
<1>0. JobsOK
  BY DEF TypeOK
<1>1. /\ AllWritten(t) /\ End(t, "done") /\ receipts' = Append(receipts, r)
      /\ UNCHANGED <<dest, origin, spoiled>>
  BY DEF ImportReceipt
<1>2. job'[t] = Idle /\ \A u \in Threads \ {t} : job'[u] = job[u]
  BY <1>0, <1>1, JobMoves DEF End
<1>3. Importing(t) /\ \A f \in job[t].imported : f \in Files /\ Wrote(t, e, f)
  BY <1>0, <1>1, CopyingFields DEF AllWritten, Importing, Wrote
<1>4. r.dest = e /\ r.imported = job[t].imported /\ r.n = job[t].n
  OBVIOUS
<1> HIDE DEF r
<1>5. Last(receipts') = r
  <2>1. receipts \in Seq(Receipt) /\ Len(receipts) \in Nat
    BY DEF TypeOK
  <2> QED
    BY <1>1, <2>1 DEF Last
<1>6. ASSUME NEW d \in Dests \ spoiled'
      PROVE  OwnAt(d)'
  <2>1. OwnAt(d)
    BY <1>1, <1>6 DEF OwnInv
  <2>2. ASSUME NEW u \in Threads PROVE RemovesOwn(u, d)' /\ ImportedOwn(u, d)'
    <3>1. CASE u = t
      BY <1>2, <3>1 DEF RemovesOwn, ImportedOwn, Importing, Idle
    <3>2. CASE u # t
      <4>1. job'[u] = job[u] /\ RemovesOwn(u, d) /\ ImportedOwn(u, d)
        BY <1>2, <2>1, <3>2 DEF OwnAt
      <4> QED
        BY <1>1, <4>1 DEF RemovesOwn, ImportedOwn, Importing, Wrote, Skips, Exists
    <3> QED
      BY <3>1, <3>2
  <2>3. e = d => \A f \in job[t].imported : origin[d][f] = job[t].n
    BY <1>3, <2>1 DEF OwnAt, ImportedOwn
  <2>4. ReceiptOwn(d)'
    BY <1>1, <1>4, <1>5, <2>3 DEF ReceiptOwn
  <2> QED
    BY <2>2, <2>4 DEF OwnAt
<1> QED
  BY <1>6 DEF OwnInv

\* A job begins: a rollback has files to remove that an import under way has not put there.
LEMMA OwnBegins ==
    ASSUME TypeOK, OwnInv, NEW t \in Threads, NEW j, Begin(t, j),
           UNCHANGED <<receipts, origin, dest>>, spoiled \subseteq spoiled',
           \/ j.at = "planned"
           \/ /\ j.at = "removing" /\ receipts # <<>>
              /\ j.dest = Last(receipts).dest /\ j.todo = Last(receipts).imported
              /\ j.n = Last(receipts).n
              /\ j.dest \in spoiled' \/
                    \A u \in Into(j.dest), f \in j.todo : origin[j.dest][f] # job[u].n
    PROVE  OwnInv'
<1>1. job'[t] = j /\ job[t] = Idle /\ \A u \in Threads \ {t} : job'[u] = job[u]
  BY JobMoves DEF Begin, TypeOK
<1>2. ASSUME NEW d \in Dests \ spoiled'
      PROVE  OwnAt(d)'
  <2>1. OwnAt(d)
    BY <1>2 DEF OwnInv
  <2>2. ImportedOwn(t, d)' /\ ~Importing(t)
    BY <1>1 DEF ImportedOwn, Importing, Idle
  <2>3. \A f : Exists(d, f)' <=> Exists(d, f)
    BY DEF Exists
  <2>4. RemovesOwn(t, d)'
    <3> SUFFICES ASSUME j.at = "removing", j.dest = d, NEW f \in j.todo, Exists(d, f)
                 PROVE  origin[d][f] = j.n
      BY <1>1, <2>3 DEF RemovesOwn
    <3>1. \A u \in Threads : Importing(u) /\ Wrote(u, d, f) => u \in Into(d)
      BY DEF Importing, Wrote, Into
    <3>2. \A u \in Into(d) : origin[d][f] # job[u].n
      BY <1>2
    <3> QED
      BY <2>1, <3>1, <3>2 DEF OwnAt, ReceiptOwn
  <2> QED
    BY <1>1, <2>1, <2>2, <2>3, <2>4, OwnStays
<1> QED
  BY <1>2 DEF OwnInv

LEMMA RollbackOwns ==
    ASSUME TypeOK, OwnInv, NEW t \in Threads, RollbackFile(t)
    PROVE  OwnInv'
<1> DEFINE e == job[t].dest
<1>0. JobsOK /\ DiskOK
  BY DEF TypeOK
<1>1. /\ job[t].at = "removing" /\ UNCHANGED <<receipts, origin, spoiled>>
      /\ \E f : /\ job' = [job EXCEPT ![t] = [job[t] EXCEPT !.todo = @ \ {f}]]
                /\ dest' = [dest EXCEPT ![e][f] = Missing]
                /\ dest[e] # NoDir
  BY DEF RollbackFile, Exists
<1>2. PICK f : /\ job' = [job EXCEPT ![t] = [job[t] EXCEPT !.todo = @ \ {f}]]
               /\ dest' = [dest EXCEPT ![e][f] = Missing]
               /\ dest[e] # NoDir
  BY <1>1
<1> DEFINE r == [job[t] EXCEPT !.todo = @ \ {f}]
<1>3. r.at = "removing" /\ r.dest = e /\ r.n = job[t].n /\ r.todo = job[t].todo \ {f}
  BY <1>0, <1>1, RemovingFields DEF Removing
<1>4. job' = [job EXCEPT ![t] = r]
  BY <1>2
<1>5. e \in Dests /\ job[t].todo \in SUBSET Files
  BY <1>0, <1>1, RemovingFields
<1> HIDE DEF r
<1>6. job'[t] = r /\ \A u \in Threads \ {t} : job'[u] = job[u]
  BY <1>0, <1>4, JobMoves
<1>7. \A d \in Dests, g \in Files : Exists(d, g)' => Exists(d, g)
  BY <1>0, <1>2, <1>5 DEF DiskOK, Directory, Exists
<1>8. ASSUME NEW d \in Dests \ spoiled'
      PROVE  OwnAt(d)'
  <2>1. OwnAt(d) /\ ~Importing(t)
    BY <1>1 DEF OwnInv, Importing
  <2>2. RemovesOwn(t, d)
    BY <2>1 DEF OwnAt
  <2>3. RemovesOwn(t, d)'
    BY <1>1, <1>3, <1>5, <1>6, <1>7, <2>2 DEF RemovesOwn
  <2>4. ImportedOwn(t, d)'
    BY <1>3, <1>6 DEF ImportedOwn, Importing
  <2> QED
    BY <1>1, <1>6, <1>7, <2>1, <2>3, <2>4, OwnStays
<1> QED
  BY <1>8 DEF OwnInv

LEMMA OwnStep ==
    ASSUME TypeOK, LookInv, OwnInv, [Next]_vars
    PROVE  OwnInv'
<1>0. JobsOK /\ DiskOK /\ RestOK
  BY DEF TypeOK, RestOK
<1>1. CASE UNCHANGED <<dest, receipts, origin, spoiled, job>>
  BY <1>1 DEF OwnInv, OwnAt, RemovesOwn, ImportedOwn, ReceiptOwn, Importing, Wrote, Exists,
              Skips
<1>2. ASSUME NEW t \in Threads,
             \/ ImportRefused(t) \/ OpenBreaks(t) \/ SourceGone(t) \/ RenameFails(t)
             \/ ReceiptFails(t) \/ RollbackBreaks(t)
      PROVE  OwnInv'
  <2>1. UNCHANGED <<dest, receipts, origin>> /\ spoiled \subseteq spoiled' /\ \E how : End(t, how)
    BY <1>2 DEF ImportRefused, OpenBreaks, SourceGone, RenameFails, ReceiptFails, RollbackBreaks,
                Spoil, importVars
  <2>2. \A d \in Dests \ spoiled' : \A f \in Files : ~(Importing(t) /\ Wrote(t, d, f))
    BY <1>2 DEF ImportRefused, OpenBreaks, SourceGone, RenameFails, ReceiptFails, RollbackBreaks,
                Spoil, Wrote, Importing, AllWritten
  <2>3. \A d \in Dests \ spoiled' : \A f \in Files : Exists(d, f)' => Exists(d, f)
    BY <2>1 DEF Exists
  <2> QED
    BY <2>1, <2>2, <2>3, OwnEnds
<1>3. ASSUME NEW t \in Threads, CopyBreaks(t)
      PROVE  OwnInv'
  <2> DEFINE e == job[t].dest
  <2>1. /\ job[t].at = "copying" /\ End(t, "broken") /\ UNCHANGED receipts
        /\ spoiled' = IF Skips(t) THEN spoiled \cup {e} ELSE spoiled
    BY <1>3 DEF CopyBreaks, Spoil
  <2>2. \/ ~Skips(t) /\ UNCHANGED <<dest, origin>>
        \/ /\ Skips(t)
           /\ \E f : /\ dest' = [dest EXCEPT ![e] = With(dest[e], f, Torn)]
                     /\ origin' = [origin EXCEPT ![e][f] = job[t].n]
    BY <1>3 DEF CopyBreaks, Write
  <2>3. \A d \in Dests \ spoiled' : \A f \in Files : ~(Importing(t) /\ Wrote(t, d, f))
    BY <2>1 DEF Wrote
  <2>4. \A d \in Dests \ spoiled' : dest'[d] = dest[d] /\ origin'[d] = origin[d]
    BY <1>0, <2>1, <2>2 DEF RestOK, DiskOK
  <2>5. \A d \in Dests \ spoiled' : \A f \in Files : Exists(d, f)' => Exists(d, f)
    BY <2>4 DEF Exists
  <2>6. spoiled \subseteq spoiled'
    BY <2>1
  <2> QED
    BY <2>1, <2>3, <2>4, <2>5, <2>6, OwnEnds
<1>4. ASSUME NEW t \in Threads, RollbackDirectory(t)
      PROVE  OwnInv'
  <2>1. /\ job[t].at = "removing" /\ End(t, "done") /\ UNCHANGED <<receipts, origin, spoiled>>
        /\ dest' = [dest EXCEPT ![job[t].dest] = IF @ = Empty THEN NoDir ELSE @]
    BY <1>4 DEF RollbackDirectory
  <2>2. \A d \in Dests : dest'[d] = dest[d] \/ dest'[d] = NoDir
    BY <1>0, <2>1 DEF DiskOK
  <2>3. \A d \in Dests, f \in Files : (Exists(d, f)' => Exists(d, f)) /\ ~Importing(t)
    BY <2>1, <2>2 DEF Exists, Importing
  <2> QED
    BY <2>1, <2>3, OwnEnds
<1>5. ASSUME NEW t \in Threads, ImportStep(t) \/ RollbackStep(t)
      PROVE  OwnInv'
  BY <1>2, <1>3, <1>4, <1>5, OpenOwns, LookOwns, FileOwns, RenameOwns, ReceiptOwns, RollbackOwns
     DEF ImportStep, RollbackStep
<1>6. ASSUME NEW t \in Threads, NEW s \in Strategies, ImportPlan(t, s)
      PROVE  OwnInv'
  <2> DEFINE j == [at |-> "planned", strategy |-> s, forced |-> dest[1] # NoDir, n |-> jobs + 1]
  <2>1. Begin(t, j) /\ j.at = "planned" /\ UNCHANGED <<receipts, origin, dest, spoiled>>
    BY <1>6 DEF ImportPlan, importVars
  <2> HIDE DEF j
  <2> QED
    BY <2>1, OwnBegins
<1>7. ASSUME NEW t \in Threads, RollbackPlan(t)
      PROVE  OwnInv'
  <2> DEFINE r == find_latest_bundle_import_receipt
             j == [at |-> "removing", dest |-> r.dest, todo |-> r.imported, n |-> r.n]
  <2>1. /\ Begin(t, j) /\ receipts # <<>> /\ UNCHANGED <<receipts, origin, dest>>
        /\ j.at = "removing" /\ j.dest = r.dest /\ j.todo = r.imported /\ j.n = r.n
        /\ spoiled' = IF \E u \in Into(r.dest), f \in r.imported : origin[r.dest][f] = job[u].n
                      THEN spoiled \cup {r.dest} ELSE spoiled
    BY <1>7 DEF RollbackPlan
  <2>2. r = Last(receipts)
    BY DEF find_latest_bundle_import_receipt
  <2> HIDE DEF j, r
  <2>3. /\ spoiled \subseteq spoiled'
        /\ \/ j.dest \in spoiled'
           \/ \A u \in Into(j.dest), f \in j.todo : origin[j.dest][f] # job[u].n
    BY <2>1
  <2> QED
    BY <2>1, <2>2, <2>3, OwnBegins
<1>8. ASSUME \/ \E k \in Stagers : \/ \E v \in Versions : StageBegin(k, v)
                                   \/ StageFile(k) \/ StageEnds(k)
             \/ DeleteStaged \/ UNCHANGED vars
      PROVE  OwnInv'
  <2>1. UNCHANGED <<dest, receipts, origin, spoiled, job>>
    BY <1>8 DEF StageBegin, StageFile, StageEnds, DeleteStaged, vars, importVars
  <2> QED
    BY <1>1, <2>1
<1>9. ASSUME Crash PROVE OwnInv'
  <2>1. /\ UNCHANGED <<dest, receipts, origin>> /\ spoiled \subseteq spoiled'
        /\ \A t \in Threads : job'[t] = Idle
    BY <1>9 DEF Crash
  <2>2. \A d \in Dests \ spoiled', t \in Threads, f \in Files : ~(Importing(t) /\ Wrote(t, d, f))
    BY <1>9 DEF Crash, Wrote
  <2>3. ASSUME NEW d \in Dests \ spoiled' PROVE OwnAt(d)'
    <3>1. OwnAt(d)
      BY <2>1 DEF OwnInv
    <3>2. \A t \in Threads : RemovesOwn(t, d)' /\ ImportedOwn(t, d)'
      BY <2>1 DEF RemovesOwn, ImportedOwn, Importing, Idle
    <3>3. receipts # <<>> => Last(receipts).imported \subseteq Files
      BY ReceiptsName
    <3>4. ReceiptOwn(d)'
      BY <2>1, <2>2, <3>1, <3>3 DEF OwnAt, ReceiptOwn, Exists
    <3> QED
      BY <3>2, <3>4 DEF OwnAt
  <2> QED
    BY <2>3 DEF OwnInv
<1> QED
  BY <1>5, <1>6, <1>7, <1>8, <1>9 DEF Next

\* A file of a directory goes when a rollback has it on its list, and never otherwise.
Gone(d, f) == Exists(d, f) /\ (dest'[d] = NoDir \/ dest'[d][f] = Missing)

LEMMA ImportsRemoveNothing ==
    ASSUME TypeOK, NEW t \in Threads, ImportStep(t), NEW d \in Dests, NEW f \in Files
    PROVE  ~Gone(d, f)
<1> SUFFICES ASSUME Gone(d, f) PROVE FALSE
  OBVIOUS
<1>0. JobsOK /\ DiskOK
  BY DEF TypeOK
<1> DEFINE Written == \E g \in Files, content \in Versions \cup {Torn} : Write(t, g, content)
<1>1. CASE Written
  <2>1. PICK g \in Files, content \in Versions \cup {Torn} : Write(t, g, content)
    BY <1>1
  <2>2. dest[d] # NoDir /\ dest[d][f] # Missing /\ content # Missing
    BY <2>1, NoneAssumption DEF Gone, Exists
  <2>3. dest'[d] = dest[d] \/ dest'[d] = With(dest[d], g, content)
    BY <1>0, <2>1 DEF Write, DiskOK
  <2>4. With(dest[d], g, content) \in Directory /\ With(dest[d], g, content)[g] = content
    BY <1>0, <2>1, WithTyped, WithHas DEF DiskOK
  <2>5. With(dest[d], g, content) # NoDir
    BY <2>4, NoneAssumption DEF Directory
  <2>6. f # g => With(dest[d], g, content)[f] = dest[d][f]
    BY <1>0, <2>2, WithKeeps DEF DiskOK
  <2> QED
    BY <2>2, <2>3, <2>4, <2>5, <2>6 DEF Gone
<1>2. CASE ImportRename(t)
  <2>1. /\ dest[job[t].dest] \in {NoDir, Empty}
        /\ dest' = [dest EXCEPT ![job[t].dest] = temp]
    BY <1>2 DEF ImportRename, CanRename
  <2>2. d # job[t].dest
    BY <2>1 DEF Gone, Exists, Empty
  <2> QED
    BY <1>0, <2>1, <2>2 DEF Gone, Exists, DiskOK
<1>3. CASE ImportOpen(t)
  BY <1>0, <1>3 DEF ImportOpen, Gone, Exists, DiskOK
<1>4. CASE dest' = dest
  BY <1>4 DEF Gone, Exists
<1>5. ImportFile(t) => Written
  <2> SUFFICES ASSUME ImportFile(t) PROVE Written
    OBVIOUS
  <2>1. PICK g \in Files : Source(g) # Missing /\ Write(t, g, Source(g))
    BY <1>0, FileDone
  <2>2. Source(g) \in Versions \cup {Torn}
    BY <1>0, <2>1, SourceTyped
  <2> QED
    BY <2>1, <2>2
<1>6. CopyBreaks(t) => Written \/ dest' = dest
  <2> SUFFICES ASSUME CopyBreaks(t) PROVE Written \/ dest' = dest
    OBVIOUS
  <2>1. job[t].at = "copying"
    BY DEF CopyBreaks
  <2>2. PICK g \in ToCopy(t) : dest' = dest \/ Write(t, g, Torn)
    BY DEF CopyBreaks
  <2>3. g \in Files
    BY <1>0, <2>1, <2>2, CopyingFields
  <2> QED
    BY <2>2, <2>3
<1>8. ImportLook(t) => dest' = dest
  BY DEF ImportLook, importVars
<1>7. ImportRefused(t) \/ OpenBreaks(t) \/ SourceGone(t) \/ RenameFails(t) \/ ImportReceipt(t)
      \/ ReceiptFails(t) => dest' = dest
  BY DEF ImportRefused, OpenBreaks, SourceGone, RenameFails, ImportReceipt, ReceiptFails,
         importVars
<1> QED
  BY <1>1, <1>2, <1>3, <1>4, <1>5, <1>6, <1>7, <1>8 DEF ImportStep

LEMMA OnlyRollbacksRemove ==
    ASSUME TypeOK, Next, NEW d \in Dests, NEW f \in Files, Gone(d, f)
    PROVE  \E t \in Threads : job[t].at = "removing" /\ job[t].dest = d /\ f \in job[t].todo
<1>0. JobsOK /\ DiskOK
  BY DEF TypeOK
<1>1. ASSUME dest' = dest PROVE FALSE
  BY <1>1 DEF Gone, Exists
<1>2. \/ \E k \in Stagers : (\E v \in Versions : StageBegin(k, v)) \/ StageFile(k) \/ StageEnds(k)
      \/ DeleteStaged \/ Crash
      \/ \E t \in Threads : RollbackPlan(t) \/ \E s \in Strategies : ImportPlan(t, s)
      => dest' = dest
  BY DEF StageBegin, StageFile, StageEnds, DeleteStaged, Crash, RollbackPlan, ImportPlan,
         importVars
<1>3. PICK t \in Threads : ImportStep(t) \/ RollbackStep(t)
  BY <1>1, <1>2 DEF Next
<1>4. RollbackStep(t) /\ ~RollbackBreaks(t)
  BY <1>0, <1>1, <1>3, ImportsRemoveNothing DEF RollbackStep, RollbackBreaks, importVars
<1>5. CASE RollbackFile(t)
  <2>1. job[t].at = "removing"
    BY <1>5 DEF RollbackFile
  <2>2. PICK g \in job[t].todo : /\ Exists(job[t].dest, g)
                                 /\ dest' = [dest EXCEPT ![job[t].dest][g] = Missing]
    BY <1>5 DEF RollbackFile
  <2>3. d = job[t].dest
    BY <1>0, <2>2 DEF Gone, Exists, DiskOK
  <2>4. dest[d] \in Directory /\ dest'[d] = [dest[d] EXCEPT ![g] = Missing]
    BY <1>0, <2>2, <2>3 DEF Gone, Exists, DiskOK
  <2>5. dest'[d] # NoDir
    BY <2>4, NoneAssumption DEF Directory
  <2>6. f = g
    BY <2>4, <2>5 DEF Gone, Exists, Directory
  <2> QED
    BY <2>1, <2>2, <2>3, <2>6
<1>6. CASE RollbackDirectory(t)
  <2>1. dest' = [dest EXCEPT ![job[t].dest] = IF @ = Empty THEN NoDir ELSE @]
    BY <1>6 DEF RollbackDirectory
  <2>2. dest'[d] = dest[d] \/ dest[d] = Empty
    BY <1>0, <2>1 DEF DiskOK
  <2> QED
    BY <2>2 DEF Gone, Exists, Empty
<1> QED
  BY <1>4, <1>5, <1>6 DEF RollbackStep

\* What a step does to the files of a directory that is not spoiled.
Rightful ==
    \A d \in Dests, f \in Files :
        (d \notin spoiled /\ Exists(d, f) /\ (dest'[d] = NoDir \/ dest'[d][f] = Missing)) =>
            \E t \in Threads : Removes(t, d, f)

OwnBundleInv == MetBundleInv /\ OwnInv

\* A rollback removes the files that the import of its receipt wrote, and no others, whatever
\* imports and rolls back at the same time, in every directory that is not spoiled: no import
\* has put files there and left no receipt, or had not when an older one was rolled back; no
\* two imports were under way into it at once; no import put a file there that a rollback under
\* way had still to remove (rollback.rs: the latest receipt, its files, the directory if it is
\* empty).
THEOREM RollbacksRemoveTheirOwn == Spec => RollbackRemovesItsOwn
<1>1. Init => OwnBundleInv
  <2> SUFFICES ASSUME Init PROVE OwnInv
    BY MetStart DEF OwnBundleInv
  <2> QED
    BY DEF Init, OwnInv, OwnAt, RemovesOwn, ImportedOwn, ReceiptOwn, Importing, Idle
<1>2. OwnBundleInv /\ [Next]_vars => OwnBundleInv'
  BY TypeStep, RoomStep, LookStep, OwnStep DEF OwnBundleInv, MetBundleInv
<1>3. OwnBundleInv /\ [Next]_vars => [Rightful]_vars
  <2> SUFFICES ASSUME OwnBundleInv, Next, NEW d \in Dests, NEW f \in Files,
                      d \notin spoiled, Gone(d, f)
               PROVE  \E t \in Threads : Removes(t, d, f)
    BY DEF Rightful, Gone
  <2>1. PICK t \in Threads : job[t].at = "removing" /\ job[t].dest = d /\ f \in job[t].todo
    BY OnlyRollbacksRemove DEF OwnBundleInv, MetBundleInv
  <2>2. RemovesOwn(t, d) /\ Exists(d, f)
    BY DEF OwnBundleInv, OwnInv, OwnAt, Gone
  <2>3. origin[d][f] = job[t].n
    BY <2>1, <2>2 DEF RemovesOwn
  <2> QED
    BY <2>1, <2>3 DEF Removes
<1>4. Rightful <=> \A d \in Dests, f \in Files :
          (d \notin spoiled /\ Exists(d, f) /\ (dest'[d] = NoDir \/ dest'[d][f] = Missing)) =>
              \E t \in Threads : Removes(t, d, f)
  BY DEF Rightful
<1> QED
  BY <1>1, <1>2, <1>3, <1>4, PTL DEF Spec, RollbackRemovesItsOwn
=============================================================================
