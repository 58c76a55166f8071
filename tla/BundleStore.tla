----------------------------- MODULE BundleStore ------------------------------
(***************************************************************************)
(* The bundle store of one bundle_id: the staged copy that receiving       *)
(* writes, replaces and the user deletes; the import of that copy into a   *)
(* directory of the import area, under one of three conflict strategies,   *)
(* with its receipt; and the rollback of the latest receipt.  Nothing      *)
(* locks a directory: commands, bridge worker and receive handlers are     *)
(* threads, a step is one change of the file system, and the process may   *)
(* die between two of them.                                                *)
(***************************************************************************)
EXTENDS Naturals, Sequences, FiniteSetsExt, SequencesExt

CONSTANTS
    Threads,      \* import and rollback commands, and the bridge's worker
    Stagers,      \* receive handlers that stage a bundle
    Files,        \* manifest paths
    Versions,     \* the bundles that come under this bundle_id
    Paths,        \* [v]: the files of a version
    NoVersion,    \* a staged directory without bundle.json
    NoDir,        \* no directory at a path
    Missing,      \* no file at a path
    Torn,         \* a file whose copy broke off
    MaxJobs,      \* bound: imports and rollbacks begun
    MaxStagings   \* bound: bundles staged

ASSUME PathsAssumption == Paths \in [Versions -> (SUBSET Files) \ {{}}]
ASSUME NoneAssumption == /\ {Missing, Torn, NoVersion} \cap Versions = {}
                         /\ Torn # Missing
                         /\ NoDir \notin [Files -> Versions \cup {Missing, Torn}]
ASSUME BoundsAssumption == MaxJobs \in Nat /\ MaxStagings \in Nat

VARIABLES
    staged,    \* the staging directory: bundle.json's version and the payload files
    stager,    \* [k]: what a receive handler has still to copy into it
    dest,      \* [d]: <import root>/<bundle_id>, and <bundle_id>-d from 2 on
    temp,      \* <import root>/<bundle_id>.importing
    receipts,  \* oldest first
    job,       \* [t]: the import or rollback a thread is in
    refused,   \* threads whose last import ended with an error that is not the disk's
    calm,      \* (history): threads whose job was alone, the staged bundle left as it was
    origin,    \* [d][f] (history): the import that put a file there
    beside,    \* (history): threads whose import met another one in its destination
    spoiled,   \* (history): destinations where two imports met, or a rollback and files of an
               \*   import without a receipt, or put there while the rollback was under way
    jobs,      \* imports and rollbacks begun; numbers them
    stagings   \* bundles staged

stageVars   == <<staged, stager, stagings>>
importVars  == <<dest, temp, receipts, origin, spoiled>>
vars        == <<stageVars, importVars, job, refused, calm, beside, jobs>>

Strategies == {"reject", "rename", "skip_conflicts"}
Dests      == 1..(MaxJobs + 1)
Directory  == [Files -> Versions \cup {Missing, Torn}]
Empty      == [f \in Files |-> Missing]
Receipt    == [dest : Dests, imported : SUBSET Files, n : 1..MaxJobs]

Idle     == [at |-> "idle"]
Staging  == [at : {"copying"}, version : Versions, todo : SUBSET Files]
Planned  == [at : {"planned"}, strategy : Strategies, forced : BOOLEAN, n : 1..MaxJobs]
Copying  == [at : {"copying", "renamed"}, strategy : Strategies, version : Versions,
             dest : Dests, todo : SUBSET Files, looked : SUBSET Files,
             imported : SUBSET Files, n : 1..MaxJobs]
Removing == [at : {"removing"}, dest : Dests, todo : SUBSET Files, n : 1..MaxJobs]
Job      == {Idle} \cup Planned \cup Copying \cup Removing

Init ==
    /\ staged = NoDir
    /\ stager = [k \in Stagers |-> Idle]
    /\ dest = [d \in Dests |-> NoDir]
    /\ temp = NoDir
    /\ receipts = <<>>
    /\ job = [t \in Threads |-> Idle]
    /\ refused = {}
    /\ calm = {}
    /\ beside = {}
    /\ origin = [d \in Dests |-> [f \in Files |-> 0]]
    /\ spoiled = {}
    /\ jobs = 0 /\ stagings = 0

Exists(d, f) == dest[d] # NoDir /\ dest[d][f] # Missing

\* A directory with one file more, made if it is not there.
With(dir, f, content) == [IF dir = NoDir THEN Empty ELSE dir EXCEPT ![f] = content]

-----------------------------------------------------------------------------
(* Staging.                                                                 *)

Disturb == calm' = {}

\* A received bundle replaces the staged one: the directory is removed and made anew.
StageBegin(k, v) ==
    /\ stager[k] = Idle
    /\ stagings < MaxStagings
    /\ stagings' = stagings + 1
    /\ staged' = [version |-> v, files |-> Empty]
    /\ stager' = [stager EXCEPT ![k] = [at |-> "copying", version |-> v, todo |-> Paths[v]]]
    /\ Disturb
    /\ UNCHANGED <<importVars, job, refused, beside, jobs>>

StageFile(k) ==
    /\ stager[k] # Idle
    /\ \E f \in stager[k].todo :
          /\ stager' = [stager EXCEPT ![k].todo = @ \ {f}]
          /\ staged' = IF staged = NoDir
                       THEN [version |-> NoVersion, files |-> With(NoDir, f, stager[k].version)]
                       ELSE [staged EXCEPT !.files[f] = stager[k].version]
    /\ Disturb
    /\ UNCHANGED <<stagings, importVars, job, refused, beside, jobs>>

\* Everything is copied, or a copy fails: what is staged stays, for whoever detects it.
StageEnds(k) ==
    /\ stager[k] # Idle
    /\ stager' = [stager EXCEPT ![k] = Idle]
    /\ UNCHANGED <<staged, stagings, importVars, job, refused, calm, beside, jobs>>

\* The user deletes the staged bundle, or it is older than 14 days.
DeleteStaged ==
    /\ staged # NoDir
    /\ staged' = NoDir
    /\ Disturb
    /\ UNCHANGED <<stager, stagings, importVars, job, refused, beside, jobs>>

\* detect_bundle_directory: every file of the manifest is there with its checksum, no other.
Detected ==
    /\ staged # NoDir
    /\ staged.version # NoVersion
    /\ \A f \in Files :
          staged.files[f] = IF f \in Paths[staged.version] THEN staged.version ELSE Missing

-----------------------------------------------------------------------------
(* Importing.                                                               *)

Alone == \A t \in Threads : job[t] = Idle

\* A thread begins an import or a rollback.
Begin(t, j) ==
    /\ job[t] = Idle
    /\ jobs < MaxJobs
    /\ jobs' = jobs + 1
    /\ job' = [job EXCEPT ![t] = j]
    /\ refused' = refused \ {t}
    /\ beside' = beside \ {t}
    /\ calm' = IF Alone /\ \A k \in Stagers : stager[k] = Idle THEN {t} ELSE {}

End(t, how) ==
    /\ job' = [job EXCEPT ![t] = Idle]
    /\ refused' = IF how = "refused" THEN refused \cup {t} ELSE refused
    /\ calm' = IF how = "refused" THEN calm ELSE calm \ {t}
    /\ beside' = beside \ {t}
    /\ UNCHANGED jobs

\* The plan: the staged bundle is importable, and nothing is in the way of "reject".
ImportPlan(t, s) ==
    /\ Detected
    /\ s = "reject" => dest[1] = NoDir
    /\ Begin(t, [at |-> "planned", strategy |-> s, forced |-> dest[1] # NoDir, n |-> jobs + 1])
    /\ UNCHANGED <<stageVars, importVars>>

\* Mutant: the second directory is taken whether it is there or not.
unique_bundle_import_destination_Second(force) ==
    IF ~force /\ dest[1] = NoDir THEN 1 ELSE 2

\* <bundle_id>, or the first <bundle_id>-d that is free.
unique_bundle_import_destination(force) ==
    IF ~force /\ dest[1] = NoDir THEN 1 ELSE Min({d \in Dests \ {1} : dest[d] = NoDir})

Destination(j) ==
    IF j.strategy = "rename" THEN unique_bundle_import_destination(j.forced) ELSE 1

Opened(j) ==
    [at |-> "copying", strategy |-> j.strategy, version |-> staged.version,
     dest |-> Destination(j), todo |-> Paths[staged.version], looked |-> {},
     imported |-> {}, n |-> j.n]

\* The imports under way into d; those that write into it or will.
Into(d) == {t \in Threads : job[t].at \in {"copying", "renamed"} /\ job[t].dest = d}

\* (History) Two imports that are under way into one destination have met.
Meets(t, d) ==
    IF Into(d) = {} THEN UNCHANGED <<beside, spoiled>>
    ELSE /\ beside' = beside \cup Into(d) \cup {t}
         /\ spoiled' = spoiled \cup {d}

\* Mutant: a temporary directory that is there already is used as it is.
ImportOpen_KeepsTemp(t) ==
    LET j == job[t] IN
    /\ j.at = "planned"
    /\ Detected
    /\ j.strategy = "reject" => dest[1] = NoDir
    /\ job' = [job EXCEPT ![t] = Opened(j)]
    /\ Meets(t, Destination(j))
    /\ IF j.strategy = "skip_conflicts"
       THEN /\ dest' = [dest EXCEPT ![1] = IF @ = NoDir THEN Empty ELSE @]
            /\ UNCHANGED temp
       ELSE /\ temp' = IF temp = NoDir THEN Empty ELSE temp
            /\ UNCHANGED dest
    /\ UNCHANGED <<stageVars, receipts, origin, refused, calm, jobs>>

\* The bundle is detected again and its place chosen; a temporary directory that was left is
\* removed.  Skipping conflicts writes into the destination itself.
ImportOpen(t) ==
    LET j == job[t] IN
    /\ j.at = "planned"
    /\ Detected
    /\ j.strategy = "reject" => dest[1] = NoDir
    /\ job' = [job EXCEPT ![t] = Opened(j)]
    /\ Meets(t, Destination(j))
    /\ IF j.strategy = "skip_conflicts"
       THEN /\ dest' = [dest EXCEPT ![1] = IF @ = NoDir THEN Empty ELSE @]
            /\ temp' = NoDir
       ELSE /\ temp' = Empty
            /\ UNCHANGED dest
    /\ UNCHANGED <<stageVars, receipts, origin, refused, calm, jobs>>

\* The staged bundle is gone or no longer whole, or its place is taken.
ImportRefused(t) ==
    /\ job[t].at = "planned"
    /\ ~Detected \/ (job[t].strategy = "reject" /\ dest[1] # NoDir)
    /\ End(t, "refused")
    /\ UNCHANGED <<stageVars, importVars>>

\* The old temporary directory cannot be removed, or a new one made.
OpenBreaks(t) ==
    /\ job[t].at = "planned"
    /\ temp' \in {temp, NoDir}
    /\ End(t, "broken")
    /\ UNCHANGED <<stageVars, dest, receipts, origin, spoiled>>

Skips(t) == job[t].strategy = "skip_conflicts"

\* The files written so far stay at the destination when skipping breaks off.
Spoil(t, torn) ==
    spoiled' = IF Skips(t) /\ (torn \/ job[t].imported # {})
               THEN spoiled \cup {job[t].dest} ELSE spoiled

Source(f) == IF staged = NoDir THEN Missing ELSE staged.files[f]

\* Into the temporary directory, or into the destination when conflicts are skipped.
Write(t, f, content) ==
    IF Skips(t)
    THEN /\ dest' = [dest EXCEPT ![job[t].dest] = With(@, f, content)]
         /\ origin' = [origin EXCEPT ![job[t].dest][f] = job[t].n]
         /\ UNCHANGED temp
    ELSE /\ temp' = With(temp, f, content)
         /\ UNCHANGED <<dest, origin>>

\* (History) A rollback in d has f still to remove.
Pursued(d, f) ==
    \E t \in Threads : job[t].at = "removing" /\ job[t].dest = d /\ f \in job[t].todo

\* What is copied next: when conflicts are skipped, the file that was looked for.
ToCopy(t) == IF Skips(t) THEN job[t].looked ELSE job[t].todo

\* A file of the manifest is copied, whatever is there by now (fs::copy truncates);
\* directories that are missing are made.
ImportFile(t) ==
    LET d == job[t].dest IN
    /\ job[t].at = "copying"
    /\ \E f \in ToCopy(t) :
          /\ Source(f) # Missing
          /\ Write(t, f, Source(f))
          /\ job' = [job EXCEPT ![t].todo = @ \ {f}, ![t].looked = {},
                                ![t].imported = @ \cup {f}]
          /\ spoiled' = IF Skips(t) /\ Pursued(d, f)
                        THEN spoiled \cup {d} ELSE spoiled
    /\ UNCHANGED <<stageVars, receipts, refused, calm, beside, jobs>>

Looked(t, f) == [job EXCEPT ![t].looked = {f}]

\* Mutant: a file that is there already is copied over.
ImportLook_Ignores(t) ==
    /\ job[t].at = "copying" /\ Skips(t)
    /\ job[t].looked = {}
    /\ \E f \in job[t].todo : job' = Looked(t, f)
    /\ UNCHANGED <<stageVars, importVars, refused, calm, beside, jobs>>

\* Mutant: the receipt names the skipped files too.
ImportLook_RecordsSkipped(t) ==
    /\ job[t].at = "copying" /\ Skips(t)
    /\ job[t].looked = {}
    /\ \E f \in job[t].todo :
          job' = IF Exists(job[t].dest, f)
                 THEN [job EXCEPT ![t].todo = @ \ {f}, ![t].imported = @ \cup {f}]
                 ELSE Looked(t, f)
    /\ UNCHANGED <<stageVars, importVars, refused, calm, beside, jobs>>

\* When conflicts are skipped, the next file is looked for at the destination: one that is
\* there is skipped, another one is copied in a step of its own.
ImportLook(t) ==
    /\ job[t].at = "copying" /\ Skips(t)
    /\ job[t].looked = {}
    /\ \E f \in job[t].todo :
          job' = IF Exists(job[t].dest, f) THEN [job EXCEPT ![t].todo = @ \ {f}]
                 ELSE Looked(t, f)
    /\ UNCHANGED <<stageVars, importVars, refused, calm, beside, jobs>>

\* The staged file is not there: the temporary directory is removed.
SourceGone(t) ==
    /\ job[t].at = "copying"
    /\ \E f \in ToCopy(t) : Source(f) = Missing
    /\ End(t, "refused")
    /\ temp' = IF Skips(t) THEN temp ELSE NoDir
    /\ Spoil(t, FALSE)
    /\ UNCHANGED <<stageVars, dest, receipts, origin>>

\* A copy breaks off, on a full disk say: what it wrote of the file stays when skipping.
CopyBreaks(t) ==
    /\ job[t].at = "copying"
    /\ \E f \in ToCopy(t) :
          IF Skips(t) THEN Write(t, f, Torn) ELSE temp' = NoDir /\ UNCHANGED <<dest, origin>>
    /\ End(t, "broken")
    /\ Spoil(t, TRUE)
    /\ UNCHANGED <<stageVars, receipts>>

\* A directory can be renamed to a path where nothing is, or an empty directory.
CanRename(t) == temp # NoDir /\ dest[job[t].dest] \in {NoDir, Empty}

\* The temporary directory becomes the destination.
ImportRename(t) ==
    LET d == job[t].dest IN
    /\ job[t].at = "copying" /\ ~Skips(t)
    /\ job[t].todo = {}
    /\ CanRename(t)
    /\ dest' = [dest EXCEPT ![d] = temp]
    /\ origin' = [origin EXCEPT ![d] = [f \in Files |-> job[t].n]]
    /\ temp' = NoDir
    /\ job' = [job EXCEPT ![t].at = "renamed"]
    /\ spoiled' = IF \E f \in Files : Pursued(d, f) THEN spoiled \cup {d} ELSE spoiled
    /\ UNCHANGED <<stageVars, receipts, refused, calm, beside, jobs>>

\* The destination is in the way, or the disk fails: the temporary directory is removed.
RenameFails(t) ==
    /\ job[t].at = "copying" /\ ~Skips(t)
    /\ job[t].todo = {}
    /\ temp' = NoDir
    /\ End(t, IF CanRename(t) THEN "broken" ELSE "refused")
    /\ UNCHANGED <<stageVars, dest, receipts, origin, spoiled>>

AllWritten(t) ==
    \/ job[t].at = "renamed"
    \/ job[t].at = "copying" /\ Skips(t) /\ job[t].todo = {}

\* The receipt is written, and the import reported.
ImportReceipt(t) ==
    /\ AllWritten(t)
    /\ receipts' = Append(receipts, [dest |-> job[t].dest, imported |-> job[t].imported,
                                     n |-> job[t].n])
    /\ End(t, "done")
    /\ UNCHANGED <<stageVars, dest, temp, origin, spoiled>>

\* The receipt cannot be written: the import fails, its files stay.
ReceiptFails(t) ==
    /\ AllWritten(t)
    /\ End(t, "broken")
    /\ spoiled' = spoiled \cup {job[t].dest}
    /\ UNCHANGED <<stageVars, dest, temp, receipts, origin>>

-----------------------------------------------------------------------------
(* Rolling back.                                                            *)

\* Receipts are listed newest first, and the first of the bundle is taken.
find_latest_bundle_import_receipt == Last(receipts)

\* The latest receipt is looked up; every file it names must be there.
RollbackPlan(t) ==
    /\ receipts # <<>>
    /\ LET r == find_latest_bundle_import_receipt IN
       /\ dest[r.dest] # NoDir
       /\ \A f \in r.imported : Exists(r.dest, f)
       /\ Begin(t, [at |-> "removing", dest |-> r.dest, todo |-> r.imported, n |-> r.n])
       /\ spoiled' = IF \E u \in Into(r.dest), f \in r.imported : origin[r.dest][f] = job[u].n
                      THEN spoiled \cup {r.dest} ELSE spoiled
    /\ UNCHANGED <<stageVars, dest, temp, receipts, origin>>

RollbackFile(t) ==
    /\ job[t].at = "removing"
    /\ \E f \in job[t].todo :
          /\ Exists(job[t].dest, f)
          /\ dest' = [dest EXCEPT ![job[t].dest][f] = Missing]
          /\ job' = [job EXCEPT ![t].todo = @ \ {f}]
    /\ UNCHANGED <<stageVars, temp, receipts, origin, spoiled, refused, calm, beside, jobs>>

\* A file cannot be removed, or somebody else removed it: the others stay.
RollbackBreaks(t) ==
    /\ job[t].at = "removing"
    /\ job[t].todo # {}
    /\ End(t, "broken")
    /\ UNCHANGED <<stageVars, importVars>>

\* The directory goes if it is empty.
RollbackDirectory(t) ==
    /\ job[t].at = "removing"
    /\ job[t].todo = {}
    /\ dest' = [dest EXCEPT ![job[t].dest] = IF @ = Empty THEN NoDir ELSE @]
    /\ End(t, "done")
    /\ UNCHANGED <<stageVars, temp, receipts, origin, spoiled>>

-----------------------------------------------------------------------------
\* The process dies: the disk keeps what it has.
Crash ==
    /\ \E t \in Threads : job[t] # Idle
    /\ job' = [t \in Threads |-> Idle]
    /\ stager' = [k \in Stagers |-> Idle]
    /\ calm' = {}
    /\ beside' = {}
    /\ spoiled' = spoiled \cup {job[t].dest : t \in {u \in Threads :
                      \/ job[u].at = "renamed"
                      \/ job[u].at = "copying" /\ Skips(u) /\ job[u].imported # {}}}
    /\ UNCHANGED <<staged, stagings, dest, temp, receipts, origin, refused, jobs>>

ImportStep(t) ==
    \/ ImportOpen(t) \/ OpenBreaks(t) \/ ImportRefused(t)
    \/ ImportLook(t) \/ ImportFile(t) \/ SourceGone(t) \/ CopyBreaks(t)
    \/ ImportRename(t) \/ RenameFails(t)
    \/ ImportReceipt(t) \/ ReceiptFails(t)

RollbackStep(t) == RollbackFile(t) \/ RollbackBreaks(t) \/ RollbackDirectory(t)

Next ==
    \/ \E k \in Stagers : (\E v \in Versions : StageBegin(k, v)) \/ StageFile(k) \/ StageEnds(k)
    \/ DeleteStaged
    \/ \E t \in Threads : \/ \E s \in Strategies : ImportPlan(t, s)
                          \/ ImportStep(t)
                          \/ RollbackPlan(t) \/ RollbackStep(t)
    \/ Crash

Spec == Init /\ [][Next]_vars

-----------------------------------------------------------------------------
(* Properties.                                                              *)

\* What the disk holds, and what is on its way there.
DiskOK ==
    /\ \/ staged = NoDir
       \/ staged \in [version : Versions \cup {NoVersion}, files : Directory]
    /\ stager \in [Stagers -> {Idle} \cup Staging]
    /\ dest \in [Dests -> Directory \cup {NoDir}]
    /\ temp \in Directory \cup {NoDir}

\* What the threads are doing: no file is imported that has still to be, and at most one that
\* has still to be was looked for.
JobsOK ==
    /\ job \in [Threads -> Job]
    /\ \A t \in Threads : job[t].at \in {"copying", "renamed"} =>
          /\ job[t].todo \cap job[t].imported = {}
          /\ job[t].looked \subseteq job[t].todo
    /\ jobs \in 0..MaxJobs
    /\ refused \subseteq Threads /\ calm \subseteq Threads /\ beside \subseteq Threads

TypeOK ==
    /\ DiskOK
    /\ JobsOK
    /\ stagings \in 0..MaxStagings
    /\ receipts \in Seq(Receipt)
    /\ origin \in [Dests -> [Files -> 0..MaxJobs]]
    /\ spoiled \subseteq Dests

\* An import writes over a file at a destination only if another one was under way into the
\* same destination at the same time: alone in it, whatever its strategy, whatever crashed or
\* was rolled back before it or is rolled back beside it, and whoever imports elsewhere through
\* the one temporary directory, it overwrites nothing; files there only go (conflicts are never
\* overwritten: docs/dev/ADAPTER_SPEC.md:245-249).  Two that skip conflicts may both look for a
\* file before either writes it (import.rs:112 and 379), which is the exception.
ImportNeverOverwrites ==
    [][\A d \in Dests, f \in Files :
          (/\ Exists(d, f)
           /\ dest'[d] # NoDir
           /\ dest'[d][f] \notin {dest[d][f], Missing}) => Into(d) \cap beside # {}]_vars

Whole(v) == [f \in Files |-> IF f \in Paths[v] THEN v ELSE Missing]

Reports(t) == AllWritten(t) /\ receipts' # receipts /\ job'[t] = Idle

\* The bundle and nothing else; with skipped conflicts, every file is there, and those it says
\* it imported are the bundle's.
Complete(t) ==
    LET v == job[t].version  d == job[t].dest IN
    IF Skips(t)
    THEN /\ \A f \in Paths[v] : Exists(d, f)
         /\ \A f \in job[t].imported : dest[d][f] = v
    ELSE dest[d] = Whole(v)

\* What an import reports is at its destination: the whole bundle and nothing else, even
\* after earlier imports broke off or the process died in them; with skipped conflicts, the
\* files it says it imported.  This needs the staged bundle to be left alone and no other job.
ImportIsComplete ==
    [][\A t \in Threads : (Reports(t) /\ t \in calm) => Complete(t)]_vars

\* An import that was planned, and that nothing disturbs, does not fail because of what
\* earlier imports, rollbacks and crashes left: a stale temporary directory, taken names.
HealthyImportSucceeds == refused \cap calm = {}

Removes(t, d, f) ==
    /\ job[t].at = "removing"
    /\ job[t].dest = d
    /\ job[t].n = origin[d][f]

\* A rollback removes the files of the import its receipt is of, and leaves those of others
\* (rollback.rs: only the files of this import), whatever rolls back or imports at the same time.
\* There are three exceptions, each for one directory: an import wrote into it and has left no
\* receipt, or none yet, when an older one is rolled back; two imports were under way into it at
\* the same time; an import put a file there that one of several rollbacks, begun before, had
\* still to remove.
RollbackRemovesItsOwn ==
    [][\A d \in Dests, f \in Files :
          (d \notin spoiled /\ Exists(d, f) /\ (dest'[d] = NoDir \/ dest'[d][f] = Missing)) =>
              \E t \in Threads : Removes(t, d, f)]_vars
=============================================================================
