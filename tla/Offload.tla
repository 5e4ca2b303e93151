------------------------------- MODULE Offload -------------------------------
(***************************************************************************)
(* The cold-tier offload of one raw lane (offload.py).  A pass walks the   *)
(* aged run directories of the lane, oldest first, and moves the accounted *)
(* ones to the cold tier: copy to a staging directory, verify, rename,     *)
(* verify the source again, append the offload index, delete the source.   *)
(* The process can die between any two of these steps, any call can raise, *)
(* and a worker that outlived its segment may still append to the source.  *)
(*                                                                         *)
(* A directory tree is the function from its files to their sizes, 0 for a *)
(* file that is not there (a size here is one more than the size in bytes, *)
(* so an empty file is there); that is what _file_manifest compares.       *)
(***************************************************************************)
EXTENDS Naturals

CONSTANTS
    Runs,           \* run directories, numbered in the order of their names
    Files,          \* relative paths of the files of a run directory
    MaxSize,        \* bound: a writer grows no file past this size
    AgeOnly,        \* the lane's gate is "age_only" instead of "indexed"
    Limit,          \* runs a pass may try to move
    BackstopLimit,  \* unaccounted runs a pass may quarantine, 0: no backstop
    MaxFaults,      \* bound: crashes and raising calls in a behaviour
    Zombies         \* runs whose worker outlived its segment and may still write

ASSUME RunsAssumption == Runs \subseteq Nat
ASSUME SizeAssumption == MaxSize \in Nat
ASSUME GateAssumption == AgeOnly \in BOOLEAN
ASSUME LimitAssumption == Limit \in Nat /\ BackstopLimit \in Nat
ASSUME FaultAssumption == MaxFaults \in Nat
ASSUME ZombieAssumption == Zombies \subseteq Runs

VARIABLES
    hotDirs, hot,    \* run directories on the hot tier, and their trees
    coldDirs, cold,  \* run directories under their final name on the cold tier
    partial,         \* the copy in the staging directory
    aged, overdue,   \* runs past the offload age, past the backstop age
    indexed,         \* runs with a row in the promotion or quarantine index
    offloadIndex,    \* runs with a row in _offload_index.jsonl
    phase,              \* where the pass is, "idle" between passes
    todo, late,      \* runs this pass has yet to visit; those past the backstop age
    known,           \* the accounted runs, as this pass read the indexes
    budget, backstopBudget,
    cur, source,     \* the run being moved and its manifest, as taken
    uncopied,        \* the files copytree has yet to copy
    faults,
    written,         \* history: the most each file of each run ever held
    unseen           \* history: files a writer grew after the last look at the source

archiveVars == <<hotDirs, hot, coldDirs, cold, partial, indexed, offloadIndex>>
passVars == <<phase, todo, late, known, budget, backstopBudget, cur, source, uncopied>>
ageVars == <<aged, overdue>>
historyVars == <<written, unseen>>
offloadVars == <<archiveVars, passVars, ageVars, historyVars, faults>>

Tree == [Files -> Nat]
EmptyTree == [f \in Files |-> 0]
Without(tree, gone) == [f \in Files |-> IF f \in gone THEN 0 ELSE tree[f]]

MovePcs == {"manifest", "resume", "clear", "copy", "recheck", "abort", "index", "delete"}

OffloadTypeOK ==
    /\ hotDirs \subseteq Runs /\ coldDirs \subseteq Runs
    /\ hot \in [Runs -> Tree] /\ cold \in [Runs -> Tree] /\ written \in [Runs -> Tree]
    /\ partial \in Tree /\ source \in Tree
    /\ aged \subseteq Runs /\ overdue \subseteq Runs
    /\ indexed \subseteq Runs /\ offloadIndex \subseteq Runs
    /\ todo \subseteq Runs /\ late \subseteq Runs /\ known \subseteq Runs
    /\ phase \in {"idle", "scan"} \cup MovePcs
    /\ phase \in MovePcs => cur \in Runs
    /\ budget \in 0..Limit /\ backstopBudget \in 0..BackstopLimit
    /\ uncopied \subseteq Files
    /\ faults \in 0..MaxFaults
    /\ unseen \in [Runs -> SUBSET Files]

OffloadInit ==
    /\ hotDirs = Runs
    /\ hot \in [Runs -> [Files -> {0, 1}]]
    /\ coldDirs = {} /\ cold = [r \in Runs |-> EmptyTree]
    /\ partial = EmptyTree
    /\ aged = {} /\ overdue = {}
    /\ indexed = {} /\ offloadIndex = {}
    /\ phase = "idle" /\ todo = {} /\ late = {} /\ known = {}
    /\ budget = 0 /\ backstopBudget = 0
    /\ cur = 0 /\ source = EmptyTree /\ uncopied = {}
    /\ faults = 0
    /\ written = hot
    /\ unseen = [r \in Runs |-> {}]

-----------------------------------------------------------------------------
(* The environment: the clock, the promotion and quarantine jobs that fill  *)
(* the lane's indexes, and a zombie worker that still writes into the run.  *)

GrowOlder(r) ==
    /\ \/ r \notin aged /\ aged' = aged \cup {r} /\ UNCHANGED overdue
       \/ r \in aged \ overdue /\ overdue' = overdue \cup {r} /\ UNCHANGED aged
    /\ UNCHANGED <<archiveVars, passVars, historyVars, faults>>

Account(r) ==
    /\ r \notin indexed
    /\ indexed' = indexed \cup {r}
    /\ UNCHANGED <<hotDirs, hot, coldDirs, cold, partial, offloadIndex,
                   passVars, ageVars, historyVars, faults>>

\* The pass will delete this run's files without looking at the source again.
SourceIsTrusted(r) == cur = r /\ phase \in {"resume", "index", "delete"}

\* A handle opened before the pass grows its file, or the sink opens a new part.
AppendLate(r, f) ==
    /\ r \in hotDirs \cap Zombies
    /\ hot[r][f] > 0 \/ written[r][f] = 0
    /\ hot[r][f] < MaxSize
    /\ hot' = [hot EXCEPT ![r][f] = @ + 1]
    /\ written' = [written EXCEPT ![r][f] = hot[r][f] + 1]
    /\ unseen' = IF SourceIsTrusted(r)
                 THEN [unseen EXCEPT ![r] = @ \cup {f}] ELSE unseen
    /\ UNCHANGED <<hotDirs, coldDirs, cold, partial, indexed, offloadIndex,
                   passVars, ageVars, faults>>

-----------------------------------------------------------------------------
(* The scan of the lane.                                                    *)

StartPass ==
    /\ phase = "idle"
    /\ phase' = "scan"
    /\ todo' = hotDirs \cap aged
    /\ late' = overdue
    /\ known' = IF AgeOnly THEN Runs ELSE indexed
    /\ budget' = Limit /\ backstopBudget' = BackstopLimit
    /\ UNCHANGED <<archiveVars, cur, source, uncopied, ageVars, historyVars, faults>>

\* The run the sorted listing yields next.
IsNext(r) == phase = "scan" /\ r \in todo /\ \A s \in todo : r <= s

MayBackstop(r) == r \notin known /\ r \in late /\ backstopBudget > 0

\* The aged run nobody accounted for gets its diagnostics and its quarantine
\* row, and the same pass goes on to move it.
Backstop(r) ==
    /\ IsNext(r) /\ MayBackstop(r)
    /\ backstopBudget' = backstopBudget - 1
    /\ indexed' = indexed \cup {r}
    /\ known' = known \cup {r}
    /\ UNCHANGED <<hotDirs, hot, coldDirs, cold, partial, offloadIndex, phase, todo, late,
                   budget, cur, source, uncopied, ageVars, historyVars, faults>>

\* Mutant: the error is not looked at before the run joins the accounted set.
BackstopFailsCounted(r) ==
    /\ IsNext(r) /\ MayBackstop(r)
    /\ faults < MaxFaults /\ faults' = faults + 1
    /\ backstopBudget' = backstopBudget - 1
    /\ known' = known \cup {r}
    /\ UNCHANGED <<archiveVars, phase, todo, late, budget, cur, source, uncopied,
                   ageVars, historyVars>>

\* quarantine_aged_unaccounted_run caught an exception: the run stays stuck.
BackstopFails(r) ==
    /\ IsNext(r) /\ MayBackstop(r)
    /\ faults < MaxFaults /\ faults' = faults + 1
    /\ backstopBudget' = backstopBudget - 1
    /\ todo' = todo \ {r}
    /\ UNCHANGED <<archiveVars, phase, late, known, budget, cur, source, uncopied,
                   ageVars, historyVars>>

\* Stuck and not backstopped, or accounted for with the budget used up.
SkipRun(r) ==
    /\ IsNext(r)
    /\ IF r \in known THEN budget = 0 ELSE ~MayBackstop(r)
    /\ todo' = todo \ {r}
    /\ UNCHANGED <<archiveVars, phase, late, known, budget, backstopBudget, cur, source,
                   uncopied, ageVars, historyVars, faults>>

SelectRun(r) ==
    /\ IsNext(r) /\ r \in known /\ budget > 0
    /\ budget' = budget - 1
    /\ todo' = todo \ {r}
    /\ cur' = r /\ phase' = "manifest"
    /\ UNCHANGED <<archiveVars, late, known, backstopBudget, source, uncopied,
                   ageVars, historyVars, faults>>

EndPass ==
    /\ phase = "scan" /\ todo = {}
    /\ phase' = "idle"
    /\ UNCHANGED <<archiveVars, todo, late, known, budget, backstopBudget, cur, source,
                   uncopied, ageVars, historyVars, faults>>

-----------------------------------------------------------------------------
(* The move of one run.                                                     *)

\* Mutant: the final target is not looked for, every move starts afresh.
TakeManifestAfresh ==
    /\ phase = "manifest"
    /\ source' = hot[cur]
    /\ phase' = "clear"
    /\ UNCHANGED <<archiveVars, todo, late, known, budget, backstopBudget, cur, uncopied,
                   ageVars, historyVars, faults>>

TakeManifest ==
    /\ phase = "manifest"
    /\ source' = hot[cur]
    /\ phase' = IF cur \in coldDirs THEN "resume" ELSE "clear"
    /\ UNCHANGED <<archiveVars, todo, late, known, budget, backstopBudget, cur, uncopied,
                   ageVars, historyVars, faults>>

\* Mutant: only an unchanged source resumes, as before the subset check.
IsUntouchedSource == source = cold[cur]

\* Whatever is left of the source is in the cold copy: a previous pass died
\* before or inside its delete.  True also of an empty directory skeleton.
IsPartialDelete == \A f \in Files : source[f] \in {0, cold[cur][f]}

\* Mutant: the interrupted pass is taken to have written its index row.
ResumeUnindexed ==
    /\ phase = "resume" /\ IsPartialDelete
    /\ phase' = "delete"
    /\ UNCHANGED <<archiveVars, todo, late, known, budget, backstopBudget, cur, source,
                   uncopied, ageVars, historyVars, faults>>

Resume ==
    /\ phase = "resume" /\ IsPartialDelete
    /\ offloadIndex' = offloadIndex \cup {cur}
    /\ phase' = "delete"
    /\ UNCHANGED <<hotDirs, hot, coldDirs, cold, partial, indexed, todo, late, known,
                   budget, backstopBudget, cur, source, uncopied, ageVars, historyVars,
                   faults>>

ColdTargetMismatch ==
    /\ phase = "resume" /\ ~IsPartialDelete
    /\ phase' = "scan"
    /\ UNCHANGED <<archiveVars, todo, late, known, budget, backstopBudget, cur, source,
                   uncopied, ageVars, historyVars, faults>>

\* Drops the half copy of a crashed pass and lists the source for copytree.
ClearPartial ==
    /\ phase = "clear"
    /\ partial' = EmptyTree
    /\ uncopied' = {f \in Files : hot[cur][f] > 0}
    /\ phase' = "copy"
    /\ UNCHANGED <<hotDirs, hot, coldDirs, cold, indexed, offloadIndex, todo, late, known,
                   budget, backstopBudget, cur, source, ageVars, historyVars, faults>>

\* The copy of a file has its size at that moment.
CopyFile(f) ==
    /\ phase = "copy" /\ f \in uncopied
    /\ uncopied' = uncopied \ {f}
    /\ partial' = [partial EXCEPT ![f] = hot[cur][f]]
    /\ UNCHANGED <<hotDirs, hot, coldDirs, cold, indexed, offloadIndex, phase, todo, late,
                   known, budget, backstopBudget, cur, source, ageVars, historyVars,
                   faults>>

\* The cold tier kept less than was written to it (a full disk, a torn write).
CopyTruncated(f, size) ==
    /\ phase = "copy" /\ f \in uncopied
    /\ size < hot[cur][f]
    /\ faults < MaxFaults /\ faults' = faults + 1
    /\ uncopied' = uncopied \ {f}
    /\ partial' = [partial EXCEPT ![f] = size]
    /\ UNCHANGED <<hotDirs, hot, coldDirs, cold, indexed, offloadIndex, phase, todo, late,
                   known, budget, backstopBudget, cur, source, ageVars, historyVars>>

CopyVerified == partial = source

RenameIntoPlace ==
    /\ phase = "copy" /\ uncopied = {} /\ CopyVerified
    /\ cold' = [cold EXCEPT ![cur] = partial]
    /\ coldDirs' = coldDirs \cup {cur}
    /\ partial' = EmptyTree
    /\ phase' = "recheck"
    /\ UNCHANGED <<hotDirs, hot, indexed, offloadIndex, todo, late, known, budget,
                   backstopBudget, cur, source, uncopied, ageVars, historyVars, faults>>

CopyVerifyFailed ==
    /\ phase = "copy" /\ uncopied = {} /\ ~CopyVerified
    /\ partial' = EmptyTree
    /\ phase' = "scan"
    /\ UNCHANGED <<hotDirs, hot, coldDirs, cold, indexed, offloadIndex, todo, late, known,
                   budget, backstopBudget, cur, source, uncopied, ageVars, historyVars,
                   faults>>

SourceNotLookedAt == TRUE \* Mutant: no second look at the source.
SourceUnchanged == hot[cur] = source

Recheck ==
    /\ phase = "recheck"
    /\ phase' = IF SourceUnchanged THEN "index" ELSE "abort"
    /\ UNCHANGED <<archiveVars, todo, late, known, budget, backstopBudget, cur, source,
                   uncopied, ageVars, historyVars, faults>>

\* source_changed_during_move: the cold copy is removed.
AbortMove ==
    /\ phase = "abort"
    /\ coldDirs' = coldDirs \ {cur}
    /\ cold' = [cold EXCEPT ![cur] = EmptyTree]
    /\ phase' = "scan"
    /\ UNCHANGED <<hotDirs, hot, partial, indexed, offloadIndex, todo, late, known, budget,
                   backstopBudget, cur, source, uncopied, ageVars, historyVars, faults>>

\* That rmtree runs with ignore_errors: a fault leaves the directory, with some
\* of its files, under the final name.
AbortIgnoresErrors(gone) ==
    /\ phase = "abort"
    /\ faults < MaxFaults /\ faults' = faults + 1
    /\ cold' = [cold EXCEPT ![cur] = Without(@, gone)]
    /\ phase' = "scan"
    /\ UNCHANGED <<hotDirs, hot, coldDirs, partial, indexed, offloadIndex, todo, late, known,
                   budget, backstopBudget, cur, source, uncopied, ageVars, historyVars>>

WriteIndex ==
    /\ phase = "index"
    /\ offloadIndex' = offloadIndex \cup {cur}
    /\ phase' = "delete"
    /\ UNCHANGED <<hotDirs, hot, coldDirs, cold, partial, indexed, todo, late, known,
                   budget, backstopBudget, cur, source, uncopied, ageVars, historyVars,
                   faults>>

\* rmtree of the source, file by file, then the directory.
DeleteFile(f) ==
    /\ phase = "delete" /\ hot[cur][f] > 0
    /\ hot' = [hot EXCEPT ![cur][f] = 0]
    /\ UNCHANGED <<hotDirs, coldDirs, cold, partial, indexed, offloadIndex, passVars,
                   ageVars, historyVars, faults>>

DeleteDir ==
    /\ phase = "delete" /\ hot[cur] = EmptyTree
    /\ hotDirs' = hotDirs \ {cur}
    /\ phase' = "scan"
    /\ UNCHANGED <<hot, coldDirs, cold, partial, indexed, offloadIndex, todo, late, known,
                   budget, backstopBudget, cur, source, uncopied, ageVars, historyVars,
                   faults>>

\* Any call of _move_run_dir raises: the run is reported failed, the pass goes on.
MoveFails ==
    /\ phase \in MovePcs
    /\ faults < MaxFaults /\ faults' = faults + 1
    /\ phase' = "scan"
    /\ UNCHANGED <<archiveVars, todo, late, known, budget, backstopBudget, cur, source,
                   uncopied, ageVars, historyVars>>

\* The process dies; the next pass starts from the files alone.
Crash ==
    /\ phase # "idle"
    /\ faults < MaxFaults /\ faults' = faults + 1
    /\ phase' = "idle"
    /\ todo' = {} /\ late' = {} /\ known' = {} /\ uncopied' = {}
    /\ UNCHANGED <<archiveVars, budget, backstopBudget, cur, source, ageVars, historyVars>>

-----------------------------------------------------------------------------
ScanStep ==
    \/ StartPass \/ EndPass
    \/ \E r \in Runs : Backstop(r) \/ BackstopFails(r) \/ SkipRun(r) \/ SelectRun(r)

MoveStep ==
    \/ TakeManifest \/ Resume \/ ColdTargetMismatch \/ ClearPartial
    \/ \E f \in Files : CopyFile(f) \/ DeleteFile(f)
    \/ RenameIntoPlace \/ CopyVerifyFailed \/ Recheck \/ AbortMove
    \/ WriteIndex \/ DeleteDir

\* What can go wrong inside a move beside a raising call.
MoveFault ==
    \/ \E f \in Files, size \in 0..MaxSize : CopyTruncated(f, size)
    \/ \E gone \in SUBSET Files : AbortIgnoresErrors(gone)

Environment ==
    \E r \in Runs : GrowOlder(r) \/ Account(r) \/ \E f \in Files : AppendLate(r, f)

OffloadNext == Environment \/ ScanStep \/ MoveStep \/ MoveFault \/ MoveFails \/ Crash

OffloadSpec == OffloadInit /\ [][OffloadNext]_offloadVars

\* The ops runner starts the job again every interval, and a pass that is
\* running keeps taking steps; nothing obliges a fault, a writer or the clock.
FairOffloadSpec == OffloadSpec /\ WF_offloadVars(ScanStep \/ MoveStep)

-----------------------------------------------------------------------------
(* Safety.                                                                  *)

\* Whatever a file ever held is on one of the two tiers, whatever crashes,
\* fails or keeps writing, except what a writer added after the pass had
\* looked at the source for the last time (offload.py, _move_run_dir).
RawPreserved ==
    \A r \in Runs : \A f \in Files \ unseen[r] :
        hot[r][f] = written[r][f] \/ cold[r][f] = written[r][f]

Depleted(r) == r \notin hotDirs \/ \E f \in Files : hot[r][f] # written[r][f]

\* "A missing row is not harmless": a run directory loses its first file only
\* when the offload index says where its copy is, also after a crash between
\* rename and index write.
LocatableBeforeGone ==
    \A r \in Runs : Depleted(r) => r \in offloadIndex \cap coldDirs

\* On an indexed lane only a run with a promotion or quarantine row on disk
\* ever leaves the hot tier, whatever the pass believes.
OnlyAccountedLeave ==
    \A r \in Runs : Depleted(r) => AgeOnly \/ r \in indexed

\* Both: what leaves the hot tier is accounted for, and can be found afterwards.
LeavesInOrder == LocatableBeforeGone /\ OnlyAccountedLeave

\* Once indexed, the cold copy is never touched again: no later pass, resumed
\* or aborted, rewrites or removes it.
IndexedColdIsFinal ==
    [][\A r \in offloadIndex : r \in coldDirs' /\ cold'[r] = cold[r]]_offloadVars

(* Liveness.                                                                *)

Movable(r) == r \in aged /\ (AgeOnly \/ r \in indexed \/ (BackstopLimit > 0 /\ r \in overdue))

\* A cold directory that its source does not agree with: only a late writer, or a
\* failed removal of the fresh copy after one, leaves that, and an operator has to look.
Disagrees(r) ==
    r \in hotDirs \cap coldDirs /\ \E f \in Files : hot[r][f] \notin {0, cold[r][f]}

\* Every aged run that is accounted for, or that the backstop may account for,
\* eventually leaves the hot tier, after any finite number of crashes and beside a
\* late writer, unless a disagreement stays for good.
Relocated ==
    \/ <>[](\E r \in Zombies : Disagrees(r))
    \/ \A r \in Runs : Movable(r) ~> r \notin hotDirs
=============================================================================
