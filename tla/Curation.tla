------------------------------ MODULE Curation -------------------------------
(* How the runs of one lane are accounted for.  The lane's collector writes *)
(* them one after the other and scores each when it closes; the ops runner  *)
(* starts one maintenance pass at a time over the newest of them: the score *)
(* backfill (replay.py), the quarantine (quarantine.py), the promotion      *)
(* (promotion.py), and the backstop of the offload (offload.py).  Beside    *)
(* them an operator may run the repair of short runs (repromote.py).        *)
(*                                                                         *)
(* A clean file is its number of rows, a curated part-file the numbers of   *)
(* the rows of its run it holds (a flush writes a part of its own for each  *)
(* run and day), an index the last row it has for each run.                 *)
EXTENDS Integers, Sequences, FiniteSets

CONSTANTS
    Runs,         \* run directories, numbered in the order of their names
    Legacy,       \* runs promoted half before the scorer had its age floor
    MaxRows,      \* bound: rows a run captures
    BatchSize,    \* the promotion's parquet sink flushes at this many rows
    Limit,        \* a pass looks at this many of the newest runs
    SegmentAge,   \* the deadline of a segment, looked at after each frame
    Watchdog,     \* a lane without frames ends its segment, too
    Floor,        \* the backfill scores no run younger than this
    Window,       \* scorer, quarantine and promotion look at no older run
    BackstopAge,  \* the offload quarantines an unaccounted run of this age
    MaxAge,       \* bound: ages are not told apart beyond this
    Backstop,     \* the offload job has its backstop on
    MinPercent,   \* a promoted run with fewer of its rows than this is short
    MaxFaults     \* bound: crashes, power losses and raising calls

ASSUME RunsAssumption == Runs \subseteq Nat /\ IsFiniteSet(Runs) /\ Legacy \subseteq Runs
ASSUME RowsAssumption ==
    MaxRows \in Nat \ {0} /\ BatchSize \in Nat \ {0} /\ MinPercent \in 0..100
ASSUME AgeAssumption ==
    /\ SegmentAge \in Nat /\ Floor \in Nat /\ Window \in Nat /\ MaxAge \in Nat
    /\ BackstopAge \in Nat /\ SegmentAge <= BackstopAge /\ SegmentAge <= MaxAge
ASSUME PassAssumption ==
    Limit \in Nat /\ Backstop \in BOOLEAN /\ Watchdog \in BOOLEAN /\ MaxFaults \in Nat

VARIABLES
    segment, rows, age,      \* of each run: its state, clean rows, and age
    tornTail,                \* runs whose clean file ends in half a line
    verdict, scored,         \* replay_summary.json: replayable and event_count
    promoted,                \* promoted_rows of its latest index row, or Absent
    removed,                 \* runs whose latest row is removed_not_replayable
    quarantined,             \* runs with a quarantine row
    curated,                 \* the part-files of each run, each a set of its rows
    unsynced,                \* runs whose last part-file is not fsynced yet
    job, todo, cur, pos,     \* the maintenance pass, the runs it has to visit,
                             \* the run it promotes and how far that is,
    passed, stored,          \* the rows of that run it has read, and flushed
    accounted,               \* runs in the index it skips, as it read them
    shunned,                 \* runs in the quarantine index, as promotion read it
    buffer,                  \* the rows of each run in the promotion's parquet sink
    repair, short, scan,     \* the repair, its candidates, the part-files its
                             \* scan saw of each run,
    mend, keep,              \* the run it repairs, and its verdict as it was read
    faults,
    lateFaults               \* history: faults that struck a run from its first
                             \* part-file to its index row

runVars == <<segment, rows, age, tornTail>>
scoreVars == <<verdict, scored>>
indexVars == <<promoted, removed, quarantined>>
dataVars == <<curated, unsynced>>
passVars == <<job, todo, cur, passed, stored, pos, accounted, shunned, buffer>>
repairVars == <<repair, short, scan, mend, keep>>
faultVars == <<faults, lateFaults>>
vars == <<runVars, scoreVars, indexVars, dataVars, passVars, repairVars, faultVars>>

Absent == -1
Verdicts == {"none", "replayable", "unreplayable"}
Jobs == {"score", "quarantine", "promote", "backstop"}
EmptyBuffer == [r \in Runs |-> {}]
RowNumbers == 1..MaxRows

TypeOK ==
    /\ segment \in [Runs -> {"future", "open", "closed"}]
    /\ rows \in [Runs -> 0..MaxRows] /\ age \in [Runs -> 0..MaxAge]
    /\ tornTail \subseteq Runs
    /\ verdict \in [Runs -> Verdicts] /\ scored \in [Runs -> 0..MaxRows]
    /\ promoted \in [Runs -> {Absent} \cup 0..MaxRows]
    /\ removed \subseteq Runs /\ quarantined \subseteq Runs
    /\ curated \in [Runs -> Seq(SUBSET RowNumbers)] /\ unsynced \subseteq Runs
    /\ job \in Jobs \cup {"none"} /\ todo \subseteq Runs
    /\ pos \in {"visit", "reading", "buffered", "flushed", "durable"}
    /\ pos # "visit" => job = "promote" /\ cur \in Runs
    /\ accounted \subseteq Runs /\ shunned \subseteq Runs
    /\ buffer \in [Runs -> SUBSET RowNumbers]
    /\ passed \in 0..MaxRows /\ stored \in 0..passed
    /\ repair \in {"idle", "select", "check", "delete", "write", "sync", "index"}
    /\ repair \in {"delete", "write", "sync", "index"} => mend \in Runs
    /\ short \subseteq Runs /\ scan \in [Runs -> Nat]
    /\ faults \in 0..MaxFaults /\ lateFaults \in [Runs -> Nat]

\* A legacy run was scored and promoted on the prefix it had at the time.
Init ==
    /\ segment = [r \in Runs |-> IF r \in Legacy THEN "closed" ELSE "future"]
    /\ rows = [r \in Runs |-> IF r \in Legacy THEN MaxRows ELSE 0]
    /\ age = [r \in Runs |-> IF r \in Legacy THEN SegmentAge ELSE 0]
    /\ tornTail = {}
    /\ verdict = [r \in Runs |-> IF r \in Legacy THEN "replayable" ELSE "none"]
    /\ scored = [r \in Runs |-> IF r \in Legacy THEN 1 ELSE 0]
    /\ promoted = [r \in Runs |-> IF r \in Legacy THEN 1 ELSE Absent]
    /\ removed = {} /\ quarantined = {}
    /\ curated = [r \in Runs |-> IF r \in Legacy THEN <<{1}>> ELSE <<>>]
    /\ unsynced = {}
    /\ job = "none" /\ todo = {} /\ cur = 0 /\ passed = 0 /\ stored = 0 /\ pos = "visit"
    /\ accounted = {} /\ shunned = {} /\ buffer = EmptyBuffer
    /\ repair = "idle" /\ short = {} /\ scan = [r \in Runs |-> 0] /\ mend = 0 /\ keep = FALSE
    /\ faults = 0 /\ lateFaults = [r \in Runs |-> 0]

-----------------------------------------------------------------------------
(* The collector of the lane.                                               *)

\* A run is scored on its n rows on disk; one without rows is not replayable.
ScoreAs(r, n, v) ==
    /\ v = "replayable" => n > 0
    /\ verdict' = [verdict EXCEPT ![r] = v]
    /\ scored' = [scored EXCEPT ![r] = n]

OpenSegment(r) ==
    /\ segment[r] = "future"
    /\ \A s \in Runs : s < r => segment[s] = "closed"
    /\ segment' = [segment EXCEPT ![r] = "open"]
    /\ UNCHANGED <<rows, age, tornTail, scoreVars, indexVars, dataVars, passVars,
                   repairVars, faultVars>>

WriteRow(r) ==
    /\ segment[r] = "open" /\ rows[r] < MaxRows /\ age[r] < SegmentAge
    /\ rows' = [rows EXCEPT ![r] = @ + 1]
    /\ UNCHANGED <<segment, age, tornTail, scoreVars, indexVars, dataVars, passVars,
                   repairVars, faultVars>>

\* The deadline of the segment: the sinks close and the run is scored in line.
CloseSegment(r, v) ==
    /\ segment[r] = "open"
    /\ segment' = [segment EXCEPT ![r] = "closed"]
    /\ ScoreAs(r, rows[r], v)
    /\ UNCHANGED <<rows, age, tornTail, indexVars, dataVars, passVars, repairVars,
                   faultVars>>

\* The deadline has passed unseen while the feed was silent: the first frame
\* that comes is still written, then the segment closes.
LastRow(r, v) ==
    /\ segment[r] = "open" /\ rows[r] < MaxRows /\ age[r] >= SegmentAge
    /\ rows' = [rows EXCEPT ![r] = @ + 1]
    /\ segment' = [segment EXCEPT ![r] = "closed"]
    /\ ScoreAs(r, rows[r] + 1, v)
    /\ UNCHANGED <<age, tornTail, indexVars, dataVars, passVars, repairVars, faultVars>>

\* The worker dies, or an exception ends the segment: there is no summary.
KillSegment(r) ==
    /\ segment[r] = "open"
    /\ segment' = [segment EXCEPT ![r] = "closed"]
    /\ UNCHANGED <<rows, age, tornTail, scoreVars, indexVars, dataVars, passVars,
                   repairVars, faultVars>>

\* Runs age in the order of their names; with the watchdog an open segment
\* meets its deadline.
GrowOlder(r) ==
    /\ segment[r] # "future" /\ age[r] < MaxAge
    /\ Watchdog /\ segment[r] = "open" => age[r] + 1 < SegmentAge
    /\ \A s \in Runs : s < r => age[s] > age[r]
    /\ age' = [age EXCEPT ![r] = @ + 1]
    /\ UNCHANGED <<segment, rows, tornTail, scoreVars, indexVars, dataVars, passVars,
                   repairVars, faultVars>>

-----------------------------------------------------------------------------
(* The start of a pass: the listing, the age window and the indexes it reads. *)

Captured == {r \in Runs : segment[r] # "future"}

\* _recent_run_dirs, and the cutoff that each pass applies to it.
Recent == {r \in Captured : Cardinality({s \in Captured : s > r}) < Limit}
InWindow == {r \in Recent : age[r] <= Window}

IndexedPromoted == {r \in Runs : promoted[r] # Absent}

StartPass(j, visits, known, avoid) ==
    /\ job = "none"
    /\ job' = j /\ todo' = visits /\ accounted' = known /\ shunned' = avoid
    /\ pos' = "visit" /\ buffer' = EmptyBuffer
    /\ UNCHANGED <<cur, passed, stored, runVars, scoreVars, indexVars, dataVars, repairVars, faultVars>>

RipeAtAnyAge == InWindow \* Mutant: the min_age_hours floor is left at its default.
Ripe == {r \in InWindow : age[r] >= Floor}

StartScore == StartPass("score", Ripe, {}, {})
StartQuarantine == StartPass("quarantine", InWindow, quarantined, {})
StartPromote == StartPass("promote", InWindow, IndexedPromoted, quarantined)

\* Mutant: the backstop walks the same window as the other passes.
StuckInWindow == {r \in InWindow : age[r] >= BackstopAge}
Stuck == {r \in Captured : age[r] >= BackstopAge}

StartBackstop ==
    /\ Backstop
    /\ StartPass("backstop", Stuck, quarantined \cup IndexedPromoted, {})

\* The newest run left, in the order of _recent_run_dirs.
Visits(j, r) == job = j /\ pos = "visit" /\ r \in todo /\ \A s \in todo : s <= r

Visited(r) == todo' = todo \ {r}

-----------------------------------------------------------------------------
(* Score backfill, quarantine and backstop: one step for each run.          *)

ScoreRun(r, v) ==
    /\ Visits("score", r) /\ Visited(r)
    /\ verdict[r] = "none" /\ r \notin tornTail
    /\ ScoreAs(r, rows[r], v)
    /\ UNCHANGED <<runVars, indexVars, dataVars, job, cur, passed, stored, pos, accounted, shunned, buffer,
                   repairVars, faultVars>>

\* An existing summary is kept; half a line in the clean file raises.
SkipScoring(r) ==
    /\ Visits("score", r) /\ Visited(r)
    /\ verdict[r] # "none" \/ r \in tornTail
    /\ UNCHANGED <<runVars, scoreVars, indexVars, dataVars, job, cur, passed, stored, pos, accounted,
                   shunned, buffer, repairVars, faultVars>>

MustQuarantine(r) ==
    r \notin accounted /\ (job = "backstop" \/ verdict[r] = "unreplayable")

QuarantineRun(r) ==
    /\ Visits("quarantine", r) \/ Visits("backstop", r)
    /\ Visited(r)
    /\ quarantined' = IF MustQuarantine(r) THEN quarantined \cup {r} ELSE quarantined
    /\ UNCHANGED <<runVars, scoreVars, promoted, removed, dataVars, job, cur, passed, stored, pos,
                   accounted, shunned, buffer, repairVars, faultVars>>

-----------------------------------------------------------------------------
(* Promotion: rows to the parquet buffer, flush, fsync, index row.          *)

MayPromoteQuarantined(r) == verdict[r] = "replayable" /\ r \notin accounted

MayPromote(r) == verdict[r] = "replayable" /\ r \notin accounted \cup shunned

SkipPromotion(r) ==
    /\ Visits("promote", r) /\ Visited(r)
    /\ ~MayPromote(r)
    /\ UNCHANGED <<runVars, scoreVars, indexVars, dataVars, job, cur, passed, stored, pos, accounted,
                   shunned, buffer, repairVars, faultVars>>

\* _read_jsonl reads all of the run before the first row goes to the sink.
BufferRun(r) ==
    /\ Visits("promote", r) /\ Visited(r)
    /\ MayPromote(r)
    /\ cur' = r /\ passed' = rows[r] /\ stored' = 0 /\ pos' = "reading"
    /\ UNCHANGED <<runVars, scoreVars, indexVars, dataVars, job, accounted, shunned, buffer,
                   repairVars, faultVars>>

\* How many rows of the run are in part-files once the next batch is, too.
Filled == IF passed - stored < BatchSize THEN passed ELSE stored + BatchSize

\* Rows go to the sink until it flushes by itself, or the run has no more.
FillBuffer ==
    /\ pos = "reading"
    /\ pos' = "buffered"
    /\ buffer' = [buffer EXCEPT ![cur] = (stored + 1)..Filled]
    /\ UNCHANGED <<runVars, scoreVars, indexVars, dataVars, job, todo, cur, passed, stored,
                   accounted, shunned, repairVars, faultVars>>

\* Mutant: the rows since the last flush stay in the shared buffer.
BufferFailsKept(n) ==
    /\ pos = "reading" /\ stored + n < Filled
    /\ faults < MaxFaults /\ faults' = faults + 1
    /\ lateFaults' = [lateFaults EXCEPT ![cur] = @ + IF stored > 0 THEN 1 ELSE 0]
    /\ buffer' = [buffer EXCEPT ![cur] = (stored + 1)..(stored + n)]
    /\ stored' = 0 /\ pos' = "visit"
    /\ UNCHANGED <<runVars, scoreVars, indexVars, dataVars, job, todo, cur, passed,
                   accounted, shunned, repairVars>>

\* A row raises after n went to the buffer: discard() drops what the buffer holds, and
\* not what the sink has flushed by itself.
BufferFails(n) ==
    /\ pos = "reading" /\ stored + n < Filled
    /\ faults < MaxFaults /\ faults' = faults + 1
    /\ lateFaults' = [lateFaults EXCEPT ![cur] = @ + IF stored > 0 THEN 1 ELSE 0]
    /\ buffer' = EmptyBuffer
    /\ stored' = 0 /\ pos' = "visit"
    /\ UNCHANGED <<runVars, scoreVars, indexVars, dataVars, job, todo, cur, passed,
                   accounted, shunned, repairVars>>

Buffered == {r \in Runs : buffer[r] # {}}

\* The part-files after a flush of the buffer.
Flushed == [r \in Runs |-> IF r \in Buffered THEN Append(curated[r], buffer[r])
                           ELSE curated[r]]

\* By itself at BatchSize, or called at the end of the run; an empty buffer is left alone.
Flush ==
    /\ pos = "buffered"
    /\ curated' = Flushed
    /\ unsynced' = unsynced \cup Buffered
    /\ stored' = Filled
    /\ buffer' = EmptyBuffer
    /\ pos' = "flushed"
    /\ UNCHANGED <<runVars, scoreVars, indexVars, job, todo, cur, passed, accounted, shunned,
                   repairVars, faultVars>>

AfterFlush == IF stored < passed THEN "reading" ELSE "durable"

\* Mutant: the promotion opens its sink without fsync_parts.
SyncPartsSkipped ==
    /\ pos = "flushed"
    /\ pos' = AfterFlush
    /\ UNCHANGED <<runVars, scoreVars, indexVars, dataVars, job, todo, cur, passed, stored,
                   accounted, shunned, buffer, repairVars, faultVars>>

\* Every flush fsyncs what it wrote; then the row loop or the promotion goes on.
SyncParts ==
    /\ pos = "flushed"
    /\ unsynced' = unsynced \ {cur}
    /\ pos' = AfterFlush
    /\ UNCHANGED <<runVars, scoreVars, indexVars, curated, job, todo, cur, passed, stored,
                   accounted, shunned, buffer, repairVars, faultVars>>

\* The index row counts the rows that were read.
AppendPromoted ==
    /\ pos = "durable"
    /\ promoted' = [promoted EXCEPT ![cur] = passed]
    /\ accounted' = accounted \cup {cur}
    /\ stored' = 0 /\ pos' = "visit"
    /\ UNCHANGED <<runVars, scoreVars, removed, quarantined, dataVars, job, todo, cur, passed,
                   shunned, buffer, repairVars, faultVars>>

\* A flush (which may have written), its fsync or the index write raises: what is on disk
\* stays, the run has no index row, and the buffer is discarded.
PromotionFails(written) ==
    /\ pos \in {"buffered", "flushed", "durable"} /\ (written => pos = "buffered")
    /\ faults < MaxFaults /\ faults' = faults + 1
    /\ lateFaults' = [lateFaults EXCEPT ![cur] = @ + IF stored > 0 \/ written THEN 1 ELSE 0]
    /\ curated' = IF written THEN Flushed ELSE curated
    /\ unsynced' = IF written THEN unsynced \cup Buffered ELSE unsynced
    /\ buffer' = EmptyBuffer
    /\ stored' = 0 /\ pos' = "visit"
    /\ UNCHANGED <<runVars, scoreVars, indexVars, job, todo, cur, passed, accounted, shunned,
                   repairVars>>

\* The pass ends; promotion flushes its buffer once more.
EndPass ==
    /\ job # "none" /\ pos = "visit" /\ todo = {}
    /\ job' = "none"
    /\ curated' = Flushed /\ unsynced' = unsynced \cup Buffered
    /\ buffer' = EmptyBuffer
    /\ UNCHANGED <<runVars, scoreVars, indexVars, todo, cur, passed, stored, pos, accounted,
                   shunned, repairVars, faultVars>>

-----------------------------------------------------------------------------
(* The operator: a new verdict for a run, and the repair of the short runs. *)

\* backfill-replay --overwrite on a run whose summary the repair found stale.
Rescore(r, v) ==
    /\ r \in Legacy /\ scored[r] # rows[r]
    /\ ScoreAs(r, rows[r], v)
    /\ UNCHANGED <<runVars, indexVars, dataVars, passVars, repairVars, faultVars>>

IsShort(r) == rows[r] > 0 /\ promoted[r] * 100 < rows[r] * MinPercent

\* Mutant: the candidates are the runs on disk, not those of the index.
NeedsRepairUnindexed(r) == age[r] >= Floor /\ r \notin removed /\ IsShort(r)

\* A run of the index, short, not settled by a removal, and not still written.
NeedsRepair(r) ==
    age[r] >= Floor /\ promoted[r] # Absent /\ r \notin removed /\ IsShort(r)

StartRepair ==
    /\ repair = "idle" /\ \E r \in Runs : NeedsRepair(r)
    /\ repair' = "select"
    /\ short' = {r \in Runs : NeedsRepair(r)}
    /\ UNCHANGED <<scan, mend, keep, runVars, scoreVars, indexVars, dataVars, passVars, faultVars>>

\* build_run_file_map: one scan of the dataset for the whole repair.
ScanDataset ==
    /\ repair = "select"
    /\ repair' = "check"
    /\ scan' = [r \in Runs |-> Len(curated[r])]
    /\ UNCHANGED <<short, mend, keep, runVars, scoreVars, indexVars, dataVars, passVars, faultVars>>

NextShort(r) == repair = "check" /\ r \in short /\ \A s \in short : r <= s

\* No summary, or a verdict on fewer rows than there are.
IsStale(r) ==
    \/ verdict[r] = "none"
    \/ verdict[r] = "replayable" /\ scored[r] # rows[r]

SkipShort(r) ==
    /\ NextShort(r) /\ IsStale(r)
    /\ short' = short \ {r}
    /\ UNCHANGED <<repair, scan, mend, keep, runVars, scoreVars, indexVars, dataVars, passVars,
                   faultVars>>

RepairRun(r) ==
    /\ NextShort(r) /\ ~IsStale(r)
    /\ short' = short \ {r}
    /\ mend' = r /\ keep' = (verdict[r] = "replayable") /\ repair' = "delete"
    /\ UNCHANGED <<scan, runVars, scoreVars, indexVars, dataVars, passVars, faultVars>>

\* The files of the scan go one by one; they are the first of the run's parts.
DeletePart ==
    /\ repair = "delete" /\ scan[mend] > 0
    /\ curated' = [curated EXCEPT ![mend] = Tail(@)]
    /\ scan' = [scan EXCEPT ![mend] = @ - 1]
    /\ UNCHANGED <<repair, short, mend, keep, runVars, scoreVars, indexVars, unsynced, passVars,
                   faultVars>>

\* Mutant: the index row comes before the run is written anew.
PartsDeletedIndexFirst ==
    /\ repair = "delete" /\ scan[mend] = 0
    /\ repair' = "index"
    /\ UNCHANGED <<short, scan, mend, keep, runVars, scoreVars, indexVars, dataVars, passVars,
                   faultVars>>

\* With the parts gone, a replayable run is written anew, another is not.
PartsDeleted ==
    /\ repair = "delete" /\ scan[mend] = 0
    /\ repair' = IF keep THEN "write" ELSE "index"
    /\ UNCHANGED <<short, scan, mend, keep, runVars, scoreVars, indexVars, dataVars, passVars,
                   faultVars>>

RewriteRun ==
    /\ repair = "write"
    /\ curated' = [curated EXCEPT ![mend] = Append(@, 1..rows[mend])]
    /\ unsynced' = unsynced \cup {mend}
    /\ repair' = "sync"
    /\ UNCHANGED <<short, scan, mend, keep, runVars, scoreVars, indexVars, passVars, faultVars>>

SyncRewritten ==
    /\ repair = "sync"
    /\ unsynced' = unsynced \ {mend}
    /\ repair' = "index"
    /\ UNCHANGED <<short, scan, mend, keep, runVars, scoreVars, indexVars, curated, passVars,
                   faultVars>>

\* The superseding index row: all the rows, or none and removed_not_replayable.
AppendRepaired ==
    /\ repair = "index"
    /\ IF keep
       THEN promoted' = [promoted EXCEPT ![mend] = rows[mend]] /\ UNCHANGED removed
       ELSE promoted' = [promoted EXCEPT ![mend] = 0] /\ removed' = removed \cup {mend}
    /\ repair' = "check"
    /\ UNCHANGED <<short, scan, mend, keep, runVars, scoreVars, quarantined, dataVars, passVars,
                   faultVars>>

EndRepair ==
    /\ repair = "check" /\ short = {}
    /\ repair' = "idle"
    /\ UNCHANGED <<short, scan, mend, keep, runVars, scoreVars, indexVars, dataVars, passVars,
                   faultVars>>

\* A call raises: the report carries the error and the next candidate is tried.
RepairFails ==
    /\ repair \in {"delete", "write", "sync", "index"}
    /\ faults < MaxFaults /\ faults' = faults + 1
    /\ repair' = "check"
    /\ UNCHANGED <<short, scan, mend, keep, runVars, scoreVars, indexVars, dataVars, passVars,
                   lateFaults>>

-----------------------------------------------------------------------------
(* Crashes and power losses.                                                *)

\* The run whose part-files would be on disk without an index row.
Unindexed == IF stored > 0 THEN {cur} ELSE {}

PassDies ==
    /\ job' = "none" /\ todo' = {} /\ accounted' = {} /\ shunned' = {}
    /\ pos' = "visit" /\ stored' = 0 /\ buffer' = EmptyBuffer
    /\ lateFaults' = [r \in Runs |-> lateFaults[r] + IF r \in Unindexed THEN 1 ELSE 0]
    /\ UNCHANGED <<cur, passed>>

RepairDies == repair' = "idle" /\ short' = {} /\ UNCHANGED <<scan, mend, keep>>

CrashPass ==
    /\ job # "none"
    /\ faults < MaxFaults /\ faults' = faults + 1
    /\ PassDies
    /\ UNCHANGED <<runVars, scoreVars, indexVars, dataVars, repairVars>>

CrashRepair ==
    /\ repair # "idle"
    /\ faults < MaxFaults /\ faults' = faults + 1
    /\ RepairDies
    /\ UNCHANGED <<runVars, scoreVars, indexVars, dataVars, passVars, lateFaults>>

AllButLast(parts) == SubSeq(parts, 1, Len(parts) - 1)

\* Every process ends.  An open clean file keeps a prefix of its rows, perhaps
\* with half a line; part-files that were not fsynced may be gone.
PowerLoss(kept, torn, lost) ==
    /\ faults < MaxFaults /\ faults' = faults + 1
    /\ \A r \in Runs : kept[r] <= rows[r] /\ (segment[r] = "open" \/ kept[r] = rows[r])
    /\ \A r \in torn : segment[r] = "open" /\ kept[r] < rows[r]
    /\ rows' = kept /\ tornTail' = tornTail \cup torn
    /\ segment' = [r \in Runs |-> IF segment[r] = "open" THEN "closed" ELSE segment[r]]
    /\ lost \subseteq unsynced
    /\ curated' = [r \in Runs |-> IF r \in lost THEN AllButLast(curated[r]) ELSE curated[r]]
    /\ unsynced' = {}
    /\ PassDies /\ RepairDies
    /\ UNCHANGED <<age, scoreVars, indexVars>>

-----------------------------------------------------------------------------
Collector ==
    \E r \in Runs : \/ OpenSegment(r) \/ WriteRow(r) \/ KillSegment(r) \/ GrowOlder(r)
                    \/ \E v \in Verdicts \ {"none"} : CloseSegment(r, v) \/ LastRow(r, v)

Starts == StartScore \/ StartQuarantine \/ StartPromote \/ StartBackstop

PassStep ==
    \/ \E r \in Runs : \/ SkipScoring(r) \/ QuarantineRun(r)
                       \/ SkipPromotion(r) \/ BufferRun(r)
                       \/ \E v \in Verdicts \ {"none"} : ScoreRun(r, v)
    \/ FillBuffer \/ Flush \/ SyncParts \/ AppendPromoted \/ EndPass

Operator ==
    \/ \E r \in Runs : \/ SkipShort(r) \/ RepairRun(r)
                       \/ \E v \in Verdicts \ {"none"} : Rescore(r, v)
    \/ StartRepair \/ ScanDataset \/ DeletePart \/ PartsDeleted
    \/ RewriteRun \/ SyncRewritten \/ AppendRepaired \/ EndRepair

Fault ==
    \/ \E n \in 0..(MaxRows - 1) : BufferFails(n)
    \/ \E written \in BOOLEAN : PromotionFails(written)
    \/ RepairFails \/ CrashPass \/ CrashRepair
    \/ \E kept \in [Runs -> 0..MaxRows], torn, lost \in SUBSET Runs :
          PowerLoss(kept, torn, lost)

Next == Collector \/ Starts \/ PassStep \/ Operator \/ Fault

Spec == Init /\ [][Next]_vars

\* A lane's worker goes on with its segments, which age; a pass that is running goes on, and
\* the ops runner, oldest due first, starts the backstop again and again.
FairSpec ==
    /\ Spec
    /\ WF_vars(PassStep) /\ SF_vars(StartBackstop)
    /\ WF_vars(\E r \in Runs : GrowOlder(r))
    /\ WF_vars(\E r \in Runs : \/ OpenSegment(r) \/ KillSegment(r)
                              \/ \E v \in Verdicts : CloseSegment(r, v))

-----------------------------------------------------------------------------
(* Safety.                                                                  *)

New == Runs \ Legacy

\* The part-files that hold row n of their run.
Copies(parts, n) == {i \in DOMAIN parts : n \in parts[i]}

\* No row of a run is in more part-files than one and the faults that struck the run
\* from its first part-file to its index row: a read that fails before the sink has
\* flushed, a poisoned buffer or a repeated pass adds none (promotion.py, discard and
\* promoted_runs).
CopiesNeedLateFaults ==
    \A r \in New : \A n \in RowNumbers : Cardinality(Copies(curated[r], n)) <= 1 + lateFaults[r]

\* "An index entry must imply the Parquet rows for that run are durably on
\* disk": whatever crashes later, all rows of a promoted run are in its parts.
IndexedIsDurable ==
    \A r \in New : promoted[r] # Absent =>
        \A n \in 1..promoted[r] : Copies(curated[r], n) # {}

\* "DISCARD this run's buffered rows [...] persisting the partial rows here would
\* duplicate them" (promotion.py, 200-203): a run that fails among its rows for the first
\* time has nothing in the dataset.  A run longer than the sink's batch has.
FailedRunIsDiscarded ==
    [][\A n \in 0..(MaxRows - 1) :
        BufferFails(n) /\ lateFaults[cur] = 0 => curated'[cur] = <<>>]_vars

Total(parts) ==
    LET sum[i \in 0..Len(parts)] ==
            IF i = 0 THEN 0 ELSE sum[i - 1] + Cardinality(parts[i])
    IN  sum[Len(parts)]

\* Wherever a repair dies, a run whose part-files do not add up to its index
\* row is still short by that row, so the next repair finds it again.
BrokenRepairIsFound ==
    \A r \in Legacy : Total(curated[r]) # promoted[r] => NeedsRepair(r)

\* "It only ever touches runs the promoter has already indexed, so the two never
\* write the same run" (repromote.py), in any interleaving of the two processes.
WritersApart ==
    pos # "visit" /\ repair \in {"delete", "write", "sync", "index"} => cur # mend

\* The fate of each new run, as the two indexes tell it (RunFate.tla): a run is
\* promoted whole, promoted or quarantined but never both, and once.
IndexFate(r) ==
    IF promoted[r] # Absent
    THEN IF r \in quarantined THEN "both" ELSE "promoted"
    ELSE IF r \in quarantined THEN "quarantined" ELSE "none"

Fate == INSTANCE RunFate WITH
    Runs <- New,
    captured <- [r \in New |-> rows[r]],
    fate <- [r \in New |-> IndexFate(r)]

FateSpec == Fate!Spec

(* Liveness.                                                                *)

Accounted(r) == r \in quarantined \/ promoted[r] # Absent

\* With the backstop on, every run of the lane gets its index row, whatever
\* becomes of its worker, its clean file and the passes over it.
AccountingCloses == <>(\A r \in Runs : Accounted(r))
=============================================================================
