# crypto-market-data-plant in TLA+

A verification project for the capture plant under `src/crypto_collector/`: TLA+
models of its parts, TLC runs over small instances, and TLAPS proofs for every
value of the constants. Paths below are relative to `src/crypto_collector/`.

## 1. The system

The plant captures public market data. A *worker* connects to a venue, writes
what it receives to a *run directory* (`<lane>/run_id=...`) and ends its segment
after a deadline. An *ops runner* (one per plant) starts workers and maintenance
jobs on a schedule. Maintenance scores each run (can its order book be replayed?),
*promotes* replayable runs to the curated dataset, *quarantines* the others and
*offloads* aged raw runs to a cold tier. Components talk to each other almost only
through files: a run's `replay_summary.json`, the append-only indexes
(`_promotion_index.jsonl`, `_quarantine_index.jsonl`, `_offload_index.jsonl`),
lock files and heartbeats. No two of them share memory, and each may be killed.

| component | state | operations | talks to | module |
|---|---|---|---|---|
| Scheduler (`ops.py`, `OpsRunner`) | next due time per job, futures in flight, heartbeat | dispatch, reap, finalise, drain, refresh the heartbeat | workers and passes, the lock, the health report | `Scheduler` |
| Health report (`ops.py`, `build_health_report`) | none | judge heartbeat and job rows | the runner's files | `Health` |
| Runner and worker locks (`ops.py`) | lock file, heartbeat file | acquire, break stale, heartbeat, release | every launcher | `RunnerLock` |
| WebSocket worker, pipeline, JSONL sinks (`collectors/generic_ws.py`, `pipeline.py`, `storage.py`, `cli.py`) | socket, back-off, watchdog, segment deadline, files and what is synced | connect, receive, write, shut down, score | venue, scorer | `Segment` |
| Depth lanes (`cli.py`, `replay.py`) | snapshot in use, buffer, book under reconstruction | open, bridge, reopen, record, score | venue | `DepthLane` |
| Tape lanes, quality gate, normalizers (`quality.py`, `market_normalizers.py`, `replay.py`) | the gate's cursor, rows of a run | normalise, judge, score | venue | `TapeLane`, `Verdicts` |
| Wallet flow (`collectors/hyperliquid_wallet_flow.py`, `wallet_flow_backfill.py`) | the poller's memory, run directories of the lane | poll, write, end a segment, backfill | venue, maintenance | `WalletFlow` |
| Aggregate trades over REST (`collectors/binance_futures_rest.py`) | cursor file, pager | resume, poll, save the cursor | venue, maintenance | `AggCursor` |
| Score backfill, quarantine, promotion (`replay.py`, `quarantine.py`, `promotion.py`), parquet sink (`storage.py`) | summaries, two indexes, curated part-files | one pass each | scheduler, offload | `Curation` (abstract: `RunFate`) |
| Repair of short promotions (`repromote.py`) | superseding index rows | select, scan, delete, rewrite, index | promotion | `Curation` |
| Cold-tier offload (`offload.py`) | offload index, both tiers | scan, backstop, move | indexes | `Offload` |
| Canary grants (`canary.py`) | SQLite ledger, receipts | claim, admit, close, stop, finalise | canary workers | `Canary` |
| Evidence lease (`evidence_lease.py`) | SQLite row and claims of a trial, lock on a byte | claim, check, stop, release | session evidence of several runs | `EvidenceLease` |
| Session evidence (`session_evidence.py`, hooks in collector and pipeline) | flags of the session, queue, journal, manifest | note, write, finish, publish, verify | collector, lease, offline verifier | `SessionEvidence` |
| Text feeds (`collectors/text_feeds.py`, `text_normalizers.py`) | seen file, validators | poll, write, save the seen file | publisher | `TextFeed` |
| Kalshi, snapshot, funding and depth polls (`collectors/kalshi.py`, `raw_snapshot.py`, ...) | nothing from one poll to the next | sample, write | venue | not modelled |
| Research manifest, CLI, data types, generated code | none of their own | read, print | | not modelled |

What is hard here, and why the tests hardly reach it:

- a process may die between any two writes: rename and index row, index row and
  delete, flush and index row, receipt and ledger row, row and cursor;
- a worker outlives its segment (a hung thread, a silent feed), and the passes
  that follow believe its directory is finished;
- a frame is lost, repeated or overtaken, a connection is reopened in the middle of
  a run, and the verdict on the run has to tell whether that mattered;
- a poller resumes from what it finds on disk, while maintenance moves those files;
- passes act on indexes read once, while age windows of several passes overlap;
- two launchers race for one lock file whose protocol is built from O_EXCL,
  mtimes, heartbeats and a rename;
- the scheduler, two executors and the heartbeat thread share one record of what runs,
  and the health report must tell a sick runner from a busy one by its files alone;
- a session's evidence is judged at capture by flags and later from files, and its writer,
  the lease it needs and the capture give up on each other after timeouts;
- budgets, limits and graces leave runs behind unless every case is accounted for.

`PROJECT.json` lists each such hazard at its line with the properties that cover it.

## 2. Modules

### Offload - the move of raw runs to the cold tier

One lane, one pass after the other, each over the aged runs in the order of
their names. `ScanStep` is the loop of `offload_accounted_runs` (accounting,
backstop, budgets); `MoveStep` is `_move_run_dir`: manifest, copy into
`.partial`, verification, rename, second look at the source, index row, delete.
`phase` names the place in that code; the process may crash at every value of it
(`Crash`), every call may raise (`MoveFails`, `BackstopFails`), a copy may come
out short, `rmtree(ignore_errors)` may leave a part. A *zombie* writer may append
to a source at any time. A directory tree is the function from its files to their
sizes, which is all that `_file_manifest` compares; 0 is "not there". Several
lanes do not share state, so one lane stands for all; free space and archive
paths are left out.

Safety: `RawPreserved` (a byte a pass could have seen is on one of the tiers),
`LeavesInOrder` (`LocatableBeforeGone`: a run loses no file before the offload index
locates its copy; `OnlyAccountedLeave`: nor before it has a promotion or quarantine
row), and the action property `IndexedColdIsFinal` (an indexed copy is never
rewritten: resume and mismatch never touch it). Liveness: `Relocated`.

Fairness: `WF(ScanStep \/ MoveStep)`: the ops runner starts the job again
after every interval whatever became of the last one, and a pass that is running
keeps going. Faults, writers and the clock are not obliged to anything.

Limits of the code that the model shows but no listed property states: a writer
that appends after the second look (offload.py:516) and before the delete loses
what it appended; `RawPreserved` excludes exactly those bytes (`unseen`). A run
that fails the same way in each pass spends the budget of moves each time
(offload.py:347).

### Curation - how a run is accounted for (abstract: RunFate)

One lane. The collector opens, fills and ends segments (`OpenSegment`, `WriteRow`,
`CloseSegment`, `LastRow`, `KillSegment`); one maintenance pass at a time (the scheduler has one
maintenance slot) visits the newest `Limit` runs: score backfill, quarantine,
promotion, backstop. An operator's repair (`repromote.py`) runs beside them. Runs
grow older one tick at a time and every window of the code (`min_age` of
the backfill, `max_age` of the passes, the backstop's age) is a constant. Promotion
is split where a crash or a raise makes a difference: `BufferRun` reads the run, `FillBuffer`
puts rows into the parquet sink up to its `BatchSize`, at which it flushes by itself
(storage.py:457), or to the end of the run; `Flush` and `SyncParts` make a part-file of them and
fsync it; then come the next rows, or the index row (`AppendPromoted`). A part-file is the set of
the rows it holds, and `stored` counts the rows of the run at work that are in one. A raise
(`BufferFails`, `PromotionFails`) discards what is in the buffer, and only that. `Fault` has a kill
of the pass, of the repair and of the worker, a raise in each step, and a power loss, after which
the part-file that was not fsynced and the tail of a clean file are gone. A flush that raises has
written its part-file or nothing; the code writes one for each instrument and day, so some of them
may be there. The repair sizes its batch to the run (repromote.py:419) and flushes once.

`RunFate` is the promise: rows come, then a run is promoted with all of its rows
*or* quarantined, once and for good. `Curation` implements it under the refinement
mapping `Fate` (fate of a run = what the two indexes say), checked and proved
as `FateSpec`. Beyond the abstraction: `CopiesNeedLateFaults` (the number of part-files a row is in
is bounded by the faults that struck its run from its first part-file to its index
row), `IndexedIsDurable` (every row the index row counts), `BrokenRepairIsFound`, `WritersApart`, and the
liveness `AccountingCloses`.

Fairness: weak for the step of a running pass; strong for the start of the backstop, as
the scheduler starts the job that is longest due and a job that stays due
is started (ops.py:106-118), although the slot is taken again and again by others;
weak for the clock and for the lane's worker, which opens and ends its segments. Nothing is
asked of the other jobs: with the backstop, every run is accounted for even if they never run.

### RunnerLock - one ops runner, one worker per lane

`OpsRunnerLock` and `StandaloneWorkerLock` (ops.py:380-560, 1569-1635) differ in one
condition, `ownBeat`. It is a field of `mode`, chosen in the initial state from the
constant `Modes`, like `serial` (launches do not overlap) and `mayDrain` (owners may wait
for their executors), so that one run covers several settings. `acquire()` is split at its system calls:
create with O_EXCL, dump of the payload, reading of a lock that is there
(`FindLock`, then `Refuse`, `WaitForWriter` or `JudgeStale`), the rename
(`BreakLock`). Time is a clock of ticks; a live process writes its payload and
first heartbeat within the graces and then keeps its heartbeat (`InTime`). Owners
crash anywhere, their pids get reused (`RecyclePid`), and with `mayDrain` an owner
waits for its executors without a heartbeat.

`OnlyDeadIsStale` (a lock is judged stale only when its creator has ended),
`MutualExclusion` and `ReleasesOwnLock` when launches do not overlap (`serial`),
and the liveness `StaleLockIsReclaimed`. The code does not keep mutual exclusion
for launches that overlap (`NoFreshLockBroken`, a finding), nor for a runner that
drains longer than the freshness of its heartbeat: `run()` ends the heartbeat
thread before it waits for the executors (ops.py:897-903).

Fairness: `WF(Acquire(p))`, a launcher in `acquire()` is a running thread
with short sleeps, and `WF(Tick)`, time passes.

### Canary - lanes that share an allowance of bytes

A canary attempt is a SQLite ledger (`canary.sqlite3`) with one row per grant. A worker
claims a row for each segment (`Claim`: it closes what dead workers left open on the
lane, looks at the ceiling and the pool, inserts the next row), puts its run
directory into the row (`Bind`), reserves more bytes in chunks while frames come
(`Admit`, `WriteFrame`), and closes the row after the receipt (`WriteReceipt`,
`CloseRow`). An operator stops the attempt and finalizes it (`Settle`, `ListGrants`,
`WriteFinal`, `MarkFinalized`). Each `BEGIN IMMEDIATE` transaction is one action, as
SQLite makes it; what is not in a transaction (files, the second read of `finalize()`)
is an action of its own. A refusal that rolls back changes nothing and needs no action.

`holder` stands for pid and creation time of a row: `owned_process_alive` is right
about a process it can look at, so a row may be closed for the dead only when its
holder has ended (`Exit`). A refusal because of a process that cannot be told apart is
a subset of the behaviours, like any other refusal. Bytes are small numbers with the
relations of the real ones (margin <= chunk); `MaxFrame` may exceed the margin, since
one inbound frame becomes rows of several sinks.

- `OneWriterPerLane`: nothing but the open row keeps a second worker of a lane out.
- `PoolHolds`: what all runs in the ledger hold on disk stays within the pool but for a
  last frame of each lane, whatever interleaving of claims, chunks, closes and deaths.
- `ClosedRowsAreTrue`: the charge of a closed row is what its run holds, by whichever of
  three transactions it was closed (`ClosedIsCharged`), and a row that names a receipt has
  one (`ReceiptBeforeRow`).
- `FinalIsFinal`: after a whole `receipt.json` no row,
  receipt or byte is added.

`PoolHolds` and `ClosedIsCharged` speak of the runs a row names. A snapshot lane
has no run directory in its row before `close()`: when it is killed, its row is closed
with a charge of 0 (canary.py:500), although the docstring at canary.py:492 promises
what the directory holds; the model has that behaviour and the properties exclude
it. A torn `receipt.json` (`WriteFinal`) leaves `finalize()` refusing for good,
against the comment at canary.py:951-952.

The pid check, the schema checks, the tests for disagreeing clocks (`AdmitStops` and
the claims' refusals stand for their outcomes), preparation and preflight are abstracted.

### EvidenceLease - several runs share an allowance of time

An operator prepares a trial once; each run's journal writer claims one of its `Slots`, and all
end `Seconds` after the first claim, by wall clock and by monotonic clock. Runs are processes that
share one SQLite row (`trial`), the claims and the lock on one byte. A transaction is one
action; the clocks are read before it, in an action of their own (`ReadClock`,
`LookPasses`), so that other processes, ticks, a stepped wall clock (`StepWallClock`) and a restart
of the host (`Reboot`: processes end, the monotonic clock starts again) come in between. `why` says
what a writer looks at its lease for, in the order of `_write` and `_publish`; `LeaseFails` ends it
anywhere.

- `AllowanceHolds`: whoever passes a look has a slot, is alone, and fewer than `Seconds` of true
  time have passed since the first claim, unless *both* clocks were tampered with.
- `StopsAreRight`: a trial is stopped for a reason, and for good. The one stop
  without tampering that the code has is stated: a checkpoint of the running writer between a
  claim's look at the clocks and its transaction (`Overtaken`, evidence_lease.py:112).

A tick is the second of the checkpoints' cadence, so the tolerance of half a second between the
clocks is "moved by the same ticks". Corrupt rows and identities are refusals like others.

### SessionEvidence - does a session deserve its manifest?

The producer (collector and pipeline, one coroutine) and the daemon thread that writes
journal and manifest share the session object. The venue sends acknowledgements, refusals, book frames,
frames of another topic, garbage, JSON that is no object; frames before the acknowledgement are kept
(`pending`); connections break; a row cannot be written; a queue overflows, the disk is full, the lease
ends (`Mishap`). `FinishSession`, `JoinTimesOut`, `MayRename` and `RenamesDraft` are the
race at the end. `Verifies` is the offline verifier over the journal and the raw rows.

- `AdmissionIsRight`: a manifest that admits the session verifies, one that refuses it does not. The
  flags of the object and the files never disagree, but for a frame that is JSON and no
  object, which leaves no record (session_evidence.py:349).
- `RefusalIsTold`: whenever `finish()`, the setup or the writer is through, there is a manifest or
  a reason; both only if a rename outlived the wait, as the comment at session_evidence.py:33-36 says.

Left out: reference mode (`bybit_references.py`, tickers), the hashes (a row is the record it came with), and
byte counts (a mishap stands for a limit).

### Allowances - the three of them in one run

A lane runs under a canary grant or keeps evidence and never both (cli.py:2730), and a session sees
its lease only through refusals, which `SessionEvidence` allows at any time. The three share no
state: `Allowances` explores one at a time, chosen by the rigid `allowance`. `Rests` says where
a trial and a session have come to their end, so that the deadlock check of the run shows that no
session hangs anywhere else.

### Segment - a WebSocket lane, from the socket to the disk

One coroutine runs the generic collector, the pipeline and its sinks, so there is one
`pc`. The venue acks a subscription or not, sends data, undecodable and control frames,
closes, or breaks. The collector's `stream()` has its back-off, the attempts, the streak
of clean closes, the wait with the data-arrival watchdog (`wait`, `idle`), and the
keepalive task (`ping`); the pipeline writes each frame to the raw sink, judges it, writes
clean or quarantined rows, looks at its deadline, and shuts down in four steps, each of
which may raise. The sinks sync in batches and the raw one rolls. The worker scores the
segment and opens the next one. `Crash` is a kill or a power loss: of each file
what was synced is left, and any part of the rest.

`RecordsWhatArrived` (per connection the raw file has no hole and no duplicate),
`SilenceEndsSegment`, `LossIsBounded` (at most a batch of each file is at risk,
of rolled and scored files nothing), `StormsAreDamped`, and the liveness
`WatchedSegmentsEnd`. Fairness is `WF(Process)`, the process runs and its clock goes on;
the venue owes nothing. The two properties about silence speak of lanes without control
frames: the pongs of a keepalive arrive as text frames and restart the watchdog's wait
(generic_ws.py:281), so on those lanes a dead data feed stays connected.

Left out: the canary's byte budget (it is in `Canary`), the evidence hooks, REST polling
(it is in the polling lanes), compression.

### DepthLane - is a replayable order book the venue's?

One run of an order-book lane. The venue updates a book; the wire loses, repeats, swaps or
garbles frames and breaks; the collector records; the scorer folds the recorded rows
into a book, row by row, so that every prefix a crash may leave is judged. `mode` is the kind
of lane: `rest` (Binance: buffer, REST snapshot, bridge, reopening in place against the
old snapshot), and the in-stream snapshot venues `dense`, `chain`, `checksum`, `full`
and `none`. `past` remembers the venue's book at each id, which tells whether the rebuilt
book ever diverged.

`VerdictIsProof`: a replayable run never diverged, and a reader of the curated rows, who
has no sidecar snapshot, rebuilds the same book if the first row bridges the snapshot
(`bridged`). It must be a row: where the frame that bridges is garbled, the gate turns it away, and an
older frame that comes late is skipped by the scorer and applied by the reader; three faults do that.
`NoFalseAlarm`: a run to which nothing happened passes. One side of the book stands for both; a crossed book is
reported and gates nothing, so it is left out.

### Verdicts, TapeLane - is a replayable tape complete?

`Verdicts` is the three scorers of prints as folds over the clean rows. `TapeLane` is one of
ten lanes (a record of what its normalizer does: dense ids or not, what is replayed
on a subscribe and how that is told, late or conflated publication) over two
segments: the venue prints and sends, connections drop, frames are garbled, prints are odd, the
collector's clock is stepped. The gate's cursor and the tagging of replayed prints are
`Moved`, `News`, `Tagged`. `VerdictStands`, `NoPrintTwice` (promotion takes runs whole and
compares nothing), and `NoTapeFalseAlarm`, where `blamed` keeps the reasons for which a run may
fail.

Depth lanes and tape lanes share nothing, so `MarketLanes` explores one at a time, chosen by the
rigid `market`.

### Scheduler, Health - the runner and what is told about it

`Scheduler` is `OpsRunner.run`: tick, reap, dispatch, sleep, join, drain; the executors'
threads (`RunEnds`), the heartbeat thread, whose payload and write are two steps (`BuildOnly`,
`EmitLate`), kills and restarts. Ages stop at `Cap`, so the life of a runner is unbounded.
`Health` EXTENDS it with the rules of `build_health_report` as operators on the files.
The join of the heartbeat thread gives up after the interval and a second (ops.py:898); the
model has no write of the heartbeat that takes longer than that, so `Join` waits for the thread.
Three modes: a runner as deployed with three maintenance jobs, a bounded one
(`max_runs`) with a narrow pool, one with `stop_on_error`.

`LaunchesAreAccounted` (one run per job, executors never exceeded, what is launched is
reported, never more than the limit), `LastBeatStays`, `JobsKeepRunning` (liveness of
lanes and maintenance), `HealthIsTold`: `SicknessIsSeen` (a silent scheduler, a hung job) and
`NoFalseError` (no error while everything works), and `QueueFitsAllowance` (while everything works, no
maintenance job is past the allowance for the slot).

Fairness: weak for the scheduler's thread, the clock, the heartbeat thread and the end
of every run that does not hang: a lane is a subprocess with a timeout. Nothing obliges
anybody to restart a runner.

### WalletFlow, AggCursor, TextFeed, PollingLanes - lanes that resume from what they wrote

`WalletFlow` is a Hyperliquid lane: `Poll` is a sweep over the cohort with both endpoints
(overlap, capped pages and their continuation, TWAP slices with their horizon), whose rows are
written one by one (`Deliver`); a segment ends at its deadline in the middle of a batch,
or is killed; a new poller scans the hot runs; `Promote`, `Quarantine`, `Offload` move
those; a backfill reads the archive of the chain's fills. `AggCursor` is the REST trades lane of
Binance futures: cursor file, scan of recent runs, pager, staleness bar. `TextFeed` is an
RSS or Reddit lane: `PollFeeds` asks every feed (validators, edits, failing feeds passed over), the rows
are written one by one, and the seen file, of bounded length, is rebuilt at the end of a segment
from what was loaded, what was sighted unchanged and what was written. None shares
state with the others, so `PollingLanes` explores one at a time, chosen by the rigid `moving`.

- `EverythingIsKept` (proved). `NoIdTwice` and `NoSilentGap` are about the trades lane: over rotations, kills and
  failed polls no id is left for promotion twice, and none is missing, but what the gate refused or a reset that
  is reported. `OutOfReach` are runs that a new one cannot see: quarantined, or begun before the resume gap.
  `OnlyLateFillsBreakOrder` and `NothingSkipped` are about the wallet-flow lane: the scorer's order gate fails a
  run only for a fill that really became visible after a newer one, and no request passes over a fill that is
  not recorded, except what was served too late for the overlap, or below the pages a poller does not
  come back to (`passed`).
  `NoItemSkipped` and `NoItemTwice` are about the text lane: what the seen file and a poll's memory name is
  what was last written of an item or is about to be, and a version is written again, with no other one of
  its item in between, only after a segment that was killed, or when the seen file was too short for what
  was in sight since (`Evicted`). One exception shows a gap in the code: an item that a feed lists twice in
  one body (`Doubled`) counts as sighted unchanged while its first row is not written yet, and a deadline
  in between leaves its hash in the seen file without a row. The next sight of that version is passed over,
  and the version before it, if the publisher goes back to it, is written once more (`Retold`).
- `NoFillTwice` (proved): no fill is in the curated data twice. The excuse is kept as history: `forgotten` are
  fills the scan of a new poller or of a backfill could not see. The guard of a backfill (`SafeEnd`) measures
  from the high-water mark of the hot rows, which the running poller found at its start or has passed since. A
  poller that starts between a backfill's scan and its rows found a lower one: it may read what the backfill
  writes, and so may it with every later backfill, whose guard is then measured from the first one's rows.
  `plan.runs` and `beside` keep who began beside what, so that only such fills are excused (`Contested`).
- `LanesCatchUp` (liveness): every lane comes level with its venue again and again.

Fairness: `WF` of the steps that get somewhere (`LaneForward`): the process
goes on and not every poll to come fails. It is written out as
`[]<>~LaneDue \/ []<><<LaneForward>>_pvars`, with `LaneDue` for its ENABLED, which TLC
would otherwise evaluate by enumerating polls. The text lane has, besides, `SF` for a poll that reads a
feed with news, one condition for each feed: a feed that fails for ever is not promised anything.

Left out of `WalletFlow`: the venue serves only the newest 10 000 fills of a wallet
(wallet_flow_backfill.py:5-8) and a page of the model reaches back without a limit, so `NothingSkipped`
speaks of what the venue still serves, and a lane that falls farther behind needs the backfill.
Left out are, too, the window-gap diagnostics, state file and poll history, error
counters, and the rejection of fills more than 90 days off, none of which decides a row. Left out of
`TextFeed`: whether a row is called new or an edit, the OAuth token of Reddit (a listing that cannot be read
is a failing feed), and the scorer. Some errors of a request are not among those a poll contains (a body cut short, a
listing that is not JSON); they end the segment, as a kill does (`KillSegment`).

## 3. Runs

| run | shows | bounds |
|---|---|---|
| offload | the safety properties with faults and the backstop, and `Relocated` | 2 runs x 2 files, sizes 0..1, 2 faults, a late writer on one run |
| curation | refinement of `RunFate`, copies, durability, `AccountingCloses` | 2 runs of up to 3 rows, a batch of 2, 2 faults |
| long_run (finding) | `FailedRunIsDiscarded` fails | 1 run of up to 3 rows, a batch of 2 |
| curation_repair | repair beside promotion: one writer per run, what a repair breaks is found | a legacy and a new run, 2 rows, a batch of 1, 2 faults, a lane without the watchdog |
| lock | one owner, own lock released, only dead owners' locks broken, stale locks reclaimed | 3 processes, 3 modes, graces 1, 2, 2, 3 |
| lock_fresh_broken (finding) | `NoFreshLockBroken` fails | 3 processes |
| allowances | canary: pool, one writer per lane, charges, receipts; lease: allowance and stops; session: admission and refusal | 2 processes, 2 stream lanes and 1 snapshot lane, 3 grants, pool of 3 chunks, 1 fault; 2 writers, 2 slots of 2 ticks in 4, one stepped clock, one restart; 3 frames, 1 break, 1 mishap |
| market | the two properties of `DepthLane` and the three of `TapeLane` | 6 kinds of lane, 2 levels, 4 updates, 1 fault, 2 drops; 10 lanes, 2 segments, 3 prints, 3 ticks, 2 troubles |
| segment | the five properties of `Segment` | 3 lanes, 2 segments, 3 frames, 3 troubles, crashes |
| scheduler | dispatch, liveness, and the health report | 2 lanes, 3 maintenance jobs, 3 modes, ages to 8 |
| polling | `EverythingIsKept`, `NoFillTwice`, `LanesCatchUp` | 4 histories of 3 fills, 3 segments, 1 crash, 1 backfill; 3 trades, 3 segments, 1 fault; 2 feeds, 3 items, 3 revisions, a seen file of 2, 3 segments, 1 kill |
| wallet_twap_horizon (finding) | `SlicesFromNowOn` fails | as polling, with a margin of one tick for slices |

Why the bounds are enough. Runs of a lane interact only through the limit, the
budget and the order of a pass and through the buffer they share: two runs with a limit
of one have all of it. Two files tell "some are gone" from "all are gone". Two rows tell a prefix from a
whole run, and three with a batch of two have a flush in the middle of a run and one at its end. Two faults allow one that leaves debris and one that strikes the
recovery. Three processes are an owner, a launcher that judges and one that
overtakes it; three grants on three lanes are enough for a lane to be claimed twice beside
another one, and three chunks are not enough for all; two writers of a trial are one that
checkpoints and one that claims (a third is refused by the count of claims, which the theorem
covers for any number of runs and slots), and three frames of a session are its acknowledgement,
its snapshot and one more in any order; ages are bounded just above the
largest grace, where nothing tells them apart.

Four updates of a book give a snapshot, two rows of one connection and one of
the next; two levels of which one is published let a level drop out of a checksum's
sight and come back. Three frames are two on a connection and one on the next, or
a batch that is synced and one row that is not. Three prints are one before a hole, one in it and
one after. Three segments of a polling lane are one that wrote, one that crashed and
one that resumes behind both; three fills with a page of two make a page that
is cut and continued, and the histories are the shapes a page can have (cut between
two times or in one, an unwanted fill, slices between fills). In the polling lanes the
overlap, the backfill's margin and the largest lateness are one tick each: what is later
is excused, what is within is not. The margin of the slices is two, one more than a segment.

The type invariants of `Scheduler`, `DepthLane`, `TapeLane` and the polling lanes are conjuncts of what
these runs check (`LaunchesAreAccounted`, `NoFalseAlarm`, `NoTapeFalseAlarm`, and both invariants of the polling lanes); those of the modules
with proofs are proved (section 5).

Deadlock is checked in every run but three: the venue of `DepthLane` and `TapeLane` (run market), and
the time and the segments of the polling lanes (both runs), are bounded and so come to an end.

## 4. Findings

- *lock_fresh_broken.* `_break_stale_lock` renames whatever has the lock's name:
  the slower of two launchers takes away the fresh lock of the faster one.
- *long_run.* A segment may have 100 000 frames and the promotion's parquet sink flushes by itself
  at 50 000 rows (promotion.py:62, storage.py:457). When a row of a longer run raises after that,
  `discard()` drops what is still in memory, and the next pass writes the first rows again;
  promotion.py:200-203 says that a failed run leaves no rows to be duplicated.
- *wallet_twap_horizon.* A segment creates its run directory before its poller looks for the
  oldest hot run, so a lane without hot runs has a horizon of its start plus six
  hours and refuses the slices in between; STANDARDS.md says that its horizon is its start.

Limits of the code that the models have and the properties are stated around:

- flush and index row are two steps (promotion.py:178-179): a crash in between repeats the run
  at the next pass, and in a run longer than a batch so does any fault after the first flush;
  `CopiesNeedLateFaults` counts these, from a run's first part-file to its index row, and says
  that nothing else writes a row twice;
- the deadline is looked at after a frame only (pipeline.py:171): a lane without the watchdog
  holds a run open past the backfill's floor, which scores a prefix, and
  promotion indexes that prefix for good (replay.py:862). A venue that closes cleanly
  without data, over and over, has the same effect with the watchdog on;
- a runner that drains has no heartbeat and can lose its lock (ops.py:897);
- under `stop_on_error` the error heartbeat is overwritten by a healthy one if a maintenance
  run ended in the same iteration (ops.py:802), against the comment at ops.py:786-788;
- the writer of an aged run that appends between the second look and the delete loses it
  (offload.py:516); a fresh cold copy whose removal failed blocks its run (offload.py:517);
- a killed snapshot grant is charged nothing (canary.py:500), a torn `receipt.json` blocks
  `finalize()` (canary.py:953);
- a writer of evidence whose setup timed out while it got ready, or whose pipeline could not be
  built, looks at the error only after a record and waits: it keeps the process's writer slot until its
  lease is over, without a lease for good (session_evidence.py:277, cli.py:2659);
- a depth segment whose reopening fails ends (cli.py:1944); one odd print costs a
  tape run (quality.py:60), one late fill a wallet run (hyperliquid_wallet_flow.py:557);
- a full page of one millisecond cannot be continued and is asked for until an operator steps
  in (hyperliquid_wallet_flow.py:329); a segment of a quiet market can begin before the resume gap
  and is then not looked at, although its last row is young (binance_futures_rest.py:396).

## 5. Proofs

The last part of `SchedulerProofs` proves type correctness and all the safety properties of `Offload`,
for any sets of runs and files, any budgets and number of faults, with or without
zombies and under either gate. The inductive invariant `IInv` is
`OffloadTypeOK` together with
`MoveInv` (what `phase` implies for the current run: a run being copied is not on the cold
tier, one being deleted is in the index, at the second look the cold copy
equals the manifest), `IndexInv` (what a pass believes accounted is, an
indexed run is cold, a run that is gone is indexed), and `TreeInv` (a hot file is
whole or gone; whole as long as its run is not indexed; from the index row on, what
is left of the source is in the cold copy). None of the properties is inductive
without them: that the delete loses nothing needs the second look, which needs
the manifest, which needs that no writer was missed in between.

`WorkerProofs`, with the text lane's part in `TextFeedProofs`, has what a lane's worker relies on. Of `RunnerLock` it proves type correctness and, for any
processes and graces with `MidWriteGrace <= CreatedGrace` (the code has 5 s and 180 s), `OnlyDeadIsStale`
for the runner's lock and, for launches that do not overlap, `MutualExclusion` and `ReleasesOwnLock` for
both locks. `CreatorInv` says who may be named in a lock, `GraceInv` that something young vouches for a
live lock from its creation on, and `SerialInv` that the owner's file is the one on disk. All three
results assume that owners do not drain, and the last two that launches do not overlap: both are fields of
`mode`, which no step changes (lemma `ModeIsRigid`), so each is a hypothesis inside its invariant.
Under the composition of the polling lanes it proves `EverythingIsKept` and `NoFillTwice`.

Its part about `AggCursor` is for any page size, number of pages, resume gap, lateness and failures.
`AggInv` has four parts. `AggState` types the state;
the live run is the last one. `PageInv`: the ids that are fetched are consecutive and begin where the rows and
refusals of the live run end, so that a run has no gap (`Gapless`). `ReachInv`: a run writes behind
all rows of the runs it could see when it began, and what it could not see it will not see later. `ResumeInv`:
the cursor names a row of a finished run, which a power loss does not take back, and each run
resumed no later than behind what was handled before, or says why not. The page is cut by the choice of a
least id: that there is one is proved from the well-foundedness of the naturals, without the
induction theorems.

Its part about `WalletFlow` is for any finite set of fills and any histories of them, any caps, overlap,
margins and bounds; for `EverythingIsKept` it assumes no relation between them. `WalletInv` has three parts.
`WalletState` types the state; the open run is the live poller's, and what a poller's rows and its batch hold
was served. `OrderInv` gives `OnlyLateFillsBreakOrder`: a batch is sorted, slices
are not older than the newest one the poller took (`SlicesInv`), and what comes before a fill the poller
has taken and was not served after it the poller has seen, or will not ask for (`LateInv`), so that what is
still to be written goes behind the rows, or is late (`BehindRows`). `KeptInv` gives `NothingSkipped`. While a
poller lives, what it remembers and what lies below its next request is recorded or in its batch
(`RememberedInv`, `AskedInv`). When it dies the batch is lost, and a new one starts an overlap below the
high-water mark it reads from the rows: so all that is more than an overlap behind a row must be recorded,
and for good, not in the last row of the open run, which a power loss may take (`FirmInv`). That a row is
written after all that far behind it is `BatchInv`; that a backfill, whose rows move the high-water mark
too, stays behind it is `PlanInv`. The order of a poll's rows is by rank, the number of fills that come
before one, which is a bijection to 0..n-1 as the ranks are distinct (lemma `RanksAre`), again without
induction.

`NoFillTwice` needs two relations between the constants (`Margins`), and fails without either: the backfill's
margin is positive (60 s unless a caller says otherwise), and the margin of the slices is longer than a segment (6 h;
`_twap_dedup_horizon_ms` counts on it: a fill of an offloaded run "is older than the oldest hot run plus one
segment"). The number of backfills is any. `CopyInv` is `SingleInv`, a fill that could be known has one row outside
quarantine, with five parts that make it inductive. `TakenInv`: a fill in the batch has none. `KnownInv`: if a
fill has one the poller has seen it or does not take it (`Beyond`); this is what a new poller must find out
from the hot runs alone. For a fill of the first endpoint its high-water mark says so, and for a slice the
horizon, by `BornInv`: runs are born in the order of their names, and none has a fill newer than
its birth plus a segment. `AheadInv` and `FreePlanInv` are about the backfill. Unless the poller began beside one,
its own marks and its batch cover, but for the overlap, whatever hot row or planned fill moves the durable mark, so that
a scan, which stays an overlap and the margin below that mark, plans nothing that the poller takes.

`TextFeedProofs` is for any feeds, bodies, validators, length of the seen file and bounds. `TextInv`
gives `NoItemSkipped`. `TextState` types the state; the seen file and the memory of a poll have a key at
most once, and the open run is the last one. `FileInv`: what the file names is the latest of the finished
runs. `KnownIn`: what a poll remembers is the last of its key in the batch, or no row of its key is waiting and
it is the latest on disk. `UnchangedIn`: what was sighted unchanged is the latest of the runs before, or the
live run has a row of it, which the snapshot applies afterwards; this is what makes `FileInv` hold again at
the end of a segment, whose deadline dropped the batch. `OnceInv` gives `NoItemTwice`. Within a run
the versions of an item alternate (`RowsWith`), across the rows and what is waiting (`Fresh`), and the first
one a run writes of an item is not what the file named when it began. `SavedWith`: the file names the last
version the finished runs wrote, or has forgotten it; that it forgets an item only when as many others were
sighted since as it holds is counted in `AgeWith`, by which its entries stand in the order of the segments
that sighted them last. `AgainWith` is the property between two runs. A body, a poll and a snapshot are
recursive functions; that they exist is proved from the well-foundedness of the naturals (lemmas
`StepsExist`, `Stepwise`), and what they keep by the least step at which it would not hold.

`AllowanceProofs` has what a capture may be held to. Of `EvidenceLease` it proves type correctness and
both properties, for any runs, slots, allowance and number of steps and restarts. `LeaseInv` is `LeaseTypeOK` with three parts. `ClocksTrue`:
the wall clock differs from true time only after a step, the monotonic one only after a restart.
`ReadingsTrue` carries that to every reading that is kept (in the row, in the base and the last look of
each writer), so that with at most one kind of tampering one of the two ends comes in time. `SlotsKept`: a
writer past its claim has a slot, and one past the lock is its holder. `Overtaken` is what is left when a
stop has no other reason.

Of `SessionEvidence`, for any number of frames, breaks and mishaps, it proves `RefusalIsTold`:
`StageInv` says what the place of the writer tells about draft, manifest and error; the steps of the capture are one case (`CaptureStep`: before `finish()` no manifest can be there, and `event()` never takes
an error back), so that only the end of `finish()` and the writer need a look of their own. And it proves
`AdmissionIsRight`: what flags and counters decide as the frames come is what the verifier decides from
the files. `AdmissionInv` holds the journal against the object, for as long as there is no error. `Ledger`:
an issue is to be seen in a record (but for the frame that leaves none), `received` and the rows count the
records of theirs, and the rows are in the order of their records. `Coherent`, in a session without an
issue: every record fits what is before it, so that its frame, its acknowledgement and its snapshot are
where the verifier looks for them. `Standing` says what flags and kept frames stand for in such a journal,
and `DraftInv` that a draft is made of a finished session and stays. The verifier compares sets of frames
where the collector compares two counts: they agree as every frame has one record of each kind (lemma
`RowsOfFrames`), and in a refused session it is the verifier's own uniqueness checks that say so.

And it proves everything `Canary` states, for any workers, lanes, grants, sizes and faults.
`RowsInv` (rows are numbered without a gap, a lane has one open row) and `WriterInv` (a worker in a
segment has its row open in its own name) give `OneWriterPerLane` at once, and with them that nobody
writes to a run whose row is closed, which `ClosedIsCharged` needs to be inductive; `ClosedRowsAreTrue` is
that and `ReceiptBeforeRow`. `FinalInv` says that from `settle()` on the attempt is stopped and no row is
open, so that no claim and no writer is left (lemma `Quiet`) and what `finalize()` reads later is what it
settled. `PoolInv` gives `PoolHolds`: a grant nobody was given holds nothing (`FreshInv`); an open grant
is exceeded by the last frame at most, as its worker's place in the frame tells (`WithinInv`); what is
committed and a frame for each open row fit the pool and a frame for each lane (`RoomInv`). Its constants
are lanes of which there are finitely many and which are streams or snapshots, not both.

`SegmentProofs` is for any lanes, limits, batch sizes and any number of frames, troubles and segments.
`LossInv` says that what a file has not synced is below a batch (the writes that bring it there sync,
whatever raises in between) and that a scored segment is closed; it gives `LossIsBounded`. `OrderInv` says
that the rows of the current connection are the frames it sent, with the one in hand next (`OpenInv` adds
where the connection stands), through acks, rolls and reconnects; it gives `RecordsWhatArrived`.
`CloseInv` relates the two clocks of the storm damping and gives `StormsAreDamped`. `SilenceInv` bounds
the silence so far and what is left of the wait by the idle limit, once for each undecodable frame in a
row and once more; it gives `SilenceEndsSegment`.

`DepthLaneProofs` proves both properties of `DepthLane`, for any levels, updates, faults and reconnects,
in every mode. The first part gives `VerdictIsProof`.
`PastInv` says what the venue remembers and `WireInv` that every frame in flight or in the buffer is
`Genuine`, garbled or not: it tells two neighbours of the venue's past and what changed between them, and a
snapshot is a book of the past. `ScoreInv` says what a score stands for. Of a REST lane (`RestHolds`): a
row the scorer takes without a finding starts at or before the id it holds and ends beyond it, and as no
update lies inside a frame it starts exactly there, so the book goes on to be the venue's. Of a stream lane
(`StreamHolds`) the linked or the dense ids say the same, the checksum compares the books, and a full book
is one. `CuratedHolds` is the book of the reader, who differs from the scorer only in the rows before the
anchor. The rows of a batch are a recursive function, taken one by one with the least counterexample; a
step of the venue only adds to the past, so what is said of it stays.

The second part, `QuietInv`, gives `NoFalseAlarm`. `BoundsInv` has the bounds and the types that are left.
The rest holds while there was no fault. `QuietWire`: the frames on the wire follow one another up to the
venue, and those in the buffer up to the first on the wire, so that what is newer than the run, too,
follows one another (lemma `AlignUnbroken`). `QuietRest`: a REST run without a finding has come to the id
the collector has seen, and while its socket is up the wire goes on from there; a window that was blind or
a snapshot that was not bridged is where that is lost, and the property excuses both. `QuietStream`: the
next frame of a stream run is a snapshot, or it goes on from where the run is, by its ids or, on a
checksum lane, by its book. There the venue says nothing of a level that a better one pushed out;
`CutOfChanges` shows that the cut pushes it out of the scorer's book as well.

`TapeLaneProofs` is for any bounds and any of the lanes `TapeLane` describes. What it assumes of the
tolerances (`LanesAssumption`) is their order by the defaults of `cli.py`: the gate stops what is more
than 5 s ahead of its time, the scorer tolerates 60 s, and the gate lets through what is 60 s late (900 s
on the liquidation lanes). `TapeLaneInv` has seven parts. `StateInv` types the state, `TapeInv` puts the
venue's prints in the order of their times. `WireInv`: a frame holds prints in a row, later frames later
ones, and of a dense lane none is missing up to the last. `RowsInv`: a clean row is what its print is, and
the gate has passed it. `OnceInv`: what is clean is behind every live frame and not above the cursor, so
that a frame read again is known, which gives `NoPrintTwice`. `VerdictInv` says what the scorer remembers
of the rows and what a run stands for in which it finds nothing (`VerdictStands`). `AlarmInv` says that
where nothing went wrong the scorer has found nothing, and that the next print to come is not beyond the
next one of the run; it gives `NoTapeFalseAlarm`. The scorer walks the rows, so `Score` is a recursive
function; that there is one and only one such function is proved by the least counterexample, as the
induction theorems of the library are not available.

Of `Scheduler` and `Health`, `SchedulerProofs` proves `LastBeatStays`: `BeatInv` says that the refresher is gone from the join on, so
the last heartbeat is the scheduler's own and nobody writes after it. `LaunchInv` gives
`LaunchesAreAccounted`: a job has one run at most, the futures an iteration reaps are done and each is in
the pool once, and what a bounded runner has launched is reported or in flight. `SilenceInv` relates the
ages of the heartbeat and of the refresher's tick and gives `SilenceIsSeen`. `HangInv` says that the
heartbeat names every active job with at least the age of its run, or is as old as the run, and that a
payload built and not yet written names it too, unless the run has just begun; it gives `HangsAreSeen`.
`WellInv` follows a runner that has met no trouble but a late beat: a run outlasts its bound only by the
one sleep it may wait to be reaped, a heartbeat is one sleep old at most and names no run older than two
sleeps beyond its bound; it gives `BusyIsNotSick`. Together they are `HealthIsRight`, which has two
conditions on the thresholds. `StaleBeforeLong`: a heartbeat is stale before a maintenance job is called
long, as in every config (120 or 180 s, against 750 s for the shortest maintenance interval, 300 s).
`RunsEndInTime`: what the runner calls well ends two sleeps before it would be called long. It is a
condition on the runs, not on the timeouts: a lane with segments of 1800 s is called long after 2700 s,
and its subprocess has 7200 s (cli.py:4145).

`QueueInv` gives `QueueFitsAllowance` (`QueueIsExplained`). The age of a job's last row and the time to its
next run add up to its interval, so what can make the row old is the wait for the slot. A job that is
due has waited, and has still to wait, for one run of each other maintenance job at most
(`Served`): the slot goes to the job that has been due for longest, and a job that has just run is due
again two sleeps later at the earliest. After a bounded runner has launched all it may, nothing is given
the slot any more, and what is due waits for the lanes in flight to end (`HeldUp`). The condition
`WaitIsExplained` says that the allowance, "sized to one normal long holder pass" (ops.py:1077),
covers the interval and such a wait. With several long jobs behind one slot it need not: then the report
calls a healthy runner sick, and the theorem says how large the allowance has to be.

The three conditions are defined in `Health`; the constants of the run meet them, the last one exactly.

`CurationProofs` is for any runs, rows, windows and faults. `ScanInv` types what a pass and a repair hold;
`PassInv` says which run each is at, and gives `WritersApart` without any further assumption. `RepairInv`
follows a repair from the choice of a legacy run to its new index row: all that time the run is short by
its old row, and what the scan has counted is all the run has; it gives `BrokenRepairIsFound`. The rest is
for lanes with the assumption `Watched`: the watchdog is on, and a segment ends before the backfill's
floor. It is needed: without it a run may be scored while it is open, on a prefix, and promoted with too
few rows (section 4). Under it `LifeInv` says that a run that is scored or accounted for is closed and
gets no row any more; `IndexInv` relates the two indexes, what a pass read of them and where it stands in
a run, so that the same run is never in both and each index row has all rows; every step of `Curation` is
then a step of `RunFate` or none (lemma `FateStep`), which is `CurationImplementsRunFate`. `DataInv`
follows the rows of one run batch by batch from the buffer through flush and fsync to the index row:
the buffer holds the rows after `stored` and those of no other run, the rows up to `stored` are in
a part-file, all of it is fsynced before the next batch begins, and a row has one part-file
more than its run has faults only if it is stored or its run is indexed. It gives `CopiesNeedLateFaults`
and `IndexedIsDurable` for any `BatchSize`.

Only model-checked: liveness (`Relocated`, `AccountingCloses`, `StaleLockIsReclaimed`,
`WatchedSegmentsEnd`, `JobsKeepRunning`, `LanesCatchUp`). Fairness and ENABLED are out of the prover's reach.

## 6. Plan

Done: `Offload`, `Curation` with `RunFate`, `RunnerLock`, `Canary`, `Segment`, `DepthLane`,
`Verdicts` with `TapeLane`, `Scheduler` with `Health`, `WalletFlow`, `AggCursor` and `TextFeed` with
`PollingLanes`, `EvidenceLease` and `SessionEvidence` with `Allowances`, and the proofs of section 5.

Worth doing next: the reference mode of a session.

Not modelled, and why:

- Kalshi: it samples quotes and carries nothing from one run to the next;
- the reference mode of session evidence, whose tickers and HTTP polls are bound like book frames;
- the scorers of funding, tickers, text and universe snapshots, which judge one row at a
  time, and the snapshot pollers, which keep no state;
- the research manifest and the remaining sections of the health report: read-only reports;
- the CLI and configuration beyond the segment functions (argument parsing), the data types
  and registries (tables), generated protobuf code, and the venue payload conversions
  of the normalizers (formatting; no property of the plant depends on them).
