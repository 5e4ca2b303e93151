----------------------------- MODULE Scheduler -----------------------------
(***************************************************************************)
(* OpsRunner.run: one scheduler thread that ticks, reaps what has ended,   *)
(* dispatches what is due and sleeps; a pool that runs the collector       *)
(* lanes; a single slot that runs the maintenance jobs; a thread that      *)
(* refreshes heartbeat.json.  A lane is a subprocess with a timeout, a     *)
(* maintenance job runs in the process and may hang for ever.              *)
(*                                                                         *)
(* Time is kept as ages, which stop at Cap, so nothing bounds the life of  *)
(* a runner.  The unit of time is the sleep of the scheduler thread: its   *)
(* own work between two sleeps takes none.                                 *)
(***************************************************************************)
EXTENDS Naturals, Integers, Sequences, SequencesExt, FiniteSets, FiniteSetsExt, TLC

CONSTANTS
    LaneSeq,        \* the collector jobs, in config order
    MaintSeq,       \* the maintenance jobs, in config order
    Interval,       \* interval_seconds of every job
    Longest,        \* the longest a run lasts: a lane's subprocess timeout, and
                    \* an assumption on the maintenance jobs that do end
    MayHang,        \* the maintenance jobs that may never end
    NoLimit,        \* max_runs=None
    Modes,          \* the configs and flags the runner may have been started with,
                    \* and as bounds, which troubles it meets and how many
    Cap             \* ages are not told apart beyond it

Lanes == ToSet(LaneSeq)
Maint == ToSet(MaintSeq)
Jobs == Lanes \cup Maint
None == "none"

\* What load_ops_config lets through: the schedule is keyed by a job's name, and
\* no two jobs have the same.
ConfigAccepted ==
    /\ LaneSeq \in Seq(Lanes) /\ MaintSeq \in Seq(Maint)
    /\ IsInjective(LaneSeq) /\ IsInjective(MaintSeq) /\ Lanes \cap Maint = {}
    /\ \A m \in Modes : m.enabled # {}

\* A write fails, a run ends in an error or hangs, the runner is killed, the
\* refresher is held up between its payload and the file.
Kinds == {"write", "error", "hang", "kill", "slow"}

ASSUME SchedulerAssumption ==
    /\ ConfigAccepted /\ None \notin Jobs
    /\ Interval \in [Jobs -> Nat]
    /\ Longest \in [Jobs -> Nat \ {0}]
    /\ MayHang \subseteq Maint
    /\ NoLimit \notin Nat
    /\ \A m \in Modes : /\ m.enabled \subseteq Jobs
                        /\ m.limit \in Nat \cup {NoLimit}
                        /\ m.stopOnError \in BOOLEAN
                        /\ m.concurrency \in Nat \ {0}
                        /\ m.troubles \subseteq Kinds /\ m.most \in Nat
    /\ Cap \in Nat

VARIABLES
    mode,       \* enabled jobs, max_runs, stop_on_error, concurrency: never change
    pc,         \* where the scheduler thread is
    batch,      \* the done futures this iteration reaps
    worked,     \* dispatched or ran_maintenance, in this iteration
    futures,    \* the lanes in the pool, in dispatch order
    slot,       \* maintenance_job, or None
    execution,  \* what every job's executor thread does
    left,       \* _sched_next_run_at, as time from now
    count,      \* _sched_run_count, when a limit makes it matter
    tick,       \* age of _last_scheduler_tick
    pending,    \* pending_error, or the operator's interrupt
    beat,       \* the refresher thread
    file,       \* heartbeat.json
    rows,       \* the last row of every job in job_runs.jsonl
    failure,    \* age of the last failed run in job_runs.jsonl
    troubles,   \* history: the kinds of trouble there were
    launched    \* history: runs started, when a limit makes it matter

queue == <<futures, slot, execution, left, launched>>
log == <<rows, failure, count>>
vars == <<mode, pc, batch, worked, queue, log, tick, pending, beat, file, troubles>>

NotActive == Cap + 1
Older(n) == Min({n + 1, Cap})

Idle == [state |-> "idle", started |-> 0, ended |-> 0]
Running == [Idle EXCEPT !.state = "running"]
Active(j) == execution[j].state # "idle"
Done(j) == execution[j].state \in {"success", "error"}
Limited == mode.limit # NoLimit
InLoop == pc \in {"tick", "reap", "reapMaint", "dispatch", "dispatchMaint", "asleep"}

\* _build_heartbeat_payload: the status, the tick and the active jobs.
Payload(status, executions, age) ==
    [status |-> status, seen |-> 0, tick |-> age,
     active |-> [j \in Jobs |-> IF executions[j].state = "idle" THEN NotActive
                                ELSE executions[j].started]]
Resolved(executions) ==
    IF \E j \in Jobs : executions[j].state # "idle" THEN "running" ELSE "idle"

\* _emit_heartbeat: a write that fails is logged and costs this beat only.
Trouble(kind) ==
    /\ kind \in mode.troubles \ troubles /\ Cardinality(troubles) < mode.most
    /\ troubles' = troubles \cup {kind}
Fails == Trouble("write")
Emit(payload) ==
    \/ file' = payload /\ UNCHANGED troubles
    \/ UNCHANGED file /\ Fails

NoRow == [status |-> "missing", age |-> 0]

AllIdle == [j \in Jobs |-> Idle]
Starting == Payload("starting", AllIdle, 0)
Quiet == [pc |-> "wait", due |-> FALSE, payload |-> Starting]
AllDue == [j \in Jobs |-> 0]

\* run(): every job is due at once, and the heartbeat says "starting".
Init ==
    /\ mode \in Modes
    /\ pc = "tick" /\ tick = 0
    /\ file = Starting
    /\ batch = <<>> /\ worked = FALSE /\ futures = <<>> /\ slot = None
    /\ execution = AllIdle /\ left = AllDue
    /\ count = 0 /\ launched = 0 /\ pending = "no"
    /\ beat = Quiet
    /\ rows = [j \in Jobs |-> NoRow] /\ failure = Cap
    /\ troubles = {}

(***************************************************************************)
(* The scheduler thread.                                                   *)
(***************************************************************************)

AtLimit(n) == Limited /\ n >= mode.limit

\* The members of a set, in the order of a sequence: a list comprehension.
Those(s, S) ==
    LET kept[n \in 0..Len(s)] ==
            IF n = 0 THEN <<>>
            ELSE IF s[n] \in S THEN Append(kept[n - 1], s[n]) ELSE kept[n - 1]
    IN  kept[Len(s)]

\* The tick, the first look at max_runs, and the futures to reap.
TickLoop ==
    /\ pc = "tick"
    /\ tick' = 0 /\ worked' = FALSE
    /\ IF AtLimit(count)
       THEN pc' = "join" /\ UNCHANGED batch
       ELSE pc' = "reap" /\ batch' = Those(futures, {l \in Lanes : Done(l)})
    /\ UNCHANGED <<mode, queue, log, pending, beat, file, troubles>>

\* _finalize_run of the jobs in S: off the active set, counted, the next run
\* set from when the run ended, and a row of its own that may fail to be written.
Finalize(S, written) ==
    /\ execution' = [j \in Jobs |-> IF j \in S THEN Idle ELSE execution[j]]
    /\ left' = [j \in Jobs |-> IF j \in S THEN Interval[j] - execution[j].ended ELSE left[j]]
    /\ count' = IF Limited THEN count + Cardinality(S) ELSE count
    /\ rows' = [j \in Jobs |-> IF j \in S /\ written
                               THEN [status |-> execution[j].state, age |-> execution[j].ended]
                               ELSE rows[j]]
    /\ failure' = Min({failure} \cup {execution[j].ended :
                        j \in {k \in S : written /\ execution[k].state = "error"}})

\* One finished run: its row, then a heartbeat.  One of the two may fail.
Reap(j) ==
    LET stops == execution[j].state = "error" /\ mode.stopOnError
        says == Payload(IF stops THEN "error" ELSE Resolved(execution'), execution', tick)
    IN  /\ \/ Finalize({j}, TRUE) /\ Emit(says)
           \/ Finalize({j}, FALSE) /\ Fails /\ file' = says
        /\ pending' = IF stops THEN "error" ELSE pending

\* An error ends the reaping of lanes, but not this iteration: the maintenance
\* job is still looked at.
ReapLane ==
    /\ pc = "reap" /\ batch # <<>>
    /\ Reap(Head(batch))
    /\ futures' = Those(futures, Lanes \ {Head(batch)})
    /\ batch' = IF pending' = "no" THEN Tail(batch) ELSE <<>>
    /\ UNCHANGED <<mode, pc, worked, slot, launched, tick, beat>>

LanesReaped ==
    /\ pc = "reap" /\ batch = <<>>
    /\ pc' = "reapMaint"
    /\ UNCHANGED <<mode, batch, worked, queue, log, tick, pending, beat, file, troubles>>

ReapMaintenance ==
    /\ pc = "reapMaint"
    /\ IF slot # None /\ Done(slot)
       THEN Reap(slot) /\ slot' = None
       ELSE UNCHANGED <<slot, execution, left, log, pending, file, troubles>>
    /\ pc' = IF pending' # "no" \/ AtLimit(count') THEN "join" ELSE "dispatch"
    /\ UNCHANGED <<mode, batch, worked, futures, launched, tick, beat>>

\* Bugs these rules guard against: a second run of an active job, and a failed
\* job that is not run again.
DueAgain(j) == j \in mode.enabled /\ left[j] <= 0
DueUnlessFailed(j) == j \in mode.enabled /\ left[j] <= 0 /\ ~Active(j) /\ rows[j].status # "error"
Due(j) == j \in mode.enabled /\ left[j] <= 0 /\ ~Active(j)
InFlight == Len(futures) + Cardinality({slot} \ {None})
Launch(S) ==
    /\ execution' = [j \in Jobs |-> IF j \in S THEN Running ELSE execution[j]]
    /\ launched' = IF Limited THEN launched + Cardinality(S) ELSE launched

\* Bugs: a max_runs that forgets the runs in flight, and a pool that keeps a
\* place for the maintenance job, which has an executor of its own.
RoomWithoutFlight ==
    LET pool == mode.concurrency - Len(futures)
    IN  IF Limited THEN Min({pool, mode.limit - count}) ELSE pool
RoomForMaintenance == mode.concurrency - Len(futures) - 1
\* The due lanes, in config order, as far as the pool and max_runs reach.
Room ==
    LET pool == mode.concurrency - Len(futures)
    IN  IF Limited THEN Min({pool, mode.limit - (count + InFlight)}) ELSE pool
LanesToStart ==
    LET due == Those(LaneSeq, {l \in Lanes : Due(l)})
    IN  SubSeq(due, 1, Min({Len(due), Max({Room, 0})}))

DispatchLanes ==
    /\ pc = "dispatch"
    /\ pc' = "dispatchMaint"
    /\ IF LanesToStart = <<>>
       THEN UNCHANGED <<worked, futures, execution, launched, file, troubles>>
       ELSE /\ worked' = TRUE
            /\ futures' = futures \o LanesToStart
            /\ Launch(ToSet(LanesToStart))
            /\ Emit(Payload("running", execution', tick))
    /\ UNCHANGED <<mode, batch, slot, left, log, tick, pending, beat>>

\* The first due job in config order: by itself, a bug the next one replaced.
FirstOf(due) == MaintSeq[Min({i \in DOMAIN MaintSeq : MaintSeq[i] \in due})]
\* _select_oldest_due_job: the deadline furthest in the past, and of equal ones
\* the first in config order.
Oldest(due) == FirstOf({j \in due : \A k \in due : left[j] <= left[k]})
MaintDue == {j \in Maint : Due(j)}

\* At most one maintenance job at a time; after a dispatch of either kind the
\* thread looks again at once.
DispatchMaintenance ==
    /\ pc = "dispatchMaint"
    /\ IF slot = None /\ MaintDue # {} /\ ~AtLimit(count + InFlight)
       THEN LET job == Oldest(MaintDue)
            IN  /\ slot' = job
                /\ Launch({job})
                /\ Emit(Payload("running", execution', tick))
                /\ pc' = "tick"
       ELSE /\ UNCHANGED <<slot, execution, launched>>
            /\ pc' = IF worked THEN "tick" ELSE "asleep"
            /\ IF ~worked /\ futures = <<>> /\ slot = None
               THEN Emit(Payload("idle", execution, tick))
               ELSE UNCHANGED <<file, troubles>>
    /\ UNCHANGED <<mode, batch, worked, futures, left, log, tick, pending, beat>>

\* The operator's interrupt meets the thread in its sleep.
Interrupt ==
    /\ pc = "asleep"
    /\ pc' = "join" /\ pending' = "interrupt"
    /\ UNCHANGED <<mode, batch, worked, queue, log, tick, beat, file, troubles>>

\* A bug: no join, and the refresher may be at its write.
JoinAtOnce ==
    /\ pc = "join" /\ pc' = "drain"
    /\ UNCHANGED <<mode, batch, worked, queue, log, tick, pending, beat, file, troubles>>

\* heartbeat_stop.set() and the join: the thread is gone before the executors
\* are waited for.  (The join gives up after the interval and a second: the
\* model has no write of the heartbeat that takes longer.)
Join ==
    /\ pc = "join" /\ beat.pc = "wait"
    /\ beat' = [beat EXCEPT !.pc = "gone"]
    /\ pc' = "drain"
    /\ UNCHANGED <<mode, batch, worked, queue, log, tick, pending, file, troubles>>

\* Both executors are shut down, every result is recorded, and the last
\* heartbeat says how it ended; after an interrupt there is none.
Drain ==
    /\ pc = "drain"
    /\ \A j \in Jobs : Active(j) => Done(j)
    /\ Finalize({j \in Jobs : Active(j)}, TRUE)
    /\ futures' = <<>> /\ slot' = None
    /\ IF pending = "interrupt"
       THEN UNCHANGED <<file, troubles>>
       ELSE Emit(Payload(IF pending = "error" THEN "error" ELSE "stopped", execution', tick))
    /\ pc' = "over"
    /\ UNCHANGED <<mode, batch, worked, launched, tick, pending, beat>>

(***************************************************************************)
(* The executor threads: _run_collector_job around _execute_ops_job.       *)
(***************************************************************************)

Outcome(j) ==
    \/ execution' = [execution EXCEPT ![j].state = "success"] /\ UNCHANGED troubles
    \/ execution' = [execution EXCEPT ![j].state = "error"] /\ Trouble("error")
    \/ /\ j \in MayHang
       /\ execution' = [execution EXCEPT ![j].state = "hung"] /\ Trouble("hang")

\* A run takes at least a unit of time.
RunEnds(j) ==
    /\ pc # "dead"
    /\ execution[j].state = "running" /\ execution[j].started > 0
    /\ Outcome(j)
    /\ UNCHANGED <<mode, pc, batch, worked, futures, slot, left, launched, log,
                   tick, pending, beat, file>>

(***************************************************************************)
(* _heartbeat_refresher.  The payload is built under one lock and written  *)
(* under another: what comes between makes an old payload the newer file.  *)
(***************************************************************************)

Refresh ==
    /\ beat.pc = "wait" /\ beat.due
    /\ beat' = Quiet
    /\ Emit(Payload(Resolved(execution), execution, tick))
    /\ UNCHANGED <<mode, pc, batch, worked, queue, log, tick, pending>>

BuildOnly ==
    /\ beat.pc = "wait" /\ beat.due
    /\ Trouble("slow")
    /\ beat' = [pc |-> "emit", due |-> FALSE, payload |-> Payload(Resolved(execution), execution, tick)]
    /\ UNCHANGED <<mode, pc, batch, worked, queue, log, tick, pending, file>>

EmitLate ==
    /\ beat.pc = "emit"
    /\ beat' = Quiet
    /\ Emit(beat.payload)
    /\ UNCHANGED <<mode, pc, batch, worked, queue, log, tick, pending>>

(***************************************************************************)
(* Time, and the end of the process.                                       *)
(***************************************************************************)

Overrun(j) == execution[j].state = "running" /\ execution[j].started >= Longest[j]

\* The thread sleeps, waits for its executors, or is gone; the refresher keeps
\* its interval of one unit; no run outlasts its bound.
Clock ==
    /\ pc \in {"asleep", "drain", "over", "dead"}
    /\ pc = "asleep" => ~beat.due /\ beat.pc = "wait"
    /\ pc # "dead" => \A j \in Jobs : ~Overrun(j)
    /\ pc' = IF pc = "asleep" THEN "tick" ELSE pc
    /\ beat' = [beat EXCEPT !.due = pc = "asleep"]
    /\ execution' = [j \in Jobs |-> [execution[j] EXCEPT
                        !.started = IF Active(j) THEN Older(@) ELSE 0,
                        !.ended = IF Done(j) THEN Older(@) ELSE 0]]
    /\ left' = [j \in Jobs |-> IF Active(j) \/ j \notin mode.enabled THEN left[j]
                              ELSE Max({left[j] - 1, -Cap})]
    /\ tick' = Older(tick)
    /\ file' = [file EXCEPT !.seen = Older(@), !.tick = Older(@),
                            !.active = [j \in Jobs |-> IF @[j] = NotActive THEN @[j] ELSE Older(@[j])]]
    /\ rows' = [j \in Jobs |-> IF rows[j] = NoRow THEN NoRow ELSE [rows[j] EXCEPT !.age = Older(@)]]
    /\ failure' = Older(failure)
    /\ UNCHANGED <<mode, batch, worked, futures, slot, count, launched, pending, troubles>>

\* What was in memory is gone.
Forget ==
    /\ batch' = <<>> /\ worked' = FALSE /\ futures' = <<>> /\ slot' = None
    /\ execution' = AllIdle /\ left' = AllDue
    /\ count' = 0 /\ launched' = 0 /\ pending' = "no"
    /\ beat' = Quiet

Kill ==
    /\ pc # "dead" /\ pc # "over"
    /\ Trouble("kill")
    /\ pc' = "dead"
    /\ Forget
    /\ UNCHANGED <<mode, rows, failure, tick, file>>

Restart ==
    /\ pc = "dead"
    /\ Forget
    /\ pc' = "tick" /\ tick' = 0
    /\ file' = Starting
    /\ UNCHANGED <<mode, rows, failure, troubles>>

SchedulerStep ==
    \/ TickLoop \/ ReapLane \/ LanesReaped \/ ReapMaintenance
    \/ DispatchLanes \/ DispatchMaintenance \/ Join \/ Drain

Next ==
    \/ SchedulerStep \/ Interrupt
    \/ \E j \in Jobs : RunEnds(j)
    \/ Refresh \/ BuildOnly \/ EmitLate
    \/ Clock \/ Kill \/ Restart

\* The operating system runs the process's threads and its clock; a lane ends by
\* its timeout, and a maintenance job ends or hangs.  Nothing restarts a runner.
Fairness ==
    /\ WF_vars(SchedulerStep) /\ WF_vars(Clock)
    /\ WF_vars(Refresh) /\ WF_vars(EmitLate)
    /\ \A j \in Jobs : WF_vars(RunEnds(j))

Spec == Init /\ [][Next]_vars /\ Fairness

(***************************************************************************)
(* Properties.                                                             *)
(***************************************************************************)

Age == 0..Cap
Beat == [status : {"starting", "running", "idle", "error", "stopped"}, seen : Age, tick : Age,
         active : [Jobs -> 0..NotActive]]

TypeOK ==
    /\ mode \in Modes
    /\ pc \in {"tick", "reap", "reapMaint", "dispatch", "dispatchMaint", "asleep",
               "join", "drain", "over", "dead"}
    /\ batch \in Seq(Lanes) /\ futures \in Seq(Lanes)
    /\ worked \in BOOLEAN
    /\ slot \in Maint \cup {None}
    /\ execution \in [Jobs -> [state : {"idle", "running", "success", "error", "hung"},
                               started : Age, ended : Age]]
    /\ left \in [Jobs -> Int]
    /\ count \in Nat /\ launched \in Nat
    /\ tick \in Age /\ failure \in Age
    /\ pending \in {"no", "error", "interrupt"}
    /\ beat \in [pc : {"wait", "emit", "gone"}, due : BOOLEAN, payload : Beat]
    /\ file \in Beat
    /\ rows \in [Jobs -> [status : {"missing", "success", "error"}, age : Age]]
    /\ troubles \subseteq Kinds

(***************************************************************************)
(* The executors and _sched_active agree: an active lane has one future,   *)
(* an active maintenance job is the one in the slot, and neither outgrows  *)
(* its executor (the two dispatch steps and the two reaping steps).        *)
(***************************************************************************)
OneRunPerJob ==
    /\ IsInjective(futures)
    /\ ToSet(futures) = {j \in Lanes : Active(j)}
    /\ {slot} \ {None} = {j \in Maint : Active(j)}
    /\ Len(futures) <= mode.concurrency

(***************************************************************************)
(* "A bounded (max_runs) run never launches more work than it will         *)
(* eventually report": what was launched is reported or in flight, never   *)
(* more than the limit, and all of it is reported when the runner is over. *)
(***************************************************************************)
LaunchedIsReported ==
    (Limited /\ pc # "dead") => /\ launched = count + InFlight
                                /\ launched <= mode.limit
                                /\ pc = "over" => count = launched

\* Both: nothing runs twice or beyond its executor, and nothing is lost to the
\* report; with the types of the state.
LaunchesAreAccounted == TypeOK /\ OneRunPerJob /\ LaunchedIsReported

\* Whoever reads the heartbeat of a runner that is over reads how it ended: the
\* refresher is joined before the last beat is written.
LastBeatStays == [][pc = "over" => file'.status = file.status]_vars

\* While no maintenance job hangs, each runs again and again, however
\* often the others fall due.
MaintenanceRuns ==
    \A m \in Maint :
        <>[](InLoop /\ m \in mode.enabled
                    /\ \A k \in Maint : execution[k].state # "hung")
            => []<>(execution[m].state = "running")

\* A lane with a place in the pool is started again and again, whatever
\* the maintenance jobs do: none of them runs in the scheduler thread.
LanesKeepRunning ==
    \A l \in Lanes :
        (<>[]InLoop /\ l \in mode.enabled /\ mode.concurrency >= Cardinality(Lanes \cap mode.enabled))
            => []<>(execution[l].state = "running") /\ []<>(execution[l].state = "idle")

\* Both: every job that is due is started, again and again.
JobsKeepRunning == MaintenanceRuns /\ LanesKeepRunning
=============================================================================
