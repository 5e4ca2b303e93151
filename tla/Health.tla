------------------------------- MODULE Health -------------------------------
(***************************************************************************)
(* build_health_report over the files of a runner: what a check that reads *)
(* heartbeat.json and job_runs.jsonl now would find.  The report keeps no  *)
(* state; its rules are operators on the state of Scheduler.               *)
(*                                                                         *)
(* Left out: the rows of the standalone workers, the promoted partitions,  *)
(* the trades quality, the offload summary and the free disk space.        *)
(***************************************************************************)
EXTENDS Scheduler

CONSTANTS
    Segment,        \* max_segment_seconds of every job, or 0
    StaleAfter,     \* stale_after_seconds
    StallAfter,     \* 900 s without a tick
    FailureWindow,  \* recent_failure_window_seconds
    Allowance       \* _MAINTENANCE_SLOT_WAIT_ALLOWANCE_SECONDS

ASSUME HealthAssumption ==
    /\ Segment \in [Jobs -> Nat]
    /\ {StaleAfter, StallAfter, FailureWindow, Allowance} \subseteq Nat

Fresh == file.seen <= StaleAfter

\* The cadence of a lane is its segment; the thresholds are 2.5 cadences for the
\* last result, and 1.5 segments or else the same for a run in progress.
Cadence(j) == Max({Interval[j], Segment[j]})
PastCadence(j, age, extra) == 2 * age > 5 * Cadence(j) + 2 * extra
\* A bug it replaced: a lane's segment held to its re-dispatch interval.
PastInterval(j, age) == 2 * age > 5 * Interval[j]
PastLong(j, age) == IF Segment[j] > 0 THEN 2 * age > 3 * Segment[j] ELSE PastCadence(j, age, 0)

InProgress(j) == file.status = "running" /\ Fresh /\ file.active[j] # NotActive
\* A bug: only a lane can run for too long.
LongLane(j) == j \in Lanes /\ InProgress(j) /\ PastLong(j, file.active[j])
LongRunning(j) == InProgress(j) /\ PastLong(j, file.active[j])
IsStale(j) == ~InProgress(j) /\ (rows[j] = NoRow \/ PastCadence(j, rows[j].age, 0))

\* A due maintenance job behind a busy slot is queued, not stale, for as long as
\* one long pass explains.
SlotBusy == file.status = "running" /\ Fresh /\ \E j \in Maint : file.active[j] # NotActive
WaitingOnSlot(j) ==
    /\ IsStale(j) /\ j \in Maint /\ SlotBusy
    /\ rows[j] # NoRow /\ ~PastCadence(j, rows[j].age, Allowance)

\* A bug: the age of the heartbeat counts only while it says that runs go on.
StaleWhileRunning ==
    {f \in {"stale_heartbeat", "runner_error_state", "scheduler_stalled"} :
        \/ f = "stale_heartbeat" /\ ~Fresh /\ file.status = "running"
        \/ f = "runner_error_state" /\ file.status = "error"
        \/ f = "scheduler_stalled" /\ file.status \in {"running", "idle"} /\ file.tick > StallAfter}
HeartbeatFindings ==
    {f \in {"stale_heartbeat", "runner_error_state", "scheduler_stalled"} :
        \/ f = "stale_heartbeat" /\ ~Fresh
        \/ f = "runner_error_state" /\ file.status = "error"
        \/ f = "scheduler_stalled" /\ file.status \in {"running", "idle"} /\ file.tick > StallAfter}
RecentFailures == failure <= FailureWindow /\ failure < Cap

StaleJobs == {j \in mode.enabled : IsStale(j) /\ ~WaitingOnSlot(j)}
LongJobs == {j \in mode.enabled : LongRunning(j)}
FailedJobs == {j \in mode.enabled : rows[j].status = "error" /\ ~InProgress(j)}

Status ==
    IF HeartbeatFindings # {} \/ RecentFailures \/ LongJobs # {} THEN "error"
    ELSE IF StaleJobs \cup FailedJobs # {} THEN "warn" ELSE "ok"

(***************************************************************************)
(* Properties of the runner and the report together.                       *)
(***************************************************************************)

\* A scheduler that does not tick, killed or draining, is an error of the report
\* as soon as its last beat is stale, and its heartbeat does not say "stopped".
SilentSchedulerIsSeen ==
    tick > StaleAfter + 1 => Status = "error" \/ (pc = "over" /\ file.status = "stopped")

\* A maintenance job that hangs is an error of the report from when it is past its
\* threshold, although the scheduler ticks and the heartbeat is fresh.
HangIsSeen ==
    \A j \in Jobs :
        (execution[j].state = "hung" /\ PastLong(j, execution[j].started)) => Status = "error"

\* Both: a runner that has stopped working, or a job that has, is an error.
SicknessIsSeen == SilentSchedulerIsSeen /\ HangIsSeen

\* A runner that works, whose runs succeed and end in time, is never an error of
\* the report, although the heartbeat lags behind the scheduler.
Healthy == InLoop /\ troubles \subseteq {"slow"}
NoFalseError == Healthy => Status # "error"

\* The report is right both ways: it neither misses a runner or a job that has stopped
\* working nor cries about one that is busy.
HealthIsTold == SicknessIsSeen /\ NoFalseError

\* The allowance for the slot covers every queue a healthy runner can build: a
\* due maintenance job that has run before is never older than it explains, so
\* that none of them is reported as stale because of the queue.
QueueFitsAllowance ==
    Healthy =>
        \A m \in Maint : (rows[m] # NoRow /\ ~Active(m)) => ~PastCadence(m, rows[m].age, Allowance)

(***************************************************************************)
(* What a config must satisfy for the report to be right.                  *)
(***************************************************************************)

\* A heartbeat is stale before any maintenance job is called long: the config asks for
\* neither, but its shortest maintenance interval is 300 s, called long after 750 s, and
\* its stale_after_seconds 120 or 180 s.
StaleBeforeLong == \A j \in MayHang : ~PastLong(j, StaleAfter)

\* A heartbeat may be one sleep old, and its tick a sleep older; a run that ends is not
\* called long if the report learns of its end two sleeps late.  The last is a condition on
\* the runs of a runner that is well: a lane with segments of 1800 s is called long after
\* 2700 s, and its subprocess would be given 7200 s (cli.py, 4145).
RunsEndInTime ==
    /\ StaleAfter >= 1 /\ StallAfter >= 2
    /\ \A j \in Jobs : ~PastLong(j, Longest[j] + 2)

\* How long one run of each of the jobs in S holds the slot, at most: each is reaped a
\* sleep after its end.
SlotTime(S) ==
    LET sum[n \in 0..Len(MaintSeq)] ==
            IF n = 0 THEN 0
            ELSE sum[n - 1] + (IF MaintSeq[n] \in S THEN Longest[MaintSeq[n]] + 1 ELSE 0)
    IN  sum[Len(MaintSeq)]

\* The longest a job is queued: one run of each of the others and, before the end of a
\* runner that has launched all it may, the lanes in flight.  The allowance is "sized to
\* one normal long holder pass" (ops.py, 1077): it is enough if it explains this wait.
WaitIsExplained ==
    /\ \A m \in Maint : Interval[m] >= 2
    /\ \A r \in Modes : \A m \in Maint \cap r.enabled :
        LET wait == Interval[m] + SlotTime((Maint \cap r.enabled) \ {m})
        IN  /\ ~PastCadence(m, wait, Allowance)
            /\ r.limit # NoLimit =>
                \A l \in Lanes \cap r.enabled : ~PastCadence(m, wait + Longest[l] + 1, Allowance)
=============================================================================
