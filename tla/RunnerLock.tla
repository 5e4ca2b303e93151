----------------------------- MODULE RunnerLock -----------------------------
(* The lock files of ops.py: OpsRunnerLock keeps two ops runners apart, and *)
(* StandaloneWorkerLock two workers of a lane.  A launcher creates the file *)
(* with O_EXCL and then writes who it is; when the file is there, it judges *)
(* from the owner's pid, the heartbeat and the ages whether the owner is    *)
(* dead, and a stale lock is broken by a rename.                            *)
(*                                                                         *)
(* Time passes in ticks.  A launcher is a process, which stands for its pid. *)
EXTENDS Integers, FiniteSets

CONSTANTS
    Procs,           \* the processes that may launch
    NoFile,          \* no lock file, or no heartbeat
    MidWriteGrace,   \* _LOCK_MID_WRITE_GRACE_SECONDS
    CreatedGrace,    \* _LOCK_CREATED_GRACE_SECONDS
    FreshFor,        \* max_age_seconds of the heartbeat
    Deadline,        \* _LOCK_ACQUIRE_DEADLINE_SECONDS
    Old,             \* bound: ages are not told apart beyond this
    Modes            \* the locks and their users to look at

ASSUME ProcsAssumption == NoFile \notin Procs
ASSUME GraceAssumption ==
    /\ MidWriteGrace \in Nat \ {0} /\ CreatedGrace \in Nat /\ FreshFor \in Nat
    /\ Deadline \in Nat /\ Old \in Nat
    /\ MidWriteGrace <= CreatedGrace /\ CreatedGrace < Old /\ FreshFor < Old
    /\ Deadline < Old
ASSUME ModeAssumption ==
    Modes \subseteq [ownBeat : BOOLEAN, serial : BOOLEAN, mayDrain : BOOLEAN]

VARIABLES
    mode,       \* the lock and its users: never changes
    file,       \* who created the lock file that is there
    written,    \* its payload is complete
    lockAge,    \* ticks since its creation
    beat,       \* ticks since the last heartbeat
    beatOf,     \* who wrote it
    stage,      \* where each process is
    waited,     \* ticks each has spent in acquire()
    recycled    \* ended processes whose pid an unrelated process has now

lockVars == <<file, written, lockAge>>
beatVars == <<beat, beatOf>>
vars == <<mode, lockVars, beatVars, stage, waited, recycled>>

OwnBeat == mode.ownBeat     \* the worker lock: a heartbeat counts for its own pid only
Serial == mode.serial       \* no two launchers are in acquire() at once
MayDrain == mode.mayDrain   \* an owner may outlive its heartbeats

Acquiring == {"create", "judge", "break"}
Owning == {"start", "run", "drain"}
Gone == {"released", "refused", "dead"}
Stages == {"off", "dump"} \cup Acquiring \cup Owning \cup Gone

TypeOK ==
    /\ mode \in Modes
    /\ file \in Procs \cup {NoFile} /\ written \in BOOLEAN
    /\ lockAge \in 0..Old /\ beat \in 0..Old /\ beatOf \in Procs \cup {NoFile}
    /\ stage \in [Procs -> Stages] /\ waited \in [Procs -> 0..Old]
    /\ recycled \subseteq Procs

Init ==
    /\ mode \in Modes
    /\ file = NoFile /\ written = FALSE /\ lockAge = Old
    /\ beat = Old /\ beatOf = NoFile
    /\ stage = [p \in Procs |-> "off"] /\ waited = [p \in Procs |-> 0]
    /\ recycled = {}

-----------------------------------------------------------------------------
(* acquire().                                                               *)

GoesTo(p, s) == stage' = [stage EXCEPT ![p] = s]

\* A boot task, a redeploy or an operator starts a process.
Launch(p) ==
    /\ stage[p] = "off"
    /\ Serial => \A q \in Procs : stage[q] \notin Acquiring \cup {"dump"}
    /\ GoesTo(p, "create")
    /\ UNCHANGED <<lockVars, beatVars, waited, recycled>>

\* O_CREAT | O_EXCL succeeds: an empty file.
CreateLock(p) ==
    /\ stage[p] = "create" /\ file = NoFile
    /\ file' = p /\ written' = FALSE /\ lockAge' = 0
    /\ GoesTo(p, "dump")
    /\ waited' = [waited EXCEPT ![p] = 0]
    /\ UNCHANGED <<beatVars, recycled>>

\* json.dump goes to the file that was opened, wherever that is by now.
DumpPayload(p) ==
    /\ stage[p] = "dump"
    /\ written' = (written \/ file = p)
    /\ GoesTo(p, "start")
    /\ UNCHANGED <<file, lockAge, beatVars, waited, recycled>>

\* FileExistsError; what is read next may be gone or new by then.
FindLock(p) ==
    /\ stage[p] = "create" /\ file # NoFile
    /\ GoesTo(p, "judge")
    /\ UNCHANGED <<lockVars, beatVars, waited, recycled>>

\* _read_json_file: a missing or a torn file reads as None.
Readable == file # NoFile /\ written

PidExists(p) == stage[p] \notin Gone \/ p \in recycled

\* Mutant: the worker's heartbeat file is not found under the name that is read.
HeartbeatOfWorkerUnread == beat <= FreshFor /\ ~OwnBeat

HeartbeatIsFresh == beat <= FreshFor /\ (OwnBeat => beatOf = file)

OwnerIsLive ==
    Readable /\ PidExists(file) /\ (HeartbeatIsFresh \/ lockAge <= CreatedGrace)

\* Mutant: an unreadable lock is left to its writer for ever.
PossiblyMidWriteForever == file # NoFile /\ ~written

\* Mutant: an unreadable lock is broken at once.
PossiblyMidWriteNever == FALSE

PossiblyMidWrite == file # NoFile /\ ~written /\ lockAge < MidWriteGrace

\* Mutant: the RuntimeError is swallowed, and the launcher goes on.
RefuseIgnored(p) ==
    /\ stage[p] = "judge" /\ OwnerIsLive
    /\ GoesTo(p, "start")
    /\ waited' = [waited EXCEPT ![p] = 0]
    /\ UNCHANGED <<lockVars, beatVars, recycled>>

Refuse(p) ==
    /\ stage[p] = "judge" /\ OwnerIsLive
    /\ GoesTo(p, "refused")
    /\ waited' = [waited EXCEPT ![p] = 0]
    /\ UNCHANGED <<lockVars, beatVars, recycled>>

\* After each wait and each rename, whether it won or lost, acquire() looks at
\* its deadline.
Retry(p) ==
    IF waited[p] > Deadline
    THEN GoesTo(p, "refused") /\ waited' = [waited EXCEPT ![p] = 0]
    ELSE GoesTo(p, "create") /\ UNCHANGED waited

WaitForWriter(p) ==
    /\ stage[p] = "judge" /\ PossiblyMidWrite
    /\ Retry(p)
    /\ UNCHANGED <<lockVars, beatVars, recycled>>

JudgeStale(p) ==
    /\ stage[p] = "judge" /\ ~OwnerIsLive /\ ~PossiblyMidWrite
    /\ GoesTo(p, "break")
    /\ UNCHANGED <<lockVars, beatVars, waited, recycled>>

NoLock == file' = NoFile /\ written' = FALSE /\ lockAge' = Old

\* _break_stale_lock: the rename takes whatever file has the name now.
BreakLock(p) ==
    /\ stage[p] = "break"
    /\ NoLock
    /\ Retry(p)
    /\ UNCHANGED <<beatVars, recycled>>

-----------------------------------------------------------------------------
(* The owner.                                                               *)

Heartbeat(p) ==
    /\ stage[p] \in {"start", "run"}
    /\ beat' = 0 /\ beatOf' = p
    /\ GoesTo(p, "run")
    /\ UNCHANGED <<lockVars, waited, recycled>>

\* run() leaves its loop: the heartbeat thread ends, then the executors are
\* drained of the jobs in flight, which may take as long as a segment.
Drain(p) ==
    /\ MayDrain
    /\ stage[p] = "run"
    /\ GoesTo(p, "drain")
    /\ UNCHANGED <<lockVars, beatVars, waited, recycled>>

\* run() leaves a last heartbeat unless an exception ends it; release() unlinks
\* the file with that name, whoever made it.
Release(p) ==
    /\ stage[p] \in Owning
    /\ NoLock
    /\ \/ beat' = 0 /\ beatOf' = p
       \/ UNCHANGED beatVars
    /\ GoesTo(p, "released")
    /\ UNCHANGED <<waited, recycled>>

-----------------------------------------------------------------------------
(* The system around them.                                                  *)

Crash(p) ==
    /\ stage[p] \notin Gone \cup {"off"}
    /\ GoesTo(p, "dead")
    /\ waited' = [waited EXCEPT ![p] = 0]
    /\ UNCHANGED <<lockVars, beatVars, recycled>>

\* An unrelated process gets the pid.
RecyclePid(p) ==
    /\ stage[p] \in Gone /\ p \notin recycled
    /\ recycled' = recycled \cup {p}
    /\ UNCHANGED <<lockVars, beatVars, stage, waited>>

\* No file names an ended process any more: it may stand for a new one.
Forget(p) ==
    /\ stage[p] \in Gone /\ file # p /\ beatOf # p
    /\ GoesTo(p, "off")
    /\ recycled' = recycled \ {p}
    /\ UNCHANGED <<lockVars, beatVars, waited>>

Older(age) == IF age < Old THEN age + 1 ELSE age

\* The payload is complete and the first heartbeat there before their graces
\* end, and the heartbeat thread of a running owner keeps its interval.
InTime ==
    /\ \A p \in Procs : stage[p] = "dump" /\ file = p => lockAge + 1 < MidWriteGrace
    /\ \A p \in Procs : stage[p] = "start" /\ file = p => lockAge < CreatedGrace
    /\ (\E p \in Procs : stage[p] = "run") => beat < FreshFor

Tick ==
    /\ InTime
    /\ lockAge' = Older(lockAge) /\ beat' = Older(beat)
    /\ waited' = [p \in Procs |-> IF stage[p] \in Acquiring THEN Older(waited[p])
                                  ELSE waited[p]]
    /\ UNCHANGED <<file, written, beatOf, stage, recycled>>

Acquire(p) ==
    \/ CreateLock(p) \/ DumpPayload(p) \/ FindLock(p)
    \/ Refuse(p) \/ WaitForWriter(p) \/ JudgeStale(p) \/ BreakLock(p)

Next ==
    /\ \/ \E p \in Procs : \/ Launch(p) \/ Acquire(p)
                           \/ Heartbeat(p) \/ Drain(p) \/ Release(p)
                           \/ Crash(p) \/ RecyclePid(p) \/ Forget(p)
       \/ Tick
    /\ UNCHANGED mode

Spec == Init /\ [][Next]_vars

\* A process in acquire() goes on, and time passes.
FairSpec ==
    Spec /\ WF_vars(Tick /\ UNCHANGED mode) /\ \A p \in Procs : WF_vars(Acquire(p) /\ UNCHANGED mode)

-----------------------------------------------------------------------------
(* Safety.                                                                  *)

\* One ops runner per plant, one worker per lane ("two runners, duplicate
\* promoters plant-wide"), if launches do not overlap and owners keep their beat.
MutualExclusion ==
    (Serial /\ ~MayDrain) => \A p, q \in Procs : stage[p] \in Owning /\ stage[q] \in Owning => p = q

\* A lock that is there is judged stale only when the process that made it has
\* ended: the graces and the heartbeat leave no gap from the creation of the
\* file, over its payload and the first heartbeat, to the release.  This is for
\* the lock any heartbeat vouches for, however launches overlap.
OnlyDeadIsStale ==
    [][~OwnBeat /\ ~MayDrain => \A p \in Procs :
          stage[p] = "judge" /\ stage'[p] = "break" /\ file # NoFile
              => stage[file] \in Gone]_vars

\* The unconditional unlink of release() takes the releasing owner's own lock.
ReleasesOwnLock ==
    [][Serial /\ ~MayDrain => \A p \in Procs :
          stage[p] \in Owning /\ stage'[p] = "released" => file = p]_vars

(* Liveness.                                                                *)

StaleLockOf(d) ==
    file = d /\ stage[d] = "dead" /\ lockAge > CreatedGrace /\ beat > FreshFor

\* What a dead owner left, be it an empty file or one with a pid that is in use
\* again, does not outlive the next launch once it is old ("crash-looping the lane
\* until a manual unlink"), whatever other launchers and owners do.  This is for
\* the worker's lock, which only its own owner's heartbeat vouches for.
StaleLockIsReclaimed ==
    \A p \in Procs : \A d \in Procs \ {p} :
        (OwnBeat /\ stage[p] = "create" /\ StaleLockOf(d))
            ~> (file # d \/ stage[p] = "dead")

(* What the comments promise and the code does not keep.                    *)

\* "exactly one process wins the rename; the loser loops and re-evaluates the
\* winner's fresh lock instead of deleting it" (_break_stale_lock)
NoFreshLockBroken ==
    [][\A p \in Procs :
          stage[p] = "break" /\ stage'[p] \in {"create", "refused"}
              => file = NoFile \/ stage[file] \in Gone]_vars
=============================================================================
