---------------------------- MODULE EvidenceLease ----------------------------
(***************************************************************************)
(* The allowance of a trial (evidence_lease.py).  An operator prepares it  *)
(* once; each run that wants to keep evidence claims one of its slots, and *)
(* every slot ends at the same moment, Seconds after the first claim, by   *)
(* the wall clock and by the monotonic one.  The runs are processes that   *)
(* share one SQLite row, the claims and the lock on one byte.              *)
(*                                                                         *)
(* A transaction (BEGIN IMMEDIATE, commit) is one step; the clocks are     *)
(* read before it, in a step of their own.  A refusal is one of the ways a *)
(* writer ends: it raises, and so does a database that is busy.            *)
(*                                                                         *)
(* A tick is a second, the cadence of the checkpoints; two readings agree, *)
(* then, when wall and monotonic clock have moved by the same ticks.       *)
(***************************************************************************)
EXTENDS Integers, Sequences

CONSTANTS
    LeaseRuns,   \* the runs that come to claim
    NoRun,       \* the holder of a free lock
    Slots,       \* SLOTS
    Seconds,     \* SECONDS
    LastTick,    \* bound: ticks looked at
    MaxSteps,    \* bound: times the wall clock is stepped
    MaxReboots   \* bound: restarts of the host

ASSUME LeaseRunsAssumption == NoRun \notin LeaseRuns
ASSUME LeaseBoundsAssumption ==
    /\ Slots \in Nat \ {0} /\ Seconds \in Nat \ {0}
    /\ LastTick \in Nat /\ MaxSteps \in Nat /\ MaxReboots \in Nat

VARIABLES
    time, skew, booted,   \* true time, wall clock against it, and the last boot
    steps, reboots,
    trial,                \* the row: first and last reading, and stopped
    claims,               \* the claims in the order of their slots
    byteLock,             \* who has writer.lock
    writer,               \* of each run: where it is, what for, and its readings
    manifests,            \* runs whose manifest was renamed into place
    begin                 \* history: when the first claim read its clock

hostVars == <<time, skew, booted, steps, reboots>>
leaseVars == <<trial, claims, byteLock, writer, manifests, begin>>
lvars == <<hostVars, leaseVars>>

Reading == [wall : Int, mono : Int]
NoReading == [wall |-> 0, mono |-> 0]
Clock == [wall |-> time + skew, mono |-> time - booted]

\* What the writer looks at its lease for: the check after the claim, the record
\* loop, the start of the publication, the temporary file, the rename.
Reasons == {"first", "drain", "publish", "prepare", "rename"}
Places == {"idle", "claiming", "granted", "look", "save", "again", "stopping",
           "control", "act", "ended"}
Resting(place) == [at |-> place, why |-> "first", known |-> NoReading,
                   base |-> NoReading, saved |-> 0]
Idle == Resting("idle")
Ended == Resting("ended")

Writer == [at : Places, why : Reasons, known : Reading, base : Reading, saved : Int]
Row == [first : Reading, last : Reading, stopped : BOOLEAN]

LeaseTypeOK ==
    /\ time \in 0..LastTick /\ skew \in Int /\ booted \in 0..time
    /\ steps \in 0..MaxSteps /\ reboots \in 0..MaxReboots
    /\ trial \in Row
    /\ claims \in Seq(LeaseRuns)
    /\ byteLock \in LeaseRuns \cup {NoRun}
    /\ writer \in [LeaseRuns -> Writer]
    /\ manifests \subseteq LeaseRuns /\ begin \in Int

LeaseInit ==
    /\ time = 0 /\ skew = 0 /\ booted = 0 /\ steps = 0 /\ reboots = 0
    /\ trial = [first |-> NoReading, last |-> NoReading, stopped |-> FALSE]
    /\ claims = <<>> /\ byteLock = NoRun
    /\ writer = [r \in LeaseRuns |-> Idle]
    /\ manifests = {} /\ begin = 0

-----------------------------------------------------------------------------
\* No clock went back between two readings, and both went on alike.
Agrees(old, new) ==
    /\ new.wall >= old.wall /\ new.mono >= old.mono
    /\ new.wall - old.wall = new.mono - old.mono

Past(reading, first) ==
    reading.wall >= first.wall + Seconds \/ reading.mono >= first.mono + Seconds

\* The writer returns or raises, or its process ends: the lock goes, the claim stays.
Quits(r) ==
    /\ writer' = [writer EXCEPT ![r] = Ended]
    /\ byteLock' = IF byteLock = r THEN NoRun ELSE byteLock

LeaseFails(r) ==
    /\ writer[r].at \notin {"idle", "ended"}
    /\ Quits(r)
    /\ UNCHANGED <<hostVars, trial, claims, manifests, begin>>

-----------------------------------------------------------------------------
(* The claim.                                                               *)

ReadClock(r) ==
    /\ writer[r].at = "idle"
    /\ writer' = [writer EXCEPT ![r].at = "claiming", ![r].known = Clock]
    /\ UNCHANGED <<hostVars, trial, claims, byteLock, manifests, begin>>

InOrder(reading) ==
    claims # <<>> => Agrees(trial.last, reading) /\ ~Past(reading, trial.first)

\* Mutant: every claim starts the time of the trial again.
RowRenewed(reading) == [trial EXCEPT !.first = reading, !.last = reading]

\* The row after a claim: the first one fixes the end of all.
RowWith(reading) ==
    [trial EXCEPT !.first = IF claims = <<>> THEN reading ELSE @, !.last = reading]

ClaimSlot(r) ==
    LET reading == writer[r].known IN
    /\ writer[r].at = "claiming" /\ ~trial.stopped
    /\ InOrder(reading) /\ Len(claims) < Slots
    /\ trial' = RowWith(reading)
    /\ claims' = Append(claims, r)
    /\ writer' = [writer EXCEPT ![r].at = "granted", ![r].base = RowWith(reading).first,
                                ![r].saved = reading.mono]
    /\ begin' = IF claims = <<>> THEN reading.mono + booted ELSE begin
    /\ UNCHANGED <<hostVars, byteLock, manifests>>

ClaimStopsTrial(r) ==
    /\ writer[r].at = "claiming" /\ ~trial.stopped
    /\ ~InOrder(writer[r].known)
    /\ trial' = [trial EXCEPT !.stopped = TRUE]
    /\ Quits(r)
    /\ UNCHANGED <<hostVars, claims, manifests, begin>>

TakeByteLock(r) ==
    /\ writer[r].at = "granted" /\ byteLock = NoRun
    /\ byteLock' = r
    /\ writer' = [writer EXCEPT ![r].at = "look"]
    /\ UNCHANGED <<hostVars, trial, claims, manifests, begin>>

-----------------------------------------------------------------------------
(* check() and verify_clock(), between the writes of the journal's writer.  *)

Sound(r) == Agrees(writer[r].known, Clock) /\ ~Past(Clock, writer[r].base)

\* check() leaves a checkpoint when it is asked to, or once a second;
\* verify_clock() none, but the last one reads what others have left.
AfterLook(r) ==
    CASE writer[r].at = "again" -> "act"
      [] writer[r].why \in {"first", "publish"} -> "save"
      [] writer[r].why = "drain" -> IF Clock.mono - writer[r].saved >= 1 THEN "save" ELSE "act"
      [] writer[r].why = "prepare" -> "act"
      [] writer[r].why = "rename" -> "control"

LookPasses(r) ==
    /\ writer[r].at \in {"look", "again"} /\ Sound(r)
    /\ writer' = [writer EXCEPT ![r].at = AfterLook(r), ![r].known = Clock]
    /\ UNCHANGED <<hostVars, trial, claims, byteLock, manifests, begin>>

LookFails(r) ==
    /\ writer[r].at \in {"look", "again"} /\ ~Sound(r)
    /\ writer' = [writer EXCEPT ![r].at = "stopping"]
    /\ UNCHANGED <<hostVars, trial, claims, byteLock, manifests, begin>>

\* _stop(): nothing else about the row is asked for.
StopTrial(r) ==
    /\ writer[r].at = "stopping"
    /\ trial' = [trial EXCEPT !.stopped = TRUE]
    /\ Quits(r)
    /\ UNCHANGED <<hostVars, claims, manifests, begin>>

\* What another run has left in the row allows this one to go on.
RowAllows(r) == ~trial.stopped /\ trial.last.wall <= writer[r].known.wall

\* Mutant: a checkpoint keeps the monotonic clock of the one before it.
SaveWallOnly(r) ==
    /\ writer[r].at = "save" /\ RowAllows(r)
    /\ trial' = [trial EXCEPT !.last.wall = writer[r].known.wall]
    /\ writer' = [writer EXCEPT ![r].at = "again", ![r].saved = writer[r].known.mono]
    /\ UNCHANGED <<hostVars, claims, byteLock, manifests, begin>>

SaveReading(r) ==
    /\ writer[r].at = "save" /\ RowAllows(r)
    /\ trial' = [trial EXCEPT !.last = writer[r].known]
    /\ writer' = [writer EXCEPT ![r].at = "again", ![r].saved = writer[r].known.mono]
    /\ UNCHANGED <<hostVars, claims, byteLock, manifests, begin>>

ReadRow(r) ==
    /\ writer[r].at = "control" /\ RowAllows(r)
    /\ writer' = [writer EXCEPT ![r].at = "act"]
    /\ UNCHANGED <<hostVars, trial, claims, byteLock, manifests, begin>>

-----------------------------------------------------------------------------
(* What the looks are for (_write and _publish of session_evidence.py).     *)

Goes(r, why) ==
    /\ writer[r].at = "act"
    /\ writer' = [writer EXCEPT ![r].at = "look", ![r].why = why]
    /\ UNCHANGED <<hostVars, trial, claims, byteLock, manifests, begin>>

\* The directory is there; a record is written, or none came for a while.
Records(r) == writer[r].why \in {"first", "drain"} /\ Goes(r, "drain")
EndsJournal(r) == writer[r].why = "drain" /\ Goes(r, "publish")
AccountsRaw(r) == writer[r].why = "publish" /\ Goes(r, "prepare")
WritesTmp(r) == writer[r].why = "prepare" /\ Goes(r, "rename")

RenamesManifest(r) ==
    /\ writer[r].at = "act" /\ writer[r].why = "rename"
    /\ manifests' = manifests \cup {r}
    /\ Quits(r)
    /\ UNCHANGED <<hostVars, trial, claims, begin>>

LeaseWriter(r) ==
    \/ ReadClock(r) \/ ClaimSlot(r) \/ ClaimStopsTrial(r) \/ TakeByteLock(r)
    \/ LookPasses(r) \/ LookFails(r) \/ StopTrial(r) \/ SaveReading(r) \/ ReadRow(r)
    \/ Records(r) \/ EndsJournal(r) \/ AccountsRaw(r) \/ WritesTmp(r)
    \/ RenamesManifest(r) \/ LeaseFails(r)

-----------------------------------------------------------------------------
(* The host (external).                                                     *)

HostTick ==
    /\ time < LastTick
    /\ time' = time + 1
    /\ UNCHANGED <<skew, booted, steps, reboots, leaseVars>>

StepWallClock ==
    /\ steps < MaxSteps
    /\ \E d \in {-1, 1} : skew' = skew + d
    /\ steps' = steps + 1
    /\ UNCHANGED <<time, booted, reboots, leaseVars>>

\* The processes end, the byte is free, the monotonic clock starts again.
Reboot ==
    /\ reboots < MaxReboots
    /\ booted' = time /\ reboots' = reboots + 1
    /\ writer' = [r \in LeaseRuns |-> IF writer[r].at = "idle" THEN Idle ELSE Ended]
    /\ byteLock' = NoRun
    /\ UNCHANGED <<time, skew, steps, trial, claims, manifests, begin>>

LeaseNext == HostTick \/ StepWallClock \/ Reboot \/ \E r \in LeaseRuns : LeaseWriter(r)
LeaseSpec == LeaseInit /\ [][LeaseNext]_lvars

-----------------------------------------------------------------------------
(* Properties.                                                              *)

\* Both clocks have been tampered with: neither tells how long the trial has run.
Misled == steps > 0 /\ reboots > 0

\* Whoever is allowed to go on writing has claimed one of the slots and is alone with
\* the lock, and less than Seconds have passed since the first claim: one stepped
\* clock, or a restart of the host, does not give a trial more time.
AllowanceHolds ==
    [][\A r \in LeaseRuns :
        writer[r].at \in {"look", "again"} /\ writer'[r].at \in {"save", "act", "control"} =>
            /\ \E s \in 1..Slots : s <= Len(claims) /\ claims[s] = r
            /\ \A q \in LeaseRuns :
                writer[q].at \in {"look", "save", "again", "stopping", "control", "act"} => q = r
            /\ time < begin + Seconds \/ Misled]_lvars

\* A trial is stopped because a clock was tampered with or its time is over, with one
\* exception: the writer's checkpoint came between a claim's look at the clocks and
\* its transaction.  It stays stopped: nobody claims a slot any more, and no manifest
\* is renamed but by a run that had read the row before.
Overtaken ==
    \E r \in LeaseRuns :
        writer[r].at = "claiming" /\ claims # <<>> /\ writer[r].known.wall < trial.last.wall
StopsAreRight ==
    [][/\ trial'.stopped /\ ~trial.stopped =>
            steps > 0 \/ reboots > 0 \/ time >= begin + Seconds \/ Overtaken
       /\ trial.stopped =>
            /\ trial' = trial /\ claims' = claims
            /\ \A r \in manifests' \ manifests : writer[r].at = "act"]_lvars
=============================================================================
