------------------------------- MODULE Segment -------------------------------
(***************************************************************************)
(* A WebSocket lane: the segmented worker, the generic collector and the   *)
(* pipeline with its sinks.  One coroutine runs all three, so there is one *)
(* pc: the collector (collectors/generic_ws.py) reads the socket and hands *)
(* a frame to the pipeline (pipeline.py), which writes it to the raw sink, *)
(* judges its events, writes those (storage.py), and asks for the next.    *)
(* When the stream ends or raises, the pipeline shuts its sinks down one   *)
(* by one; after a clean shutdown the segment is scored and the worker     *)
(* (cli.py, _run_segmented_worker) opens the next one.                     *)
(*                                                                         *)
(* Time is a tick, and every wait a countdown that must be served when it  *)
(* is over.  A data frame is its place on its connection.                  *)
(***************************************************************************)
EXTENDS Integers, Sequences, SequencesExt, TLC

CONSTANTS
    Lanes,          \* [acks, control, idle, deadline]: the lanes to look at
    AckTimeout,     \* subscription_ack_timeout_seconds, in ticks
    PingInterval,   \* ping_interval_seconds
    StormWindow,    \* _CLEAN_CLOSE_STORM_WINDOW_SECONDS
    BackoffBase, BackoffCap,   \* retry_backoff_seconds, max_backoff_seconds
    MaxAttempts,    \* connect_retries
    MaxDecodeErrors,\* _MAX_CONSECUTIVE_DECODE_ERRORS
    Count,          \* args.count: frames a segment takes
    Batch,          \* fsync_interval_events
    PartRows,       \* raw_rotate_bytes, in rows
    MaxSegments,    \* args.max_segments
    MaxFrames,      \* bound: data frames the venue sends
    MaxTroubles,    \* bound: connections refused, closed or broken, frames
                    \* nobody can decode, file operations that raise
    Crashes         \* whether the process may be killed and the power lost

Off == -1   \* a timer that is not armed

Timeouts == {Off} \cup (Nat \ {0})
\* What of a lane's configuration tells lanes apart here: whether it subscribes and
\* waits for the ack, whether control frames arrive, and its two time limits.
LaneConfig == [acks : BOOLEAN, control : BOOLEAN, idle : Timeouts, deadline : Timeouts]

ASSUME SegmentAssumption ==
    /\ Lanes \subseteq LaneConfig
    /\ {AckTimeout, PingInterval, StormWindow, BackoffBase, MaxAttempts,
        MaxDecodeErrors, Count, Batch, PartRows, MaxSegments} \subseteq Nat \ {0}
    /\ BackoffCap \in Nat /\ BackoffCap >= BackoffBase
    /\ {MaxFrames, MaxTroubles} \subseteq Nat
    /\ Crashes \in BOOLEAN

VARIABLES
    lane,       \* the lane's configuration, fixed in Init
    pc,
    \* the venue and the socket
    wire,       \* the frame that has arrived and nobody has read
    sent,       \* data frames sent on this connection
    frames, troubles,   \* how much of the bounds is used
    \* GenericWebsocketCollector.stream
    conn,       \* the connection's number
    buffered,   \* data frames read while waiting for the subscription's ack
    attempt, streak, sinceClose, decodeErrors, messages,
    wait,       \* ticks left of the wait in progress, or Off
    ping,       \* ticks until the keepalive task sends its ping, or Off
    silent,     \* history: ticks since the last data frame or the connection
    sinceFree,  \* history: ticks since a reconnect without any delay
    \* CollectorPipeline and its sinks
    hand,       \* the frame the collector has handed over
    left,       \* ticks until deadline_utc, or Off
    rows, synced, part,   \* the sinks: rows written, rows fsynced, rolled rows
    raised, cleanupError, metrics,
    \* the worker
    scored, segments

venueVars == <<wire, sent, frames, troubles>>
socketState == <<wire, sent>>
streamVars == <<buffered, attempt, streak, sinceClose, decodeErrors, messages>>
clocks == <<wait, ping, silent, sinceFree>>
sinks == <<rows, synced, part>>
ending == <<raised, cleanupError, metrics>>
worker == <<scored, segments>>
vars == <<lane, pc, venueVars, conn, streamVars, clocks, hand, left, sinks, ending, worker>>

Sinks == {"raw", "clean", "quarantine"}
Trouble == troubles < MaxTroubles /\ troubles' = troubles + 1
Data(n) == [kind |-> "data", n |-> n]
Frame(kind) == [kind |-> kind, n |-> 0]
Row(frame) == [n |-> frame.n, conn |-> conn]
None == Frame("none")

Least(a, b) == IF a <= b THEN a ELSE b
Up(clock, most) == Least(clock + 1, most)
Down(clock) == IF clock = Off THEN Off ELSE clock - 1

\* _backoff_delay
Backoff(n) == Least(BackoffCap, BackoffBase * 2 ^ (n - 1))

\* _segment_deadline_utc
SegmentDeadline == lane.deadline

\* Bound: longer silences are not told apart.
MostSilent == 1 + MaxDecodeErrors * lane.idle

(***************************************************************************)
(* The venue.  It answers a subscription or not, sends, closes or breaks.  *)
(***************************************************************************)

\* Frames queue while the process is busy and are read in order, so it is
\* enough that one arrives at a time, when the process waits for it.
Connected == pc \in {"ack", "pending", "recv", "raw", "judge", "after"}
Listening == pc \in {"ack", "recv"} /\ wire = None
Arrives(frame) == wire' = frame
Quiet == UNCHANGED <<lane, pc, conn, streamVars, clocks, hand, left, sinks, ending, worker>>

VenueSends ==
    /\ Listening /\ frames < MaxFrames
    /\ Arrives(Data(sent + 1))
    /\ sent' = sent + 1 /\ frames' = frames + 1
    /\ UNCHANGED troubles /\ Quiet

VenueSendsGarbage ==
    /\ Listening /\ Trouble
    /\ Arrives(Frame("garbled"))
    /\ UNCHANGED <<sent, frames>> /\ Quiet

\* The ack, or (at the cost of a drop) the error that refuses the subscription.
VenueAnswers ==
    /\ pc = "ack" /\ Listening
    /\ \/ Arrives(Frame("ack")) /\ UNCHANGED troubles
       \/ Trouble /\ Arrives(Frame("error"))
    /\ UNCHANGED <<sent, frames>> /\ Quiet

\* A close handshake, or a connection that just breaks.
VenueCloses ==
    /\ Listening /\ Trouble
    /\ \E kind \in {"close", "break"} : Arrives(Frame(kind))
    /\ UNCHANGED <<sent, frames>> /\ Quiet

\* _keepalive_loop sends its ping and the venue answers with a control frame;
\* a venue's own heartbeats look the same from here.
KeepAlive ==
    /\ ping = 0
    /\ ping' = PingInterval
    /\ IF Listening THEN Arrives(Frame("control")) ELSE UNCHANGED wire
    /\ UNCHANGED <<lane, pc, sent, frames, troubles, conn, streamVars, wait, silent,
                   sinceFree, hand, left, sinks, ending, worker>>

(***************************************************************************)
(* The collector.                                                          *)
(***************************************************************************)

NoTimer == wait' = Off /\ UNCHANGED <<silent, sinceFree>>
Reading == UNCHANGED <<lane, sent, frames, troubles, conn, hand, left, sinks, ending, worker>>

\* The stream ends, by a return or by raising: the pipeline's finally follows.
StreamEnds(raises) ==
    /\ pc' = "metrics" /\ raised' = raises
    /\ wait' = Off /\ ping' = Off
    /\ UNCHANGED <<lane, venueVars, conn, streamVars, silent, sinceFree, left, sinks,
                   cleanupError, metrics, worker>>

\* _is_retryable_connect_error: a refused subscription is final, a connection
\* that fails, breaks or closes is tried again.
Retryable(frame) == frame.kind # "error"

Spent == attempt + 1 >= MaxAttempts

\* The except clause of the connect loop: back off, unless the error is not
\* retryable or the attempts are spent.
Retry(retryable) ==
    /\ attempt' = attempt + 1
    /\ ping' = Off
    /\ IF Spent \/ ~retryable
       THEN /\ pc' = "metrics" /\ raised' = TRUE /\ wait' = Off
       ELSE /\ pc' = "sleep" /\ wait' = Backoff(attempt + 1) /\ UNCHANGED raised
    /\ wire' = None /\ sent' = 0 /\ buffered' = <<>>
    /\ UNCHANGED <<lane, frames, conn, streak, sinceClose, decodeErrors, messages,
                   silent, sinceFree, hand, left, sinks, cleanupError, metrics, worker>>

\* Back in the receive loop: each wait for a frame starts anew.
Receive ==
    /\ pc' = "recv" /\ wait' = lane.idle

\* After the subscription: start the keepalive, forward what was buffered.
Subscribed(pending) ==
    /\ attempt' = 0 /\ buffered' = pending
    /\ ping' = IF lane.control THEN PingInterval ELSE Off
    /\ silent' = 0 /\ UNCHANGED sinceFree
    /\ IF pending = <<>> THEN Receive ELSE pc' = "pending" /\ wait' = Off
    /\ UNCHANGED <<streak, sinceClose, decodeErrors, messages>>

Connect ==
    /\ pc = "connect"
    /\ conn' = conn + 1 /\ wire' = None /\ sent' = 0
    /\ IF lane.acks
       THEN /\ pc' = "ack" /\ wait' = AckTimeout /\ buffered' = <<>>
            /\ UNCHANGED <<attempt, streak, sinceClose, decodeErrors, messages, ping, silent, sinceFree>>
       ELSE Subscribed(<<>>)
    /\ UNCHANGED <<lane, frames, troubles, hand, left, sinks, ending, worker>>

ConnectFails ==
    /\ pc = "connect" /\ Trouble
    /\ Retry(TRUE)

\* A bug: the data that comes before the ack is dropped.
KeptNot == buffered
Kept == IF wire.kind = "data" THEN Append(buffered, wire) ELSE buffered

\* The wait for the ack (_subscribe): data read meanwhile is kept, other
\* frames and those that do not decode are skipped.
AckArrives ==
    /\ pc = "ack" /\ wire.kind = "ack"
    /\ Subscribed(buffered) /\ wire' = None /\ Reading

AckWaitReads ==
    /\ pc = "ack" /\ wire.kind \in {"data", "garbled", "control"}
    /\ wire' = None
    /\ buffered' = Kept
    /\ UNCHANGED <<pc, attempt, streak, sinceClose, decodeErrors, messages, clocks>>
    /\ Reading

\* A refusal is not retryable, a connection lost while waiting is.
AckWaitFails ==
    /\ pc = "ack" /\ wire.kind \in {"error", "close", "break"}
    /\ Retry(Retryable(wire)) /\ UNCHANGED troubles

\* A bug: the ack is awaited without a deadline.
AckNeverTimesOut == FALSE /\ pc' = pc

AckTimesOut == pc = "ack" /\ wait = 0 /\ Retry(TRUE) /\ UNCHANGED troubles

\* yield: the frame goes to the pipeline and counts against the limit.
Yield(frame) ==
    /\ hand' = frame /\ pc' = "raw"
    /\ messages' = messages + 1
    /\ wait' = Off /\ silent' = 0 /\ UNCHANGED <<ping, sinceFree>>

YieldBuffered ==
    /\ pc = "pending" /\ Yield(Head(buffered)) /\ buffered' = Tail(buffered)
    /\ UNCHANGED <<lane, venueVars, conn, attempt, streak, sinceClose, decodeErrors, left,
                   sinks, ending, worker>>

RecvData ==
    /\ pc = "recv" /\ wire.kind = "data"
    /\ Yield(wire) /\ wire' = None /\ decodeErrors' = 0
    /\ UNCHANGED <<lane, sent, frames, troubles, conn, buffered, attempt, streak,
                   sinceClose, left, sinks, ending, worker>>

\* A frame that _should_emit drops.
RecvControl ==
    /\ pc = "recv" /\ wire.kind = "control"
    /\ wire' = None /\ decodeErrors' = 0 /\ Receive
    /\ UNCHANGED <<buffered, attempt, streak, sinceClose, messages, ping, silent, sinceFree>>
    /\ Reading

\* A bug: a feed nobody can decode counts as alive.
OnlyGarbageNever == FALSE
OnlyGarbage == decodeErrors + 1 >= MaxDecodeErrors

RecvGarbage ==
    /\ pc = "recv" /\ wire.kind = "garbled"
    /\ decodeErrors' = decodeErrors + 1 /\ wire' = None
    /\ IF OnlyGarbage
       THEN /\ pc' = "metrics" /\ wait' = Off /\ ping' = Off
       ELSE Receive /\ UNCHANGED ping
    /\ UNCHANGED <<buffered, attempt, streak, sinceClose, messages, silent, sinceFree>>
    /\ Reading

\* A bug: last_clean_close_at is set only where there is a storm.
SinceCloseFirst == IF sinceClose < StormWindow THEN 0 ELSE sinceClose
SinceCloseNow == 0

\* The server closed cleanly: reconnect, at once unless the last clean close
\* is less than the storm window ago.
CleanClose ==
    /\ pc = "recv" /\ wire.kind = "close"
    /\ wire' = None /\ sent' = 0
    /\ ping' = Off /\ UNCHANGED silent
    /\ IF sinceClose < StormWindow
       THEN /\ streak' = streak + 1 /\ pc' = "sleep" /\ wait' = Backoff(streak + 1)
            /\ UNCHANGED sinceFree
       ELSE streak' = 0 /\ pc' = "connect" /\ wait' = Off /\ sinceFree' = 0
    /\ sinceClose' = SinceCloseNow
    /\ UNCHANGED <<lane, frames, troubles, conn, buffered, attempt, decodeErrors, messages,
                   hand, left, sinks, ending, worker>>

ConnectionBreaks ==
    /\ pc = "recv" /\ wire.kind = "break"
    /\ Retry(TRUE) /\ UNCHANGED troubles

\* The data-arrival watchdog ends the segment.
IdleTimesOut == pc = "recv" /\ wait = 0 /\ StreamEnds(FALSE) /\ UNCHANGED hand

Wake ==
    /\ pc = "sleep" /\ wait = 0
    /\ pc' = "connect" /\ NoTimer
    /\ UNCHANGED <<lane, venueVars, conn, streamVars, ping, hand, left, sinks, ending, worker>>

(***************************************************************************)
(* The pipeline.  A file operation may raise, within MaxTroubles.          *)
(***************************************************************************)

\* One flushed row more; the fsync comes with the batch.  (The time bound on a
\* batch, looked at on a write, only syncs earlier and is left out.)
Write(s) ==
    LET written == Len(rows[s]) + 1
    IN /\ rows' = [rows EXCEPT ![s] = Append(@, Row(hand))]
       /\ synced' = [synced EXCEPT ![s] = IF written - @ >= Batch THEN written ELSE @]

Writing == UNCHANGED <<lane, wire, sent, frames, conn, streamVars, wait, ping, silent, sinceFree, left,
                       cleanupError, metrics, scored, segments>>

\* An exception leaves the loop for the finally clause.
WriteRaises == Trouble /\ raised' = TRUE /\ pc' = "metrics"

\* RotatingJsonlSink.write: a full part is closed (which syncs it) and renamed.
Rolls == Len(rows["raw"]) - part >= PartRows

WriteRaw ==
    /\ pc = "raw" /\ ~Rolls
    /\ Write("raw")
    /\ pc' = "judge" /\ UNCHANGED troubles
    /\ UNCHANGED <<hand, part, raised>> /\ Writing

\* A bug: the rolled part is not synced.
RotateUnsynced ==
    /\ pc = "raw" /\ Rolls
    /\ part' = Len(rows["raw"])
    /\ UNCHANGED <<pc, hand, rows, raised, synced, troubles>> /\ Writing

Rotate ==
    /\ pc = "raw" /\ Rolls
    /\ synced' = [synced EXCEPT !["raw"] = Len(rows["raw"])]
    /\ part' = Len(rows["raw"])
    /\ UNCHANGED troubles
    /\ UNCHANGED <<pc, hand, rows, raised>> /\ Writing

\* Before the row is in the file, or after it and before it is synced.
RawRaises ==
    /\ pc = "raw" /\ WriteRaises
    /\ rows' \in {rows, [rows EXCEPT !["raw"] = Append(@, Row(hand))]}
    /\ Rolls => rows' = rows
    /\ UNCHANGED <<hand, synced, part>> /\ Writing

\* The frame's event goes to the file of the gate's verdict.
Judge ==
    /\ pc = "judge"
    /\ \E s \in {"clean", "quarantine"} : Write(s)
    /\ pc' = "after" /\ UNCHANGED troubles
    /\ UNCHANGED <<hand, part, raised>> /\ Writing

JudgeRaises ==
    /\ pc = "judge" /\ WriteRaises
    /\ rows' \in {rows} \cup {[rows EXCEPT ![s] = Append(@, Row(hand))] : s \in {"clean", "quarantine"}}
    /\ UNCHANGED <<hand, synced, part>> /\ Writing

\* The deadline is looked at after a frame, and only then.
DeadlineReached ==
    /\ pc = "after" /\ left = 0
    /\ StreamEnds(FALSE) /\ hand' = None

\* The row of partial metrics may fail like any other.
PartialMetricsRaises ==
    /\ pc = "after" /\ left # 0 /\ WriteRaises
    /\ UNCHANGED <<hand, sinks>> /\ Writing

NextFrame ==
    /\ pc = "after" /\ left # 0 /\ messages < Count
    /\ hand' = None
    /\ IF buffered # <<>> THEN pc' = "pending" /\ UNCHANGED wait ELSE Receive
    /\ UNCHANGED <<lane, venueVars, conn, streamVars, ping, silent, sinceFree, left, sinks,
                   ending, worker>>

LimitReached ==
    /\ pc = "after" /\ left # 0 /\ messages = Count
    /\ StreamEnds(FALSE) /\ hand' = None

(***************************************************************************)
(* Shutdown: every step is tried, whatever became of the one before it.    *)
(***************************************************************************)

Closing == UNCHANGED <<lane, wire, sent, frames, conn, streamVars, clocks, hand, left, rows, part,
                       raised, scored, segments>>

WriteMetrics ==
    /\ pc = "metrics" /\ pc' = "close raw"
    /\ \/ metrics' = TRUE /\ UNCHANGED troubles /\ UNCHANGED cleanupError
       \/ Trouble /\ cleanupError' = TRUE /\ UNCHANGED metrics
    /\ UNCHANGED synced /\ Closing

\* close() flushes and fsyncs.
CloseSink(s, then) ==
    /\ pc' = then
    /\ \/ synced' = [synced EXCEPT ![s] = Len(rows[s])] /\ UNCHANGED troubles /\ UNCHANGED cleanupError
       \/ Trouble /\ cleanupError' = TRUE /\ UNCHANGED synced
    /\ UNCHANGED metrics /\ Closing

CloseRaw == pc = "close raw" /\ CloseSink("raw", "close clean")
CloseClean == pc = "close clean" /\ CloseSink("clean", "close quarantine")
CloseQuarantine == pc = "close quarantine" /\ CloseSink("quarantine", "closed")

(***************************************************************************)
(* The worker.                                                             *)
(***************************************************************************)

\* A bug: a failed shutdown step is logged and forgotten.
WellEndedLoosely == ~raised
WellEnded == ~raised /\ ~cleanupError

\* run() returned: the segment writes its replay summary.
Score ==
    /\ pc = "closed" /\ WellEnded
    /\ pc' = "scored" /\ scored' = TRUE
    /\ UNCHANGED <<lane, venueVars, conn, streamVars, clocks, hand, left, sinks, ending,
                   segments>>

\* run() raised, its own error or the first of the shutdown: segment_error,
\* and the worker raises.
SegmentError ==
    /\ pc = "closed" /\ ~WellEnded
    /\ pc' = "error"
    /\ UNCHANGED <<lane, venueVars, conn, streamVars, clocks, hand, left, sinks, ending, worker>>

\* What the process knew of a segment is gone with its collector and pipeline.
Forgotten ==
    /\ wire' = None /\ sent' = 0 /\ buffered' = <<>> /\ attempt' = 0 /\ streak' = 0
    /\ sinceClose' = StormWindow /\ decodeErrors' = 0 /\ messages' = 0
    /\ wait' = Off /\ ping' = Off /\ silent' = 0 /\ sinceFree' = StormWindow
    /\ hand' = None /\ raised' = FALSE /\ cleanupError' = FALSE

\* segment_complete, and the next segment: a run directory, a collector and a
\* pipeline of its own.
NextSegment ==
    /\ pc = "scored" /\ segments + 1 < MaxSegments
    /\ segments' = segments + 1
    /\ pc' = "connect" /\ Forgotten /\ conn' = 0
    /\ left' = SegmentDeadline
    /\ rows' = [s \in Sinks |-> <<>>] /\ synced' = [s \in Sinks |-> 0] /\ part' = 0
    /\ metrics' = FALSE /\ scored' = FALSE
    /\ UNCHANGED <<lane, frames, troubles>>

Finished ==
    /\ pc = "scored" /\ segments + 1 = MaxSegments
    /\ pc' = "finished" /\ segments' = segments + 1
    /\ UNCHANGED <<lane, venueVars, conn, streamVars, clocks, hand, left, sinks, ending,
                   scored>>

Stopped == pc \in {"error", "finished", "dead"}

(***************************************************************************)
(* A crash.  A killed process leaves the                                   *)
(* rows it flushed, which is all of them; a power loss leaves of each file *)
(* at least what was synced.                                               *)
(***************************************************************************)

Crash ==
    /\ ~Stopped /\ Crashes
    /\ pc' = "dead" /\ Forgotten
    /\ \E kept \in [Sinks -> 0..Count] :
        /\ \A s \in Sinks : synced[s] <= kept[s] /\ kept[s] <= Len(rows[s])
        /\ rows' = [s \in Sinks |-> SubSeq(rows[s], 1, kept[s])]
    /\ frames' = MaxFrames /\ troubles' = MaxTroubles
    /\ left' = Off
    /\ conn' = 0 /\ UNCHANGED <<lane, synced, part, metrics, scored, segments>>

Tick ==
    /\ pc \in {"ack", "recv", "sleep"} /\ wait # 0 /\ ping # 0
    /\ pc # "sleep" => wire = None
    /\ wait' = Down(wait) /\ ping' = Down(ping)
    /\ silent' = IF pc = "recv" /\ lane.idle # Off THEN Up(silent, MostSilent) ELSE 0
    /\ sinceClose' = Up(sinceClose, StormWindow) /\ sinceFree' = Up(sinceFree, StormWindow)
    /\ left' = IF left \in {0, Off} THEN left ELSE left - 1
    /\ UNCHANGED <<lane, pc, venueVars, conn, buffered, attempt, streak, decodeErrors, messages,
                   hand, sinks, ending, worker>>

(***************************************************************************)
(* The specification.                                                      *)
(***************************************************************************)

Init ==
    /\ lane \in Lanes
    /\ pc = "connect" /\ conn = 0
    /\ wire = None /\ sent = 0 /\ frames = 0 /\ troubles = 0
    /\ buffered = <<>> /\ attempt = 0 /\ streak = 0 /\ sinceClose = StormWindow
    /\ decodeErrors = 0 /\ messages = 0
    /\ wait = Off /\ ping = Off /\ silent = 0 /\ sinceFree = StormWindow
    /\ hand = None /\ left = SegmentDeadline
    /\ rows = [s \in Sinks |-> <<>>] /\ synced = [s \in Sinks |-> 0] /\ part = 0
    /\ raised = FALSE /\ cleanupError = FALSE /\ metrics = FALSE
    /\ scored = FALSE /\ segments = 0

Venue == VenueSends \/ VenueSendsGarbage \/ VenueAnswers \/ VenueCloses

Collector ==
    \/ Connect \/ ConnectFails \/ AckArrives \/ AckWaitReads \/ AckWaitFails \/ AckTimesOut
    \/ YieldBuffered \/ RecvData \/ RecvControl \/ RecvGarbage \/ CleanClose
    \/ ConnectionBreaks \/ IdleTimesOut \/ Wake

Pipeline ==
    \/ WriteRaw \/ Rotate \/ RawRaises \/ Judge \/ JudgeRaises \/ DeadlineReached
    \/ PartialMetricsRaises \/ NextFrame \/ LimitReached
    \/ WriteMetrics \/ CloseRaw \/ CloseClean \/ CloseQuarantine

Worker == Score \/ SegmentError \/ NextSegment \/ Finished

Process == Collector \/ Pipeline \/ Worker \/ KeepAlive \/ Tick

Rest == Stopped /\ UNCHANGED vars

Next == Venue \/ Process \/ Crash \/ Rest

\* The process runs and time passes; the venue owes nothing.
Spec == Init /\ [][Next]_vars /\ WF_vars(Process)

(***************************************************************************)
(* What holds.                                                             *)
(***************************************************************************)

Stages == {"connect", "ack", "pending", "recv", "sleep", "raw", "judge", "after", "metrics",
           "close raw", "close clean", "close quarantine", "closed", "scored", "error",
           "finished", "dead"}
Frames == [kind : {"none", "data", "garbled", "control", "ack", "error", "close", "break"}, n : Nat]
Rows == [n : Nat, conn : Nat]

\* Left out: the flags, and the timers wait and silent, of which the back-off is a
\* power of two, which the provers cannot type.
TypeOK ==
    /\ lane \in Lanes
    /\ pc \in Stages
    /\ wire \in Frames /\ hand \in Frames /\ buffered \in Seq(Frames)
    /\ pc = "pending" => buffered # <<>>
    /\ sent \in Nat /\ frames \in Nat /\ troubles \in Nat /\ conn \in Nat
    /\ attempt \in Nat /\ streak \in Nat /\ decodeErrors \in Nat /\ messages \in Nat
    /\ sinceClose \in Nat /\ sinceFree \in Nat
    /\ ping \in {Off} \cup Nat /\ left \in {Off} \cup Nat
    /\ rows \in [Sinks -> Seq(Rows)] /\ synced \in [Sinks -> Nat] /\ part \in Nat
    /\ segments \in Nat

\* The raw file holds, of every connection, the data frames the venue sent on
\* it from the first one on, in order and without a hole: those that came
\* before the subscription's ack, those after an undecodable frame, those on
\* either side of a rotation.
RecordsWhatArrived ==
    LET raw == rows["raw"]
    IN \A i \in DOMAIN raw :
        IF i > 1 /\ raw[i].conn = raw[i - 1].conn
        THEN raw[i].n = raw[i - 1].n + 1
        ELSE raw[i].n = 1 /\ (i > 1 => raw[i].conn > raw[i - 1].conn)

\* A feed without control frames that falls silent ends its segment: undecodable
\* frames put the end off, and the limit on their run bounds by how much.
SilenceEndsSegment ==
    pc = "recv" /\ lane.idle # Off /\ ~lane.control => silent <= lane.idle * MaxDecodeErrors

\* Two reconnects without delay are a storm window apart, however the venue
\* mixes quick closes with slow ones and with broken connections.
StormsAreDamped ==
    [][pc = "recv" /\ pc' = "connect" => sinceFree >= StormWindow]_vars

\* What a power loss may take: of each file at most one batch off its end, of the
\* raw traffic nothing that was rolled, and nothing at all of a segment that got its
\* replay summary, which has its metrics row too: a failure anywhere, the shutdown
\* included, leaves the run unscored.
LossIsBounded ==
    /\ \A s \in Sinks : Len(rows[s]) - synced[s] <= Batch
    /\ part <= synced["raw"]
    /\ scored => metrics /\ \A s \in Sinks : synced[s] = Len(rows[s])

\* A watched feed does not hold its segment: once connected, the segment is
\* scored, or fails, whatever the venue withholds.
WatchedSegmentsEnd ==
    Connected /\ lane.idle # Off /\ ~lane.control ~> scored \/ Stopped
=============================================================================
