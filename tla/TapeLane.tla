------------------------------ MODULE TapeLane ------------------------------
(***************************************************************************)
(* One lane of prints (trades or liquidations), from the venue's tape to   *)
(* the verdicts of its runs.  The venue prints and sends; on a subscribe   *)
(* some venues send their last prints once more; the normalizer tags       *)
(* those, the quality gate says which rows are clean, and the lane's       *)
(* scorer which runs are replayable.  A run is a segment: it has a gate    *)
(* and files of its own, and lives through several connections.            *)
(*                                                                         *)
(* The verdict is an operator on the clean rows, so the properties speak   *)
(* of every prefix a crash may leave, not only of finished runs.           *)
(***************************************************************************)
EXTENDS Verdicts, FiniteSets, TLC

CONSTANTS
    Lanes,          \* the lanes to look at
    Replayed,       \* prints in a subscribe replay (Kraken's and Hyperliquid's)
    MaxDelay,       \* max_delay_ms
    MaxFutureSkew,  \* max_future_skew_ms
    MaxRuns,        \* bound: segments
    MaxPrints,      \* bound: prints on the venue's tape
    MaxInFeed,    \* bound: frames on their way
    MaxTime,        \* bound: ticks
    MaxTroubles     \* bound: connections lost, frames garbled, odd prints,
                    \* steps of the collector's clock

ASSUME TapeLaneAssumption ==
    /\ {Replayed, MaxDelay, MaxFutureSkew, MaxPrints, MaxTime, MaxTroubles} \subseteq Nat
    /\ {MaxRuns, MaxInFeed} \subseteq Nat \ {0}

(***************************************************************************)
(* The lanes: what the normalizer makes of a frame, and the scorer.        *)
(*   dense     the trade id is a counter and becomes the row's sequence    *)
(*   replay    prints the venue sends again on a subscribe                 *)
(*   tag       who says so: the "frame", or its place on the connection    *)
(*   wantsId   a print without an id is a parse error                      *)
(*   conflates the venue need not send every print                         *)
(*   late      it publishes a print long after its time, in any order      *)
(***************************************************************************)

Tape == [channel |-> "trades", dense |-> TRUE, replay |-> 0, tag |-> "frame",
         wantsId |-> FALSE, conflates |-> FALSE, late |-> FALSE, scorer |-> "trades"]
TradeStream == [Tape EXCEPT !.dense = FALSE, !.scorer = "stream"]
Liquidations == [TradeStream EXCEPT !.channel = "liquidations", !.scorer = "liquidations"]

BinanceTrades == Tape
CoinbaseTrades == [Tape EXCEPT !.replay = 1]
KrakenTrades == [Tape EXCEPT !.replay = Replayed]
BybitTrades == TradeStream
MexcTrades == TradeStream
OkxTrades == [TradeStream EXCEPT !.conflates = TRUE]
HyperliquidTrades == [TradeStream EXCEPT !.replay = Replayed, !.tag = "place", !.wantsId = TRUE]
BybitLiquidations == Liquidations
BinanceLiquidations == Liquidations
OkxLiquidations == [Liquidations EXCEPT !.late = TRUE]

AllLanes == {BinanceTrades, CoinbaseTrades, KrakenTrades, BybitTrades, MexcTrades, OkxTrades,
             HyperliquidTrades, BybitLiquidations, BinanceLiquidations, OkxLiquidations}

\* By the defaults of every lane the gate lets through what its scorer tolerates, and stops
\* what comes ahead of its time by more than that.
ASSUME LanesAssumption ==
    /\ Lanes \subseteq AllLanes
    /\ MaxFutureSkew <= MaxClockSkew /\ MaxClockSkew <= MaxDelay

VARIABLES
    lane,        \* fixed in TapeInit
    now, host,   \* the venue's clock, and what the collector's is ahead of it
    tape,        \* the venue's prints: [at, odd], a print's id is its place
    up,          \* whether the lane is subscribed
    feed,        \* frames on their way: [replay, ids]
    fresh,       \* no data frame has been read on this connection
    cursor,      \* QualityGate._last_sequence_by_stream
    clean,       \* the run's clean rows
    run,         \* segments ended
    cleaned,     \* history: how often a print became clean in an earlier run
    blamed,      \* history: what has happened that the run may fail for
    troubles     \* how much of the bound is used

runState == <<cursor, clean, run, cleaned, blamed>>
tvars == <<lane, now, host, tape, up, feed, fresh, runState, troubles>>

Trouble == troubles < MaxTroubles /\ troubles' = troubles + 1
NoTrouble == UNCHANGED troubles

Ids == 1..MaxPrints
\* The last n prints, in order.
MostRecent(n) ==
    LET m == IF n < Len(tape) THEN n ELSE Len(tape)
    IN [i \in 1..m |-> Len(tape) - m + i]

(***************************************************************************)
(* The venue.                                                              *)
(***************************************************************************)

Oddities == {"none", "value", "id"}

\* A print: in order and at once, unless the venue publishes late; sent, unless
\* it conflates.  An odd one lacks its price or size, or its id.
VenuePrints ==
    /\ Len(tape) < MaxPrints /\ Len(feed) < MaxInFeed
    /\ \E odd \in Oddities, at \in IF lane.late THEN 0..now ELSE {now} :
        /\ IF odd = "none" THEN NoTrouble ELSE Trouble
        /\ tape' = Append(tape, [at |-> at, odd |-> odd])
    /\ \E sent \in IF lane.conflates THEN BOOLEAN ELSE {TRUE} :
        feed' = IF up /\ sent
                THEN Append(feed, [replay |-> FALSE, ids |-> <<Len(tape) + 1>>])
                ELSE feed
    /\ UNCHANGED <<lane, now, host, up, fresh, runState>>

\* Subscribing: the venue sends the last prints again.  What the lane missed
\* and the replay does not cover is a hole in the run.
Subscribe ==
    /\ ~up /\ run < MaxRuns
    /\ up' = TRUE /\ fresh' = TRUE
    /\ feed' = IF lane.replay > 0 /\ tape # <<>>
               THEN <<[replay |-> TRUE, ids |-> MostRecent(lane.replay)]>>
               ELSE <<>>
    /\ blamed' = blamed \cup Found("hole", clean # <<>> /\ lane.dense
                                            /\ clean[Len(clean)].id < Len(tape) - lane.replay)
    /\ UNCHANGED <<lane, now, host, tape, cursor, clean, run, cleaned, troubles>>

ConnectionDrops ==
    /\ up /\ Trouble
    /\ up' = FALSE /\ feed' = <<>> /\ fresh' = TRUE
    /\ UNCHANGED <<lane, now, host, tape, runState>>

(***************************************************************************)
(* The normalizer and the gate.                                            *)
(***************************************************************************)

\* subscribe_replay: the frame says so, or the collector that marked the first
\* data frame of the connection.
Tagged(frame) == IF lane.tag = "place" THEN lane.replay > 0 /\ fresh ELSE frame.replay

PrintRow(id) ==
    [id |-> id, at |-> tape[id].at, recv |-> now + host,
     seq |-> IF lane.dense /\ tape[id].odd # "id" THEN id ELSE NoId,
     good |-> tape[id].odd # "value", channel |-> lane.channel]

\* Bugs: every replay is refused; a print at the cursor is news.
NewsNever(row) == FALSE
NewsTwice(row) == row.seq # NoId /\ cursor # NoId /\ row.seq >= cursor

\* Whether a tagged print is news is told by the run's cursor alone.
News(row) == row.seq # NoId /\ cursor # NoId /\ row.seq > cursor

\* A channel other than trades refuses a price that is there and not positive,
\* and says nothing of one that is missing.
OddValue(row) == lane.channel = "trades" /\ ~row.good

ParseError(row) == lane.wantsId /\ tape[row.id].odd = "id"

Stale(row) == row.recv - row.at > MaxDelay \/ row.at - row.recv > MaxFutureSkew

\* QualityGate.validate.  The cursor moves on for a row that is refused for
\* another reason, too.
Reasons(row, tagged) ==
    Found("parse_error", ParseError(row))
    \cup Found("invalid_trade", OddValue(row))
    \cup Found("stale_or_clock_skew", Stale(row))
    \cup Found("subscribe_replay", tagged /\ ~News(row))
    \cup Found("non_monotonic_sequence",
               ~tagged /\ row.seq # NoId /\ row.seq < cursor)

Moved(row, tagged) ==
    IF row.seq > cursor /\ (tagged => News(row)) THEN row.seq ELSE cursor

\* A run may fail for a print that is odd, or comes late or ahead of its time;
\* not for one that is only sent again.
Blames(row, tagged) ==
    IF tagged /\ (cursor = NoId \/ row.id <= cursor) THEN {}
    ELSE Found(tape[row.id].odd, tape[row.id].odd # "none")
         \cup Found("late", row.recv - row.at > MaxClockSkew /\ lane.scorer # "liquidations")
         \cup Found("clocks", row.at - row.recv > MaxFutureSkew)

\* The pipeline takes a frame's prints one after the other.
Receive ==
    /\ feed # <<>> /\ up
    /\ LET frame == Head(feed)
           row == PrintRow(Head(frame.ids))
           tagged == Tagged(frame)
           rest == Tail(frame.ids)
       IN /\ clean' = IF Reasons(row, tagged) = {} THEN Append(clean, row) ELSE clean
          /\ cursor' = Moved(row, tagged)
          /\ blamed' = blamed \cup Blames(row, tagged)
          /\ feed' = (IF rest = <<>> THEN <<>> ELSE <<[frame EXCEPT !.ids = rest]>>) \o Tail(feed)
          /\ fresh' = (fresh /\ rest # <<>>)
    /\ UNCHANGED <<lane, now, host, tape, up, run, cleaned, troubles>>

\* A frame that does not decode is skipped.
FrameGarbled ==
    /\ feed # <<>> /\ up /\ Trouble
    /\ feed' = Tail(feed)
    /\ blamed' = blamed \cup Found("hole", lane.dense)
    /\ UNCHANGED <<lane, now, host, tape, up, fresh, cursor, clean, run, cleaned>>

(***************************************************************************)
(* The verdict, and the next segment.                                      *)
(***************************************************************************)

TapeReplayable(rows) == Findings(lane.scorer, rows) = {}

Times(id) == Cardinality({i \in DOMAIN clean : clean[i].id = id})

\* The segment is over: its socket is closed and it is scored.  The next one
\* has a gate of its own.
EndSegment ==
    /\ run < MaxRuns
    /\ run' = run + 1 /\ up' = FALSE /\ feed' = <<>>
    /\ cleaned' = [id \in Ids |-> cleaned[id] + Times(id)]
    /\ cursor' = NoId /\ clean' = <<>> /\ blamed' = {} /\ fresh' = TRUE
    /\ UNCHANGED <<lane, now, host, tape, troubles>>

Tick ==
    /\ now < MaxTime /\ now' = now + 1
    /\ UNCHANGED <<lane, host, tape, up, feed, fresh, runState, troubles>>

\* The collector's wall clock is set: by little, or by more than any tolerance.
ClockStep ==
    /\ Trouble
    /\ host' \in {host - 1 - StepTolerance, host - 1, host + 1}
    /\ blamed' = blamed \cup
        Found("clocks", \E i \in DOMAIN clean : now + host' < clean[i].recv - StepTolerance)
    /\ UNCHANGED <<lane, now, tape, up, feed, fresh, cursor, clean, run, cleaned>>

TapeInit ==
    /\ lane \in Lanes
    /\ now = 0 /\ host = 0 /\ tape = <<>> /\ up = FALSE /\ feed = <<>> /\ fresh = TRUE
    /\ cursor = NoId /\ clean = <<>> /\ run = 0
    /\ cleaned = [id \in Ids |-> 0] /\ blamed = {} /\ troubles = 0

TapeNext ==
    \/ VenuePrints \/ Subscribe \/ ConnectionDrops \/ Receive \/ FrameGarbled
    \/ EndSegment \/ Tick \/ ClockStep

TapeSpec == TapeInit /\ [][TapeNext]_tvars

(***************************************************************************)
(* What holds.                                                             *)
(***************************************************************************)

TapeTypeOK ==
    /\ lane \in Lanes
    /\ now \in 0..MaxTime /\ host \in Int
    /\ tape \in Seq([at : 0..MaxTime, odd : Oddities]) /\ Len(tape) <= MaxPrints
    /\ <<up, fresh>> \in BOOLEAN \X BOOLEAN
    /\ blamed \subseteq {"hole", "value", "id", "late", "clocks"}
    /\ \A i \in DOMAIN feed :
        feed[i].replay \in BOOLEAN /\ feed[i].ids \in Seq(Ids) \ {<<>>}
    /\ cursor \in {NoId} \cup Ids
    /\ \A i \in DOMAIN clean : clean[i].id \in Ids /\ clean[i].seq \in {NoId, clean[i].id}
    /\ run \in 0..MaxRuns /\ cleaned \in [Ids -> Nat] /\ troubles \in 0..MaxTroubles

\* What the verdict of a dense lane stands for: the run is the venue's tape, every
\* print between its first and its last, in order, none of them odd.  Reconnects,
\* replays, refused rows and garbled frames leave no hole the scorer does not see.
\* (It tolerates a print that comes twice; NoPrintTwice says there is none.)
TapeIsComplete ==
    \A i \in DOMAIN clean :
        /\ tape[clean[i].id].odd = "none"
        /\ i > 1 => clean[i].id - clean[i - 1].id \in {0, 1}

\* What the verdict of liquidations stands for: no row was received longer than the
\* tolerance before any row above it, so small steps of the clock do not add up,
\* and every row is inside the gate's window.
ReceiptOrderHolds ==
    \A i, j \in DOMAIN clean :
        /\ i < j => clean[j].recv >= clean[i].recv - StepTolerance
        /\ clean[i].recv - clean[i].at \in (-MaxFutureSkew)..MaxDelay

\* A replayable run, finished or cut off anywhere, is what its verdict stands for.
VerdictStands ==
    TapeReplayable(clean) =>
        /\ lane.dense => TapeIsComplete
        /\ lane.scorer = "liquidations" => ReceiptOrderHolds

\* Promotion takes runs whole and never compares their rows, so no print may be
\* clean twice, in one run or in two, however often the venue sends it again.
NoPrintTwice == \A id \in Ids : cleaned[id] + Times(id) <= 1

\* A run that lost nothing is replayable: the venue's replay heals a reconnect
\* it covers, a liquidation may be published late and in any order, and the
\* collector's clock may be corrected by the tolerance.  (With the types of the
\* state.)
NoTapeFalseAlarm == TapeTypeOK /\ (clean # <<>> /\ blamed = {} => TapeReplayable(clean))
=============================================================================
