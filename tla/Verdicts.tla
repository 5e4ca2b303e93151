------------------------------ MODULE Verdicts ------------------------------
(***************************************************************************)
(* The replay scorers of the tape (replay.py): what a run's clean rows     *)
(* must be for the run to be replayable.  A scorer reads the rows in the   *)
(* order of the file, carrying what it remembers of those before, and      *)
(* collects findings; a run is replayable if none of them gates.           *)
(*                                                                         *)
(* A row is [seq, at, recv, good, channel]: the dense trade id (or NoId),  *)
(* the exchange's clock and the collector's, whether price and size are    *)
(* finite and positive, and the channel it belongs to.                     *)
(***************************************************************************)
EXTENDS Integers, Sequences

CONSTANTS
    MaxClockSkew,   \* max_clock_skew_ms, in ticks
    StepTolerance   \* RECEIVED_AT_STEP_TOLERANCE_MS

ASSUME VerdictsAssumption == MaxClockSkew \in Nat /\ StepTolerance \in Nat

NoId == 0

Found(finding, when) == IF when THEN {finding} ELSE {}

\* _abs_skew_ms
Skew(row) == IF row.recv >= row.at THEN row.recv - row.at ELSE row.at - row.recv

Skewed(row) == Found("excessive_clock_skew", Skew(row) > MaxClockSkew)
Odd(row) == Found("invalid_price_or_size", ~row.good)

\* A bug: one missing id in a row goes unnoticed.
GapOfTwo(prev, seq) == prev # NoId /\ seq > prev + 2
Gap(prev, seq) == prev # NoId /\ seq > prev + 1

\* replay_trades_run: dense ids.  Equal ids are counted and tolerated, and the
\* last id read is the one the next is compared with, whatever it was.
TradesRow(s, row) ==
    [prev |-> IF row.seq = NoId THEN s.prev ELSE row.seq,
     findings |-> s.findings \cup Odd(row) \cup Skewed(row)
        \cup Found("missing_trade_ids", row.seq = NoId)
        \cup Found("non_monotonic_trade_ids", row.seq # NoId /\ row.seq < s.prev)
        \cup Found("trade_id_gaps", row.seq # NoId /\ Gap(s.prev, row.seq))]

\* The latest time so far, in a set that is empty before the first row.
\* A bug: a row is compared with the one before it, not with the latest so far.
LastRead(prev, time) == {time}
Latest(prev, time) == IF \E p \in prev : time < p THEN prev ELSE {time}

\* replay_trades_stream_run: the exchange's clock is all there is to order by.
StreamRow(s, row) ==
    [prev |-> Latest(s.prev, row.at),
     findings |-> s.findings \cup Odd(row) \cup Skewed(row)
        \cup Found("non_monotonic_event_time", \E p \in s.prev : row.at < p)]

\* replay_liquidations_run: only the collector's clock gates, and only where it
\* runs backward by more than the tolerance.  Late and reordered delivery is
\* recorded (informational) and gates nothing.
LiquidationsRow(s, row) ==
    [prev |-> Latest(s.prev, row.recv),
     findings |-> s.findings \cup Odd(row)
        \cup Found("wrong_channel", row.channel # "liquidations")
        \cup Found("non_monotonic_received_at",
                   \E p \in s.prev : row.recv < p - StepTolerance)]

\* A scorer: what it starts from, what it makes of a row, and of a file.
Start(scorer) == [prev |-> IF scorer = "trades" THEN NoId ELSE {}, findings |-> {}]
Reads(scorer, s, row) ==
    CASE scorer = "trades" -> TradesRow(s, row)
      [] scorer = "stream" -> StreamRow(s, row)
      [] OTHER -> LiquidationsRow(s, row)

Score(scorer, rows) ==
    LET read[i \in 0..Len(rows)] ==
            IF i = 0 THEN Start(scorer) ELSE Reads(scorer, read[i - 1], rows[i])
    IN read[Len(rows)]

Findings(scorer, rows) ==
    Score(scorer, rows).findings \cup Found("no_events", rows = <<>>)
=============================================================================
