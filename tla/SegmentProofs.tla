---------------------------- MODULE SegmentProofs ----------------------------
(* Proofs about a WebSocket lane (collectors/generic_ws.py, pipeline.py,     *)
(* storage.py and the segmented worker), for any venue, any limits and any   *)
(* number of troubles and segments: what a power loss may take, that the raw *)
(* file records what arrived, and that silence ends a segment.               *)
EXTENDS Segment, SequenceTheorems, TLAPS

USE DEF venueVars, socketState, streamVars, clocks, sinks, ending, worker

\* In the receive loop, or in the body of the pipeline's.
Streaming == {"connect", "ack", "pending", "recv", "sleep", "raw", "judge", "after"}
-----------------------------------------------------------------------------
LEMMA FrameTypes ==
    /\ None \in Frames
    /\ \A n \in Nat : Data(n) \in Frames
    /\ \A k \in {"none", "data", "garbled", "control", "ack", "error", "close", "break"} : Frame(k) \in Frames
    /\ <<>> \in Seq(Frames) /\ <<>> \in Seq(Rows)
BY DEF None, Frame, Data, Frames

LEMMA NextNumber == \A n \in Nat : n + 1 \in Nat
OBVIOUS

\* A countdown that has not run out goes on.
LEMMA CountsDown ==
    ASSUME NEW c \in {Off} \cup Nat
    PROVE  /\ c # 0 => Down(c) \in {Off} \cup Nat
           /\ c \notin {0, Off} => c - 1 \in Nat
BY DEF Down, Off

\* A file takes a row more, or loses its end.
LEMMA RowsGrow ==
    ASSUME NEW q \in Seq(Rows), NEW r \in Rows
    PROVE  /\ Len(q) \in Nat
           /\ Append(q, r) \in Seq(Rows)
           /\ Len(Append(q, r)) = Len(q) + 1
           /\ \A i \in 1..Len(q) : Append(q, r)[i] = q[i]
           /\ Append(q, r)[Len(q) + 1] = r
BY AppendProperties

LEMMA RowsCut ==
    ASSUME NEW q \in Seq(Rows), NEW n \in Nat, n <= Len(q)
    PROVE  /\ SubSeq(q, 1, n) \in Seq(Rows)
           /\ Len(SubSeq(q, 1, n)) = n
           /\ \A i \in 1..n : SubSeq(q, 1, n)[i] = q[i]
<1>1. \A i \in 1..n : q[i] \in Rows OBVIOUS
<1> QED BY <1>1, SubSeqProperties

LEMMA InitTyped == Init => TypeOK
<1> SUFFICES ASSUME Init PROVE TypeOK
  OBVIOUS
<1>1. lane \in LaneConfig BY SegmentAssumption DEF Init
<1>2. left \in {Off} \cup Nat BY <1>1 DEF Init, SegmentDeadline, LaneConfig, Timeouts
<1>3. wire \in Frames /\ hand \in Frames BY FrameTypes DEF Init
<1>4. raised \in BOOLEAN /\ cleanupError \in BOOLEAN /\ metrics \in BOOLEAN /\ scored \in BOOLEAN
  BY Zenon DEF Init
<1>5. rows \in [Sinks -> Seq(Rows)] /\ synced \in [Sinks -> Nat] BY DEF Init
<1>6. StormWindow \in Nat BY SegmentAssumption
<1> QED BY <1>2, <1>3, <1>4, <1>5, <1>6 DEF Init, TypeOK, Stages

\* Every action keeps the types.
LEMMA StepTyped == TypeOK /\ [Next]_vars => TypeOK'
<1> SUFFICES ASSUME TypeOK, [Next]_vars PROVE TypeOK'
  OBVIOUS
<1> USE FrameTypes, NextNumber DEF TypeOK, Stages
<1>l. lane \in LaneConfig /\ PingInterval \in Nat /\ StormWindow \in Nat /\ Count \in Nat
  BY SegmentAssumption
<1>d. SegmentDeadline \in {Off} \cup Nat BY <1>l DEF SegmentDeadline, LaneConfig, Timeouts
<1>r. ASSUME NEW s \in Sinks
      PROVE  /\ Len(rows[s]) \in Nat
             /\ Append(rows[s], Row(hand)) \in Seq(Rows)
  <2>1. Row(hand) \in Rows BY DEF Row, Rows, Frames
  <2>2. rows[s] \in Seq(Rows) OBVIOUS
  <2> QED BY <2>1, <2>2, RowsGrow
<1>1. CASE VenueSends BY <1>1 DEF VenueSends, Arrives, Quiet, Listening
<1>2. CASE VenueSendsGarbage BY <1>2 DEF VenueSendsGarbage, Arrives, Quiet, Trouble
<1>3. CASE VenueAnswers BY <1>3 DEF VenueAnswers, Arrives, Quiet, Trouble
<1>4. CASE VenueCloses BY <1>4 DEF VenueCloses, Arrives, Quiet, Trouble
<1>5. CASE KeepAlive BY <1>5, <1>l DEF KeepAlive, Arrives
<1>6. CASE Connect
  <2>1. ping' \in {Off} \cup Nat BY <1>6, <1>l DEF Connect, Subscribed
  <2>2. buffered' = <<>> /\ pc' \in {"ack", "recv"} BY <1>6 DEF Connect, Subscribed, Receive
  <2>3. attempt' \in Nat /\ streak' = streak /\ sinceFree' = sinceFree
    BY <1>6 DEF Connect, Subscribed
  <2>4. UNCHANGED <<sinceClose, decodeErrors, messages>> BY <1>6 DEF Connect, Subscribed
  <2> QED BY <1>6, <2>1, <2>2, <2>3, <2>4 DEF Connect
<1>7. CASE ConnectFails BY <1>7 DEF ConnectFails, Trouble, Retry
<1>8. CASE AckArrives BY <1>8, <1>l DEF AckArrives, Subscribed, Receive, Reading
<1>9. CASE AckWaitReads BY <1>9 DEF AckWaitReads, Kept, Reading
<1>10. CASE AckWaitFails BY <1>10 DEF AckWaitFails, Retry
<1>11. CASE AckTimesOut BY <1>11 DEF AckTimesOut, Retry
<1>12. CASE YieldBuffered
  <2>1. Head(buffered) \in Frames /\ Tail(buffered) \in Seq(Frames)
    BY <1>12, HeadTailProperties DEF YieldBuffered
  <2> QED BY <1>12, <2>1 DEF YieldBuffered, Yield
<1>13. CASE RecvData BY <1>13 DEF RecvData, Yield
<1>14. CASE RecvControl BY <1>14 DEF RecvControl, Receive, Reading
<1>15. CASE RecvGarbage BY <1>15 DEF RecvGarbage, Receive, Reading
<1>16. CASE CleanClose
  <2>1. streak' \in Nat BY <1>16 DEF CleanClose
  <2>2. sinceFree' \in Nat BY <1>16 DEF CleanClose
  <2>3. pc' \in {"sleep", "connect"} BY <1>16 DEF CleanClose
  <2> QED BY <1>16, <2>1, <2>2, <2>3 DEF CleanClose, SinceCloseNow
<1>17. CASE ConnectionBreaks BY <1>17 DEF ConnectionBreaks, Retry
<1>18. CASE IdleTimesOut BY <1>18 DEF IdleTimesOut, StreamEnds
<1>19. CASE Wake BY <1>19 DEF Wake, NoTimer
<1>20. ASSUME NEW s \in Sinks, Write(s)
       PROVE  rows' \in [Sinks -> Seq(Rows)] /\ synced' \in [Sinks -> Nat]
  <2>1. rows' \in [Sinks -> Seq(Rows)] BY <1>20, <1>r DEF Write
  <2>2. Len(rows[s]) + 1 \in Nat BY <1>r
  <2>3. synced' \in [Sinks -> Nat] BY <1>20, <2>2 DEF Write
  <2> QED BY <2>1, <2>3
<1>21. CASE WriteRaw BY <1>21, <1>20 DEF WriteRaw, Writing, Sinks
<1>22. CASE Rotate BY <1>22 DEF Rotate, Writing, Sinks
<1>23. CASE RawRaises
  <2>1. rows' \in [Sinks -> Seq(Rows)] BY <1>23, <1>r DEF RawRaises, Sinks
  <2> QED BY <1>23, <2>1 DEF RawRaises, Writing, WriteRaises, Trouble
<1>24. CASE Judge BY <1>24, <1>20 DEF Judge, Writing, Sinks
<1>25. CASE JudgeRaises
  <2>1. rows' \in [Sinks -> Seq(Rows)] BY <1>25, <1>r DEF JudgeRaises, Sinks
  <2> QED BY <1>25, <2>1 DEF JudgeRaises, Writing, WriteRaises, Trouble
<1>26. CASE DeadlineReached BY <1>26 DEF DeadlineReached, StreamEnds
<1>27. CASE PartialMetricsRaises BY <1>27 DEF PartialMetricsRaises, Writing, WriteRaises, Trouble
<1>28. CASE NextFrame BY <1>28 DEF NextFrame, Receive
<1>29. CASE LimitReached BY <1>29 DEF LimitReached, StreamEnds
<1>30. CASE WriteMetrics BY <1>30 DEF WriteMetrics, Closing, Trouble
<1>31. CASE CloseRaw \/ CloseClean \/ CloseQuarantine
  <2>1. PICK s \in Sinks, then \in Stages : CloseSink(s, then)
    BY <1>31 DEF CloseRaw, CloseClean, CloseQuarantine, Sinks
  <2>2. synced' \in [Sinks -> Nat] BY <1>r, <2>1 DEF CloseSink
  <2>3. pc' \in Stages /\ pc' # "pending"
    BY <1>31 DEF CloseRaw, CloseClean, CloseQuarantine, CloseSink
  <2> QED BY <2>1, <2>2, <2>3 DEF CloseSink, Closing, Trouble
<1>32. CASE Score BY <1>32 DEF Score
<1>33. CASE SegmentError BY <1>33 DEF SegmentError
<1>34. CASE NextSegment BY <1>34, <1>l, <1>d DEF NextSegment, Forgotten
<1>35. CASE Finished BY <1>35 DEF Finished
<1>36. CASE Crash
  <2>1. PICK kept \in [Sinks -> 0..Count] :
            /\ \A s \in Sinks : kept[s] <= Len(rows[s])
            /\ rows' = [s \in Sinks |-> SubSeq(rows[s], 1, kept[s])]
    BY <1>36 DEF Crash
  <2>2. ASSUME NEW s \in Sinks PROVE SubSeq(rows[s], 1, kept[s]) \in Seq(Rows)
    <3>1. kept[s] \in Nat /\ kept[s] <= Len(rows[s])
      <4> HIDE DEF TypeOK
      <4> QED BY <1>l, <2>1
    <3>2. rows[s] \in Seq(Rows) OBVIOUS
    <3> QED BY <3>1, <3>2, RowsCut
  <2>3. rows' \in [Sinks -> Seq(Rows)] BY <2>1, <2>2
  <2>4. MaxFrames \in Nat /\ MaxTroubles \in Nat BY SegmentAssumption
  <2> QED BY <1>36, <1>l, <2>3, <2>4 DEF Crash, Forgotten
<1>37. CASE Tick
  <2>1. ping' \in {Off} \cup Nat BY <1>37, CountsDown DEF Tick
  <2>2. left' \in {Off} \cup Nat BY <1>37, CountsDown DEF Tick
  <2>3. sinceClose' \in Nat /\ sinceFree' \in Nat BY <1>37, <1>l DEF Tick, Up, Least
  <2> QED BY <1>37, <2>1, <2>2, <2>3 DEF Tick
<1>38. CASE UNCHANGED vars BY <1>38 DEF vars
<1> QED
  BY <1>1, <1>2, <1>3, <1>4, <1>5, <1>6, <1>7, <1>8, <1>9, <1>10, <1>11, <1>12, <1>13, <1>14,
     <1>15, <1>16, <1>17, <1>18, <1>19, <1>21, <1>22, <1>23, <1>24, <1>25, <1>26, <1>27, <1>28,
     <1>29, <1>30, <1>31, <1>32, <1>33, <1>34, <1>35, <1>36, <1>37, <1>38
  DEF Next, Venue, Process, Collector, Pipeline, Worker, Rest

\* The types of a segment's state, in every behaviour.
THEOREM SegmentTypeCorrect == Spec => []TypeOK
<1>1. Init => TypeOK BY InitTyped
<1>2. TypeOK /\ [Next]_vars => TypeOK' BY StepTyped
<1> QED BY <1>1, <1>2, PTL DEF Spec
-----------------------------------------------------------------------------
Durable(s) == synced[s] = Len(rows[s])

\* While frames come in, less than a batch of a file is not synced, and an
\* exception leaves at most one row more.  In the shutdown what has been done
\* is done or has set cleanupError.
LossInv ==
    /\ LossIsBounded
    /\ \A s \in Sinks : synced[s] <= Len(rows[s])
    /\ pc \in Streaming => \A s \in Sinks : Len(rows[s]) - synced[s] < Batch
    /\ scored => pc \in {"scored", "finished", "dead"}
    /\ ~cleanupError =>
        /\ pc \in {"close raw", "close clean", "close quarantine", "closed"} => metrics
        /\ pc \in {"close clean", "close quarantine", "closed"} => Durable("raw")
        /\ pc \in {"close quarantine", "closed"} => Durable("clean")
        /\ pc = "closed" => Durable("quarantine")

\* The steps of the venue, the collector and the clock touch no file.
LEMMA NoFileTouched ==
    ASSUME LossInv, pc \in Streaming, pc' \in Streaming \cup {"metrics"},
           UNCHANGED <<rows, synced, part, cleanupError, metrics, scored>>
    PROVE  LossInv'
BY DEF LossInv, LossIsBounded, Streaming, Durable

\* An exception adds at most one row to one file, and ends the stream.
LEMMA FileRaises ==
    ASSUME TypeOK, LossInv, pc \in Streaming, pc' = "metrics",
           UNCHANGED <<synced, part, cleanupError, metrics, scored>>,
           NEW s \in Sinks, NEW r \in Rows,
           rows' = [rows EXCEPT ![s] = Append(@, r)]
    PROVE  LossInv'
<1>1. \A t \in Sinks : /\ Len(rows[t]) \in Nat /\ synced[t] \in Nat
                       /\ Len(rows'[t]) \in {Len(rows[t]), Len(rows[t]) + 1}
  BY RowsGrow DEF TypeOK
<1>2. Batch \in Nat BY SegmentAssumption
<1>3. \A t \in Sinks : Len(rows[t]) - synced[t] < Batch /\ synced[t] <= Len(rows[t])
  BY DEF LossInv
<1>4. \A t \in Sinks : Len(rows'[t]) - synced[t] <= Batch /\ synced[t] <= Len(rows'[t])
  BY <1>1, <1>2, <1>3
<1>5. ~scored BY DEF LossInv, Streaming
<1> QED BY <1>4, <1>5 DEF LossInv, LossIsBounded, Streaming

\* A write syncs the file when its batch is full.
LEMMA WriteKeepsBatch ==
    ASSUME TypeOK, LossInv, pc \in Streaming, pc' \in Streaming,
           UNCHANGED <<part, cleanupError, metrics, scored>>,
           NEW s \in Sinks, Write(s)
    PROVE  LossInv'
<1>1. Row(hand) \in Rows BY DEF TypeOK, Row, Rows, Frames
<1>2. /\ Len(rows[s]) \in Nat /\ synced[s] \in Nat /\ Batch \in Nat \ {0}
      /\ Len(rows'[s]) = Len(rows[s]) + 1
      /\ synced'[s] \in {synced[s], Len(rows[s]) + 1}
      /\ Len(rows[s]) + 1 - synced[s] >= Batch => synced'[s] = Len(rows[s]) + 1
  BY <1>1, SegmentAssumption, RowsGrow DEF TypeOK, Write
<1>3. \A t \in Sinks \ {s} : rows'[t] = rows[t] /\ synced'[t] = synced[t]
  BY DEF TypeOK, Write
<1>4. synced[s] <= Len(rows[s]) /\ part <= synced["raw"] BY DEF LossInv, LossIsBounded
<1>5. /\ Len(rows'[s]) - synced'[s] < Batch
      /\ synced'[s] <= Len(rows'[s]) /\ synced[s] <= synced'[s]
  BY <1>2, <1>4
<1>6. \A t \in Sinks : Len(rows'[t]) - synced'[t] < Batch /\ synced'[t] <= Len(rows'[t])
  BY <1>3, <1>5 DEF LossInv
<1>7. part' <= synced'["raw"]
  <2>1. CASE s = "raw" BY <2>1, <1>2, <1>4, <1>5 DEF TypeOK
  <2>2. CASE s # "raw" BY <2>2, <1>3, <1>4 DEF Sinks
  <2> QED BY <2>1, <2>2
<1>8. \A t \in Sinks : Len(rows'[t]) - synced'[t] <= Batch
  <2>1. \A t \in Sinks : Len(rows'[t]) \in Nat /\ synced'[t] \in Nat
    BY <1>2, <1>3 DEF TypeOK
  <2> QED BY <1>2, <1>6, <2>1
<1>9. ~scored BY DEF LossInv, Streaming
<1> QED BY <1>6, <1>7, <1>8, <1>9 DEF LossInv, LossIsBounded, Streaming

LEMMA InitLoss == Init => LossInv
<1> SUFFICES ASSUME Init PROVE LossInv
  OBVIOUS
<1>1. Batch \in Nat \ {0} BY SegmentAssumption
<1>2. \A s \in Sinks : Len(rows[s]) = 0 /\ synced[s] = 0 BY DEF Init
<1>3. part <= synced["raw"] BY DEF Init, Sinks
<1> QED BY <1>1, <1>2, <1>3 DEF Init, LossInv, LossIsBounded, Streaming

LEMMA Lengths ==
    ASSUME TypeOK
    PROVE  part \in Nat /\ \A s \in Sinks : Len(rows[s]) \in Nat /\ synced[s] \in Nat
BY DEF TypeOK

\* A close syncs its file or sets cleanupError, and takes nothing back.
LEMMA CloseKeeps ==
    ASSUME TypeOK, LossInv, NEW s \in Sinks, NEW then, CloseSink(s, then),
           pc \notin {"scored", "finished", "dead"}
    PROVE  /\ LossIsBounded'
           /\ \A t \in Sinks : synced'[t] <= Len(rows'[t])
           /\ ~scored'
           /\ ~cleanupError' => ~cleanupError /\ Durable(s)'
           /\ metrics' = metrics
           /\ \A t \in Sinks : Durable(t) => Durable(t)'
<1>1. rows' = rows /\ part' = part /\ UNCHANGED <<metrics, scored>>
  BY DEF CloseSink, Closing
<1>2. \/ synced' = [synced EXCEPT ![s] = Len(rows[s])] /\ cleanupError' = cleanupError
      \/ synced' = synced /\ cleanupError'
  BY DEF CloseSink
<1>3. \A t \in Sinks : synced'[t] \in {synced[t], Len(rows[t])}
  BY <1>2 DEF TypeOK
<1>4. ASSUME NEW t \in Sinks
      PROVE  /\ synced[t] <= synced'[t] /\ synced'[t] <= Len(rows'[t])
             /\ Len(rows'[t]) - synced'[t] <= Batch
             /\ Durable(t) => Durable(t)'
  <2>1. synced[t] <= Len(rows[t]) /\ Len(rows[t]) - synced[t] <= Batch
    BY DEF LossInv, LossIsBounded
  <2>2. Batch \in Nat BY SegmentAssumption
  <2> QED BY <1>1, <1>3, <2>1, <2>2, Lengths DEF Durable
<1>5. part' <= synced'["raw"]
  <2>1. "raw" \in Sinks /\ part <= synced["raw"] BY DEF LossInv, LossIsBounded, Sinks
  <2>2. synced'["raw"] \in Nat BY <1>3, <2>1, Lengths
  <2> QED BY <1>1, <1>4, <2>1, <2>2, Lengths
<1>6. ~scored BY DEF LossInv
<1>7. ~cleanupError' => ~cleanupError /\ Durable(s)'
  BY <1>1, <1>2 DEF TypeOK, Durable
<1> QED BY <1>1, <1>4, <1>5, <1>6, <1>7 DEF LossIsBounded

\* Every step keeps to what may be lost.
LEMMA StepLoss == TypeOK /\ LossInv /\ [Next]_vars => LossInv'
<1> SUFFICES ASSUME TypeOK, LossInv, [Next]_vars PROVE LossInv'
  OBVIOUS
<1>1. CASE Venue
  BY <1>1, NoFileTouched
  DEF Venue, VenueSends, VenueSendsGarbage, VenueAnswers, VenueCloses, Listening, Quiet, Streaming
<1>2. CASE KeepAlive
  <2>1. pc' = pc /\ UNCHANGED <<rows, synced, part, cleanupError, metrics, scored>>
    BY <1>2 DEF KeepAlive
  <2> QED BY <2>1 DEF LossInv, LossIsBounded, Durable
<1>3. CASE Collector
  <2>1. pc \in Streaming /\ pc' \in Streaming \cup {"metrics"}
    BY <1>3 DEF Collector, Connect, Subscribed, Receive, ConnectFails, AckArrives, AckWaitReads,
         AckWaitFails, AckTimesOut, YieldBuffered, Yield, RecvData, RecvControl, RecvGarbage,
         CleanClose, ConnectionBreaks, IdleTimesOut, StreamEnds, Wake, Retry, Streaming
  <2>2. UNCHANGED <<rows, synced, part, cleanupError, metrics, scored>>
    BY <1>3 DEF Collector, Connect, ConnectFails, AckArrives, AckWaitReads,
         AckWaitFails, AckTimesOut, YieldBuffered, RecvData, RecvControl, RecvGarbage,
         CleanClose, ConnectionBreaks, IdleTimesOut, StreamEnds, Wake, Retry, Reading
  <2> QED BY <2>1, <2>2, NoFileTouched
<1>4. CASE WriteRaw
  BY <1>4, WriteKeepsBatch DEF WriteRaw, Writing, Streaming, Sinks
<1>5. CASE Judge
  <2>1. PICK s \in Sinks : Write(s) BY <1>5 DEF Judge, Sinks
  <2> QED BY <1>5, <2>1, WriteKeepsBatch DEF Judge, Writing, Streaming
<1>6. CASE Rotate
  <2>1. /\ rows' = rows /\ part' = Len(rows["raw"])
        /\ synced' = [synced EXCEPT !["raw"] = Len(rows["raw"])]
        /\ pc \in Streaming /\ pc' = pc /\ UNCHANGED <<cleanupError, metrics, scored>>
    BY <1>6 DEF Rotate, Writing, Streaming
  <2>2. /\ synced'["raw"] = Len(rows["raw"])
        /\ \A t \in Sinks \ {"raw"} : synced'[t] = synced[t]
    BY <2>1 DEF TypeOK, Sinks
  <2>l. Batch \in Nat \ {0} /\ "raw" \in Sinks BY SegmentAssumption DEF Sinks
  <2>3. ASSUME NEW t \in Sinks
        PROVE  /\ Len(rows'[t]) - synced'[t] < Batch
               /\ Len(rows'[t]) - synced'[t] <= Batch
               /\ synced'[t] <= Len(rows'[t])
    <3>1. Len(rows[t]) - synced[t] < Batch /\ synced[t] <= Len(rows[t])
      BY <2>1 DEF LossInv
    <3>2. synced'[t] \in {synced[t], Len(rows[t])} BY <2>2
    <3> QED BY <2>1, <2>l, <3>1, <3>2, Lengths
  <2>4. part' <= synced'["raw"] BY <2>1, <2>2, <2>l, Lengths
  <2>5. ~scored BY <2>1 DEF LossInv, Streaming
  <2> QED BY <2>1, <2>3, <2>4, <2>5 DEF LossInv, LossIsBounded, Streaming
<1>7. CASE RawRaises \/ JudgeRaises
  <2>1. /\ pc \in Streaming /\ pc' = "metrics"
        /\ UNCHANGED <<synced, part, cleanupError, metrics, scored>>
    BY <1>7 DEF RawRaises, JudgeRaises, WriteRaises, Writing, Streaming
  <2>2. \/ rows' = rows
        \/ \E s \in Sinks : rows' = [rows EXCEPT ![s] = Append(@, Row(hand))]
    BY <1>7 DEF RawRaises, JudgeRaises, Sinks
  <2>3. Row(hand) \in Rows BY DEF TypeOK, Row, Rows, Frames
  <2> QED BY <2>1, <2>2, <2>3, FileRaises, NoFileTouched
<1>8. CASE DeadlineReached \/ PartialMetricsRaises \/ NextFrame \/ LimitReached
  BY <1>8, NoFileTouched
  DEF DeadlineReached, PartialMetricsRaises, NextFrame, LimitReached, StreamEnds, WriteRaises,
      Writing, Receive, Streaming
<1>9. CASE WriteMetrics
  BY <1>9 DEF WriteMetrics, Closing, LossInv, LossIsBounded, Streaming
<1>10. CASE CloseRaw \/ CloseClean \/ CloseQuarantine
  <2>1. pc \notin {"scored", "finished", "dead"} /\ pc' \notin Streaming \cup {"close raw"}
    BY <1>10 DEF CloseRaw, CloseClean, CloseQuarantine, CloseSink, Streaming
  <2>2. CASE CloseRaw BY <2>1, <2>2, CloseKeeps DEF CloseRaw, CloseSink, LossInv, Sinks
  <2>3. CASE CloseClean BY <2>1, <2>3, CloseKeeps DEF CloseClean, CloseSink, LossInv, Sinks
  <2>4. CASE CloseQuarantine
    BY <2>1, <2>4, CloseKeeps DEF CloseQuarantine, CloseSink, LossInv, Sinks
  <2> QED BY <1>10, <2>2, <2>3, <2>4
<1>11. CASE Score
  <2>1. metrics /\ \A s \in Sinks : Durable(s)
    BY <1>11 DEF Score, WellEnded, LossInv, Sinks
  <2> QED BY <1>11, <2>1 DEF Score, LossInv, LossIsBounded, Streaming, Durable
<1>12. CASE SegmentError
  BY <1>12 DEF SegmentError, LossInv, LossIsBounded, Streaming
<1>13. CASE NextSegment
  <2>1. \A s \in Sinks : Len(rows'[s]) = 0 /\ synced'[s] = 0 BY <1>13 DEF NextSegment
  <2>2. part' <= synced'["raw"] BY <1>13 DEF NextSegment, Sinks
  <2>3. Batch \in Nat \ {0} BY SegmentAssumption
  <2> QED BY <1>13, <2>1, <2>2, <2>3 DEF NextSegment, Forgotten, LossInv, LossIsBounded, Streaming
<1>14. CASE Finished
  BY <1>14 DEF Finished, LossInv, LossIsBounded, Streaming
<1>15. CASE Crash
  <2>1. PICK kept \in [Sinks -> 0..Count] :
            /\ \A s \in Sinks : synced[s] <= kept[s] /\ kept[s] <= Len(rows[s])
            /\ rows' = [s \in Sinks |-> SubSeq(rows[s], 1, kept[s])]
    BY <1>15 DEF Crash
  <2>2. Count \in Nat /\ Batch \in Nat BY SegmentAssumption
  <2>3. \A s \in Sinks : /\ Len(rows[s]) \in Nat /\ synced[s] \in Nat /\ kept[s] \in Nat
                         /\ Len(rows'[s]) = kept[s]
    <3>1. \A s \in Sinks : kept[s] \in Nat BY <2>2
    <3> QED BY <2>1, <3>1, RowsGrow, RowsCut DEF TypeOK
  <2>4. pc' = "dead" /\ UNCHANGED <<synced, part, metrics, scored>> BY <1>15 DEF Crash
  <2>5. ASSUME NEW s \in Sinks
        PROVE  /\ Len(rows'[s]) - synced'[s] <= Batch /\ synced'[s] <= Len(rows'[s])
               /\ Durable(s) => Durable(s)'
    <3>1. Len(rows[s]) - synced[s] <= Batch BY DEF LossInv, LossIsBounded
    <3> QED BY <2>1, <2>2, <2>3, <2>4, <3>1 DEF Durable
  <2>6. scored => \A s \in Sinks : Durable(s) BY DEF LossInv, LossIsBounded, Durable
  <2> QED BY <2>4, <2>5, <2>6 DEF LossInv, LossIsBounded, Streaming, Durable
<1>16. CASE Tick
  <2>1. pc' = pc /\ UNCHANGED <<rows, synced, part, cleanupError, metrics, scored>>
    BY <1>16 DEF Tick
  <2> QED BY <2>1 DEF LossInv, LossIsBounded, Durable
<1>17. CASE UNCHANGED vars
  BY <1>17 DEF vars, LossInv, LossIsBounded, Durable
<1> QED
  BY <1>1, <1>2, <1>3, <1>4, <1>5, <1>6, <1>7, <1>8, <1>9, <1>10, <1>11, <1>12, <1>13, <1>14,
     <1>15, <1>16, <1>17
  DEF Next, Process, Pipeline, Worker, Rest

\* Whatever the venue does and whatever fails, a power loss takes at most one
\* batch of a file, nothing of a rolled part, and nothing of a scored segment,
\* which has its metrics row (pipeline.py, 195-263, and storage.py).
THEOREM LossBounded == Spec => []LossIsBounded
<1>1. Init => TypeOK /\ LossInv BY InitTyped, InitLoss
<1>2. TypeOK /\ LossInv /\ [Next]_vars => (TypeOK /\ LossInv)' BY StepTyped, StepLoss
<1>3. LossInv => LossIsBounded BY DEF LossInv
<1> QED BY <1>1, <1>2, <1>3, PTL DEF Spec
-----------------------------------------------------------------------------
\* Where the raw file stands on the current connection, and what waits for it
\* there: the frame in hand, the buffered ones, the one on the wire.
Recorded ==
    LET raw == rows["raw"]
    IN IF raw # <<>> /\ raw[Len(raw)].conn = conn THEN raw[Len(raw)].n ELSE 0
InHand == IF pc = "raw" THEN 1 ELSE 0
OnWire == IF wire.kind = "data" THEN 1 ELSE 0

\* What has been sent on a connection is recorded, in hand, buffered or on the
\* wire, in this order and with nothing between.
OpenInv ==
    /\ pc = "raw" => hand.n = Recorded + 1
    /\ \A i \in 1..Len(buffered) : buffered[i].n = Recorded + InHand + i
    /\ sent = Recorded + InHand + Len(buffered) + OnWire
    /\ wire.kind = "data" => wire.n = sent
    /\ pc = "recv" => buffered = <<>>

OrderInv ==
    /\ RecordsWhatArrived
    /\ pc \in Streaming => \A i \in 1..Len(rows["raw"]) : rows["raw"][i].conn <= conn
    /\ pc \in Streaming \ {"connect", "sleep"} => OpenInv

\* A step that changes neither the raw file nor the connection.
LEMMA RawUntouched ==
    ASSUME OrderInv, rows'["raw"] = rows["raw"],
           pc' \in Streaming => pc \in Streaming /\ conn' = conn,
           pc' \in Streaming \ {"connect", "sleep"} => OpenInv'
    PROVE  OrderInv'
BY DEF OrderInv, RecordsWhatArrived

LEMMA RecordedTyped == ASSUME TypeOK PROVE Recorded \in Nat
<1> DEFINE raw == rows["raw"]
<1>1. raw \in Seq(Rows) BY DEF TypeOK, Sinks
<1>2. raw # <<>> => raw[Len(raw)] \in Rows BY <1>1
<1> QED BY <1>2 DEF Recorded, Rows

\* The next frame of the connection goes to the end of the raw file.
LEMMA RawGrows ==
    ASSUME TypeOK, OrderInv, pc = "raw",
           rows'["raw"] = Append(rows["raw"], Row(hand))
    PROVE  /\ RecordsWhatArrived'
           /\ conn' = conn => /\ Recorded' = Recorded + 1
                              /\ \A i \in 1..Len(rows["raw"]') : rows["raw"]'[i].conn <= conn
<1> DEFINE raw == rows["raw"]
           n == Len(raw)
<1>1. raw \in Seq(Rows) /\ n \in Nat BY DEF TypeOK, Sinks
<1>2. Row(hand) \in Rows BY DEF TypeOK, Row, Rows, Frames
<1>3. /\ Len(raw') = n + 1
      /\ \A i \in 1..n : raw'[i] = raw[i]
      /\ raw'[n + 1] = Row(hand)
  BY <1>1, <1>2, RowsGrow
<1>4. /\ hand.n = Recorded + 1
      /\ \A i \in 1..n : raw[i].conn <= conn
  BY DEF OrderInv, OpenInv, Streaming
<1>5. Row(hand).n = Recorded + 1 /\ Row(hand).conn = conn BY <1>4 DEF Row
<1>6. DOMAIN raw = 1..n /\ DOMAIN raw' = 1..(n + 1)
  BY <1>1, <1>2, <1>3 DEF Rows
<1>7. ASSUME NEW i \in 1..(n + 1)
      PROVE  IF i > 1 /\ raw'[i].conn = raw'[i - 1].conn
             THEN raw'[i].n = raw'[i - 1].n + 1
             ELSE raw'[i].n = 1 /\ (i > 1 => raw'[i].conn > raw'[i - 1].conn)
  <2>1. CASE i <= n
    <3>1. i \in 1..n /\ (i > 1 => i - 1 \in 1..n) BY <1>1, <2>1
    <3>2. raw'[i] = raw[i] /\ (i > 1 => raw'[i - 1] = raw[i - 1]) BY <1>3, <3>1
    <3> QED BY <1>6, <3>1, <3>2 DEF OrderInv, RecordsWhatArrived
  <2>2. CASE i = n + 1 /\ n = 0
    <3>1. raw = <<>> BY <1>1, <2>2
    <3> QED BY <1>3, <1>5, <2>2, <3>1 DEF Recorded
  <2>3. CASE i = n + 1 /\ n > 0
    <3>1. n \in 1..n /\ i - 1 = n /\ i > 1 /\ raw # <<>> BY <1>1, <2>3
    <3>2. raw'[i] = Row(hand) /\ raw'[i - 1] = raw[n] BY <1>3, <2>3, <3>1
    <3>3. raw[n] \in Rows BY <1>1, <3>1
    <3>4. raw[n].conn \in Nat /\ raw[n].conn <= conn /\ conn \in Nat
      BY <1>4, <3>1, <3>3 DEF Rows, TypeOK
    <3>5. CASE raw[n].conn = conn BY <1>5, <3>1, <3>2, <3>5 DEF Recorded
    <3>6. CASE raw[n].conn # conn BY <1>5, <3>1, <3>2, <3>4, <3>6 DEF Recorded
    <3> QED BY <3>5, <3>6
  <2> QED BY <1>1, <2>1, <2>2, <2>3
<1>8. RecordsWhatArrived' BY <1>6, <1>7 DEF RecordsWhatArrived
<1>9. ASSUME conn' = conn
      PROVE  /\ Recorded' = Recorded + 1
             /\ \A i \in 1..(n + 1) : raw'[i].conn <= conn
  <2>1. raw' # <<>> /\ n + 1 \in 1..(n + 1)
    <3>1. Len(raw') > 0 BY <1>1, <1>3
    <3>2. Len(<<>>) = 0 OBVIOUS
    <3> QED BY <1>1, <3>1, <3>2
  <2>2. Recorded' = Recorded + 1 BY <1>3, <1>5, <1>9, <2>1 DEF Recorded
  <2>3. conn <= conn BY DEF TypeOK
  <2> QED BY <1>1, <1>3, <1>4, <1>5, <2>2, <2>3
<1> QED BY <1>3, <1>8, <1>9

LEMMA RawTyped ==
    ASSUME TypeOK
    PROVE  \A i \in 1..Len(rows["raw"]) : rows["raw"][i].conn \in Nat
<1>1. rows["raw"] \in Seq(Rows) BY DEF TypeOK, Sinks
<1>2. \A i \in 1..Len(rows["raw"]) : rows["raw"][i] \in Rows BY <1>1
<1> QED BY <1>2 DEF Rows

LEMMA InitOrder == Init => OrderInv
<1> SUFFICES ASSUME Init PROVE OrderInv
  OBVIOUS
<1>1. pc = "connect" /\ rows["raw"] = <<>> BY DEF Init, Sinks
<1> QED BY <1>1 DEF OrderInv, RecordsWhatArrived

\* Every step keeps the order.
LEMMA StepOrder == TypeOK /\ OrderInv /\ [Next]_vars => OrderInv'
<1> SUFFICES ASSUME TypeOK, OrderInv, [Next]_vars PROVE OrderInv'
  OBVIOUS
<1>t. Recorded \in Nat /\ Len(buffered) \in Nat /\ sent \in Nat /\ conn \in Nat
  BY RecordedTyped DEF TypeOK
<1>1. CASE Venue
  <2>1. /\ pc \in {"ack", "recv"} /\ wire = None
        /\ UNCHANGED <<rows, conn, pc, buffered, hand>>
    BY <1>1 DEF Venue, VenueSends, VenueSendsGarbage, VenueAnswers, VenueCloses, Listening, Quiet
  <2>2. OpenInv /\ OnWire = 0 /\ Recorded' = Recorded /\ InHand' = InHand
    BY <2>1 DEF OrderInv, Streaming, OnWire, None, Frame, Recorded, InHand
  <2>3. /\ wire'.kind = "data" => wire'.n = sent'
        /\ sent' = sent + OnWire'
    BY <1>1, <1>t DEF Venue, VenueSends, VenueSendsGarbage, VenueAnswers, VenueCloses, Arrives,
         Data, Frame, OnWire
  <2>4. OpenInv'
    <3>1. OnWire' \in Nat BY DEF OnWire
    <3>2. InHand = 0 BY <2>1 DEF InHand
    <3>3. sent' = Recorded' + InHand' + Len(buffered') + OnWire'
      BY <1>t, <2>1, <2>2, <2>3, <3>1, <3>2 DEF OpenInv
    <3> QED BY <2>1, <2>2, <2>3, <3>3 DEF OpenInv
  <2> QED BY <2>1, <2>4, RawUntouched
<1>2. CASE KeepAlive
  <2>1. UNCHANGED <<rows, conn, pc, buffered, hand, sent>> BY <1>2 DEF KeepAlive
  <2>2. wire' = wire \/ (wire = None /\ wire' = Frame("control"))
    BY <1>2 DEF KeepAlive, Arrives, Listening
  <2>3. OnWire' = OnWire /\ (wire'.kind = "data" => wire' = wire)
    BY <2>2 DEF OnWire, None, Frame
  <2>4. Recorded' = Recorded /\ InHand' = InHand BY <2>1 DEF Recorded, InHand
  <2>5. OpenInv => OpenInv' BY <2>1, <2>3, <2>4 DEF OpenInv
  <2> QED BY <2>1, <2>5, RawUntouched DEF OrderInv
<1>3. CASE Connect
  <2>1. /\ pc = "connect" /\ rows' = rows /\ conn' = conn + 1 /\ wire' = None /\ sent' = 0
        /\ buffered' = <<>> /\ pc' \in {"ack", "recv"}
    BY <1>3 DEF Connect, Subscribed, Receive
  <2>2. \A i \in 1..Len(rows["raw"]) : rows["raw"][i].conn < conn'
    <3>1. \A i \in 1..Len(rows["raw"]) : rows["raw"][i].conn \in Nat /\ rows["raw"][i].conn <= conn
      BY <2>1, RawTyped DEF OrderInv, Streaming
    <3> QED BY <1>t, <2>1, <3>1
  <2>3. Recorded' = 0
    <3>1. rows["raw"] # <<>> => Len(rows["raw"]) \in 1..Len(rows["raw"])
      BY DEF TypeOK, Sinks
    <3>2. \A i \in 1..Len(rows["raw"]) : rows["raw"][i].conn # conn'
      <4>1. \A i \in 1..Len(rows["raw"]) : rows["raw"][i].conn \in Nat
        BY RawTyped
      <4> QED BY <1>t, <2>1, <2>2, <4>1
    <3> QED BY <2>1, <3>1, <3>2 DEF Recorded
  <2>4. OpenInv' BY <2>1, <2>3 DEF OpenInv, InHand, OnWire, None, Frame
  <2>5. \A i \in 1..Len(rows["raw"]) : rows["raw"][i].conn <= conn'
    <3>1. \A i \in 1..Len(rows["raw"]) : rows["raw"][i].conn \in Nat
      BY RawTyped
    <3> QED BY <1>t, <2>1, <2>2, <3>1
  <2> QED BY <2>1, <2>4, <2>5 DEF OrderInv, RecordsWhatArrived
<1>4. CASE ConnectFails \/ AckWaitFails \/ AckTimesOut \/ ConnectionBreaks
  <2>1. /\ rows' = rows /\ conn' = conn /\ pc \in Streaming /\ pc' \in {"metrics", "sleep"}
    BY <1>4 DEF ConnectFails, AckWaitFails, AckTimesOut, ConnectionBreaks, Retry, Streaming
  <2> QED BY <2>1, RawUntouched DEF Streaming
<1>5. CASE AckArrives
  <2>1. /\ pc = "ack" /\ OnWire = 0 /\ UNCHANGED <<rows, conn, sent, hand, buffered>>
        /\ wire' = None
        /\ pc' = IF buffered = <<>> THEN "recv" ELSE "pending"
    BY <1>5 DEF AckArrives, Subscribed, Receive, Reading, OnWire
  <2>2. Recorded' = Recorded /\ InHand' = InHand /\ OnWire' = OnWire
    BY <2>1 DEF Recorded, InHand, OnWire, None, Frame
  <2>3. OpenInv' BY <2>1, <2>2 DEF OrderInv, OpenInv, Streaming, None, Frame
  <2> QED BY <2>1, <2>3, RawUntouched DEF Streaming
<1>6. CASE AckWaitReads
  <2>1. /\ pc = "ack" /\ pc' = pc /\ UNCHANGED <<rows, conn, sent, hand>> /\ wire' = None
    BY <1>6 DEF AckWaitReads, Reading
  <2>2. OpenInv /\ InHand = 0 /\ InHand' = 0 /\ Recorded' = Recorded /\ OnWire' = 0
    BY <2>1 DEF OrderInv, Streaming, Recorded, InHand, OnWire, None, Frame
  <2>3. CASE wire.kind = "data"
    <3>1. buffered' = Append(buffered, wire) /\ wire.n = sent
      BY <1>6, <2>2, <2>3 DEF AckWaitReads, Kept, OpenInv
    <3>2. /\ Len(buffered') = Len(buffered) + 1
          /\ \A i \in 1..Len(buffered) : buffered'[i] = buffered[i]
          /\ buffered'[Len(buffered) + 1] = wire
      BY <3>1, AppendProperties DEF TypeOK
    <3>3. sent = Recorded + Len(buffered) + 1 BY <1>t, <2>2, <2>3 DEF OpenInv, OnWire
    <3>4. ASSUME NEW i \in 1..Len(buffered') PROVE buffered'[i].n = Recorded + i
      <4>1. CASE i = Len(buffered) + 1 BY <1>t, <3>1, <3>2, <3>3, <4>1
      <4>2. CASE i # Len(buffered) + 1
        <5>1. i \in 1..Len(buffered) BY <1>t, <3>2, <4>2
        <5>2. buffered'[i].n = Recorded + 0 + i BY <2>2, <3>2, <5>1 DEF OpenInv
        <5> QED BY <1>t, <5>2
      <4> QED BY <4>1, <4>2
    <3>5. OpenInv' BY <1>t, <2>1, <2>2, <3>2, <3>3, <3>4 DEF OpenInv, None, Frame
    <3> QED BY <2>1, <3>5, RawUntouched
  <2>4. CASE wire.kind # "data"
    <3>1. buffered' = buffered BY <1>6, <2>4 DEF AckWaitReads, Kept
    <3>2. OpenInv' BY <2>1, <2>2, <2>4, <3>1 DEF OpenInv, OnWire, None, Frame
    <3> QED BY <2>1, <3>2, RawUntouched
  <2> QED BY <2>3, <2>4
<1>7. CASE YieldBuffered
  <2>1. /\ pc = "pending" /\ pc' = "raw" /\ hand' = Head(buffered) /\ buffered' = Tail(buffered)
        /\ UNCHANGED <<rows, conn, sent, wire>>
    BY <1>7 DEF YieldBuffered, Yield
  <2>2. /\ OpenInv /\ InHand = 0 /\ InHand' = 1 /\ Recorded' = Recorded /\ OnWire' = OnWire
    BY <2>1 DEF OrderInv, Streaming, Recorded, InHand, OnWire
  <2>3. /\ buffered \in Seq(Frames) /\ Len(buffered) > 0 /\ Head(buffered) = buffered[1]
        /\ Len(buffered') = Len(buffered) - 1
        /\ \A i \in 1..Len(buffered') : buffered'[i] = buffered[i + 1]
    BY <2>1, HeadTailProperties DEF TypeOK
  <2>4. hand'.n = Recorded + 1 BY <1>t, <2>1, <2>2, <2>3 DEF OpenInv
  <2>5. ASSUME NEW i \in 1..Len(buffered') PROVE buffered'[i].n = Recorded + 1 + i
    <3>1. i + 1 \in 1..Len(buffered) BY <1>t, <2>3
    <3>2. buffered'[i].n = Recorded + 0 + (i + 1) BY <2>2, <2>3, <3>1 DEF OpenInv
    <3> QED BY <1>t, <3>2
  <2>6. sent = Recorded + 1 + Len(buffered') + OnWire
    BY <1>t, <2>2, <2>3 DEF OpenInv, OnWire
  <2>7. OpenInv' BY <2>1, <2>2, <2>4, <2>5, <2>6 DEF OpenInv
  <2> QED BY <2>1, <2>7, RawUntouched DEF Streaming
<1>8. CASE RecvData
  <2>1. /\ pc = "recv" /\ pc' = "raw" /\ wire.kind = "data" /\ hand' = wire /\ wire' = None
        /\ UNCHANGED <<rows, conn, sent, buffered>>
    BY <1>8 DEF RecvData, Yield
  <2>2. /\ OpenInv /\ InHand = 0 /\ InHand' = 1 /\ Recorded' = Recorded
        /\ OnWire = 1 /\ OnWire' = 0
    BY <2>1 DEF OrderInv, Streaming, Recorded, InHand, OnWire, None, Frame
  <2>3. buffered = <<>> /\ Len(buffered) = 0 BY <2>1, <2>2 DEF OpenInv
  <2>4. sent = Recorded + 1 /\ wire.n = sent BY <1>t, <2>1, <2>2, <2>3 DEF OpenInv
  <2>5. OpenInv' BY <1>t, <2>1, <2>2, <2>3, <2>4 DEF OpenInv, None, Frame
  <2> QED BY <2>1, <2>5, RawUntouched DEF Streaming
<1>9. CASE RecvControl \/ RecvGarbage
  <2>1. /\ pc = "recv" /\ pc' \in {"recv", "metrics"} /\ OnWire = 0 /\ wire' = None
        /\ UNCHANGED <<rows, conn, sent, hand, buffered>>
    BY <1>9 DEF RecvControl, RecvGarbage, Receive, Reading, OnWire
  <2>2. Recorded' = Recorded /\ OnWire' = 0 /\ InHand = 0 /\ InHand' = 0
    BY <2>1 DEF Recorded, InHand, OnWire, None, Frame
  <2>3. OpenInv' BY <2>1, <2>2 DEF OrderInv, OpenInv, Streaming, None, Frame
  <2> QED BY <2>1, <2>3, RawUntouched DEF Streaming
<1>10. CASE CleanClose \/ Wake
  <2>1. /\ pc \in Streaming /\ pc' \in {"sleep", "connect"} /\ UNCHANGED <<rows, conn>>
    BY <1>10 DEF CleanClose, Wake, Streaming
  <2> QED BY <2>1, RawUntouched
<1>11. CASE WriteRaw
  <2>1. /\ pc = "raw" /\ pc' = "judge" /\ Write("raw")
        /\ UNCHANGED <<conn, sent, wire, buffered, hand>>
    BY <1>11 DEF WriteRaw, Writing
  <2>2. rows'["raw"] = Append(rows["raw"], Row(hand))
    BY <2>1 DEF Write, TypeOK, Sinks
  <2>3. /\ RecordsWhatArrived' /\ Recorded' = Recorded + 1
        /\ \A i \in 1..Len(rows["raw"]') : rows["raw"]'[i].conn <= conn
    BY <2>1, <2>2, RawGrows
  <2>4. OpenInv /\ InHand = 1 /\ InHand' = 0 /\ OnWire' = OnWire
    BY <2>1 DEF OrderInv, Streaming, InHand, OnWire
  <2>5. OpenInv' BY <1>t, <2>1, <2>3, <2>4 DEF OpenInv
  <2> QED BY <2>1, <2>3, <2>5 DEF OrderInv
<1>12. CASE Judge \/ Rotate
  <2>1. /\ pc \in {"judge", "raw"} /\ pc' = (IF pc = "judge" THEN "after" ELSE "raw")
        /\ rows'["raw"] = rows["raw"]
        /\ UNCHANGED <<conn, sent, wire, buffered, hand>>
    BY <1>12 DEF Judge, Rotate, Writing, Write, TypeOK, Sinks
  <2>2. Recorded' = Recorded /\ InHand' = InHand /\ OnWire' = OnWire
    BY <2>1 DEF Recorded, InHand, OnWire
  <2>3. OpenInv' BY <2>1, <2>2 DEF OrderInv, OpenInv, Streaming
  <2> QED BY <2>1, <2>3, RawUntouched DEF Streaming
<1>13. CASE RawRaises
  <2>1. pc = "raw" /\ pc' = "metrics" /\ rows' \in {rows, [rows EXCEPT !["raw"] = Append(@, Row(hand))]}
    BY <1>13 DEF RawRaises, WriteRaises
  <2>2. CASE rows' = rows BY <2>1, <2>2, RawUntouched DEF Streaming
  <2>3. CASE rows' = [rows EXCEPT !["raw"] = Append(@, Row(hand))]
    <3>1. rows'["raw"] = Append(rows["raw"], Row(hand)) BY <2>3 DEF TypeOK, Sinks
    <3>2. RecordsWhatArrived' BY <2>1, <3>1, RawGrows
    <3> QED BY <2>1, <3>2 DEF OrderInv, Streaming
  <2> QED BY <2>1, <2>2, <2>3
<1>14. CASE JudgeRaises
  <2>1. pc' = "metrics" /\ rows'["raw"] = rows["raw"]
    BY <1>14 DEF JudgeRaises, WriteRaises, TypeOK, Sinks
  <2> QED BY <2>1, RawUntouched DEF Streaming
<1>15. CASE IdleTimesOut \/ DeadlineReached \/ LimitReached \/ PartialMetricsRaises
  <2>1. pc' = "metrics" /\ rows' = rows
    BY <1>15 DEF IdleTimesOut, DeadlineReached, LimitReached, PartialMetricsRaises, StreamEnds,
         WriteRaises
  <2> QED BY <2>1, RawUntouched DEF Streaming
<1>16. CASE NextFrame
  <2>1. /\ pc = "after" /\ pc' = IF buffered # <<>> THEN "pending" ELSE "recv"
        /\ UNCHANGED <<rows, conn, sent, wire, buffered>>
    BY <1>16 DEF NextFrame, Receive
  <2>2. Recorded' = Recorded /\ InHand = 0 /\ InHand' = 0 /\ OnWire' = OnWire
    BY <2>1 DEF Recorded, InHand, OnWire
  <2>3. OpenInv' BY <2>1, <2>2 DEF OrderInv, OpenInv, Streaming
  <2> QED BY <2>1, <2>3, RawUntouched DEF Streaming
<1>17. CASE WriteMetrics \/ CloseRaw \/ CloseClean \/ CloseQuarantine
  <2>1. pc' \notin Streaming /\ rows' = rows
    BY <1>17 DEF WriteMetrics, CloseRaw, CloseClean, CloseQuarantine, CloseSink, Closing, Streaming
  <2> QED BY <2>1, RawUntouched
<1>18. CASE Score \/ SegmentError \/ Finished
  <2>1. pc' \notin Streaming /\ rows' = rows
    BY <1>18 DEF Score, SegmentError, Finished, Streaming
  <2> QED BY <2>1, RawUntouched
<1>19. CASE NextSegment
  <2>1. pc' = "connect" /\ rows'["raw"] = <<>> BY <1>19 DEF NextSegment, Sinks
  <2> QED BY <2>1 DEF OrderInv, RecordsWhatArrived
<1>20. CASE Crash
  <2>1. PICK kept \in [Sinks -> 0..Count] :
            /\ \A s \in Sinks : kept[s] <= Len(rows[s])
            /\ rows' = [s \in Sinks |-> SubSeq(rows[s], 1, kept[s])]
    BY <1>20 DEF Crash
  <2> DEFINE raw == rows["raw"]
             n == kept["raw"]
  <2>2. n \in Nat /\ n <= Len(raw) /\ rows'["raw"] = SubSeq(raw, 1, n)
    <3>1. "raw" \in Sinks /\ Count \in Nat BY SegmentAssumption DEF Sinks
    <3> QED BY <2>1, <3>1
  <2>3. raw \in Seq(Rows) BY DEF TypeOK, Sinks
  <2>4. /\ Len(raw') = n /\ raw' \in Seq(Rows)
        /\ \A i \in 1..n : raw'[i] = raw[i]
    BY <2>2, <2>3, RowsCut
  <2>5. DOMAIN raw' = 1..n /\ 1..n \subseteq DOMAIN raw BY <2>2, <2>3, <2>4
  <2>6. \A i \in 1..n : i > 1 => i - 1 \in 1..n BY <2>2
  <2>7. RecordsWhatArrived' BY <2>4, <2>5, <2>6 DEF OrderInv, RecordsWhatArrived
  <2>8. pc' = "dead" BY <1>20 DEF Crash
  <2> QED BY <2>7, <2>8 DEF OrderInv, Streaming
<1>21. CASE Tick \/ UNCHANGED vars
  <2>1. UNCHANGED <<pc, rows, conn, sent, wire, buffered, hand>> BY <1>21 DEF Tick, vars
  <2>2. Recorded' = Recorded /\ InHand' = InHand /\ OnWire' = OnWire
    BY <2>1 DEF Recorded, InHand, OnWire
  <2>3. OpenInv => OpenInv' BY <2>1, <2>2 DEF OpenInv
  <2> QED BY <2>1, <2>3, RawUntouched DEF OrderInv
<1> QED
  BY <1>1, <1>2, <1>3, <1>4, <1>5, <1>6, <1>7, <1>8, <1>9, <1>10, <1>11, <1>12, <1>13, <1>14,
     <1>15, <1>16, <1>17, <1>18, <1>19, <1>20, <1>21
  DEF Next, Process, Collector, Pipeline, Worker, Rest

\* Of every connection the raw file holds the frames that were sent on it, from
\* the first on and without a hole, whatever was buffered, skipped or rolled
\* (generic_ws.py, 57-255 and 340-382, and pipeline.py, 132-142).
THEOREM RecordsInOrder == Spec => []RecordsWhatArrived
<1>1. Init => TypeOK /\ OrderInv BY InitTyped, InitOrder
<1>2. TypeOK /\ OrderInv /\ [Next]_vars => (TypeOK /\ OrderInv)' BY StepTyped, StepOrder
<1>3. OrderInv => RecordsWhatArrived BY DEF OrderInv
<1> QED BY <1>1, <1>2, <1>3, PTL DEF Spec
-----------------------------------------------------------------------------
\* A reconnect without delay is a clean close.
CloseInv == sinceClose <= sinceFree

LEMMA StepClose == TypeOK /\ CloseInv /\ [Next]_vars => CloseInv'
<1> SUFFICES ASSUME TypeOK, CloseInv, [Next]_vars PROVE CloseInv'
  OBVIOUS
<1>t. StormWindow \in Nat /\ sinceClose \in Nat /\ sinceFree \in Nat
  BY SegmentAssumption DEF TypeOK
<1>1. CASE Tick BY <1>1, <1>t DEF Tick, Up, Least, CloseInv
<1>2. CASE CleanClose BY <1>2, <1>t DEF CleanClose, SinceCloseNow, CloseInv
<1>3. CASE NextSegment \/ Crash BY <1>3, <1>t DEF NextSegment, Crash, Forgotten, CloseInv
<1>4. CASE Venue \/ KeepAlive
  BY <1>4 DEF Venue, VenueSends, VenueSendsGarbage, VenueAnswers, VenueCloses, Quiet, KeepAlive,
       CloseInv
<1>5. CASE Collector /\ ~CleanClose
  BY <1>5 DEF Collector, Connect, Subscribed, ConnectFails, AckArrives, AckWaitReads,
       AckWaitFails, AckTimesOut, YieldBuffered, Yield, RecvData, RecvControl, RecvGarbage,
       ConnectionBreaks, IdleTimesOut, StreamEnds, Wake, NoTimer, Retry, CloseInv
<1>6. CASE Pipeline
  BY <1>6 DEF Pipeline, WriteRaw, Rotate, RawRaises, Judge, JudgeRaises, Writing,
       DeadlineReached, LimitReached, StreamEnds, PartialMetricsRaises, NextFrame, WriteMetrics,
       CloseRaw, CloseClean, CloseQuarantine, CloseSink, Closing, CloseInv
<1>7. CASE Score \/ SegmentError \/ Finished \/ UNCHANGED vars
  BY <1>7 DEF Score, SegmentError, Finished, vars, CloseInv
<1> QED BY <1>1, <1>2, <1>3, <1>4, <1>5, <1>6, <1>7 DEF Next, Process, Worker, Rest

\* Only a clean close goes from a connection straight to the next, and only when
\* the last one is a storm window ago.
LEMMA ReconnectsAreApart ==
    ASSUME TypeOK, CloseInv, [Next]_vars, pc = "recv", pc' = "connect"
    PROVE  sinceFree >= StormWindow
<1>t. StormWindow \in Nat /\ sinceClose \in Nat /\ sinceFree \in Nat
  BY SegmentAssumption DEF TypeOK
<1>1. CASE CleanClose BY <1>1, <1>t DEF CleanClose, CloseInv
<1>2. ~CleanClose => FALSE
  BY DEF Next, Venue, Process, Collector, Pipeline, Worker, Rest, vars,
       VenueSends, VenueSendsGarbage, VenueAnswers, VenueCloses, Quiet, KeepAlive,
       Connect, ConnectFails, AckArrives, AckWaitReads, AckWaitFails, AckTimesOut, YieldBuffered,
       RecvData, Yield, RecvControl, Receive, RecvGarbage, ConnectionBreaks, Retry, IdleTimesOut,
       StreamEnds, Wake, WriteRaw, Rotate, RawRaises, Judge, JudgeRaises, DeadlineReached,
       LimitReached, PartialMetricsRaises, NextFrame, WriteMetrics, CloseRaw, CloseClean,
       CloseQuarantine, Score, SegmentError, NextSegment, Finished, Crash, Tick
<1> QED BY <1>1, <1>2

\* Two reconnects without delay are a storm window apart in every behaviour
\* (generic_ws.py, 205-233).
THEOREM ReconnectStormsAreDamped == Spec => StormsAreDamped
<1>1. Init => TypeOK /\ CloseInv
  BY InitTyped DEF Init, CloseInv, TypeOK
<1>2. TypeOK /\ CloseInv /\ [Next]_vars => (TypeOK /\ CloseInv)' BY StepTyped, StepClose
<1>3. TypeOK /\ CloseInv /\ [Next]_vars
        => [pc = "recv" /\ pc' = "connect" => sinceFree >= StormWindow]_vars
  BY ReconnectsAreApart
<1> QED BY <1>1, <1>2, <1>3, PTL DEF Spec, StormsAreDamped

-----------------------------------------------------------------------------
(* Silence ends a segment.                                                   *)

Watched == lane.idle # Off /\ ~lane.control

\* While a connection waits for a frame, its silence so far and what is left of the wait are
\* within a limit for each undecodable frame in a row and one more; no control frame feeds
\* the wait.
SilenceInv ==
    /\ ~lane.control => ping = Off /\ wire.kind # "control"
    /\ pc \in Streaming => decodeErrors \in Nat /\ decodeErrors + 1 <= MaxDecodeErrors
    /\ pc \in {"pending", "raw", "judge", "after"} => silent = 0
    /\ pc = "recv" /\ Watched =>
            /\ wait \in Nat /\ silent \in Nat
            /\ silent + wait <= lane.idle * (decodeErrors + 1)

\* A limit more, and the most there may be.
LEMMA Limits ==
    ASSUME NEW limit \in Nat, NEW n \in Nat, NEW m \in Nat, n + 1 <= m
    PROVE  /\ limit * (n + 1) \in Nat /\ limit * (n + 1) <= limit * m
           /\ limit <= limit * (n + 1)
           /\ limit * (n + 1 + 1) = limit * (n + 1) + limit
<1>1. PICK k \in Nat : m = n + 1 + k
  <2>1. m - (n + 1) \in Nat /\ m = n + 1 + (m - (n + 1)) OBVIOUS
  <2> QED BY <2>1
<1>2. limit * m = limit * (n + 1) + limit * k BY <1>1
<1>3. limit * (n + 1) = limit * n + limit OBVIOUS
<1>4. limit * n \in Nat /\ limit * k \in Nat OBVIOUS
<1>5. limit * (n + 1 + 1) = limit * (n + 1) + limit OBVIOUS
<1> QED BY <1>2, <1>3, <1>4, <1>5

LEMMA InitSilence == Init => SilenceInv
BY SegmentAssumption DEF Init, SilenceInv, Streaming, None, Frame

\* A wait that begins when nothing has been silent yet, or in no connection.
LEMMA WaitBegins ==
    ASSUME TypeOK, SilenceInv, lane' = lane, pc \in Streaming, decodeErrors' \in {0, decodeErrors},
           wait' = lane.idle, silent' = 0, pc' = "recv",
           ~lane.control => ping' = Off /\ wire'.kind # "control"
    PROVE  SilenceInv'
<1>1. lane \in LaneConfig /\ MaxDecodeErrors \in Nat \ {0} BY SegmentAssumption DEF TypeOK
<1>2. decodeErrors' \in Nat /\ decodeErrors' + 1 <= MaxDecodeErrors
  <2>1. decodeErrors \in Nat /\ decodeErrors + 1 <= MaxDecodeErrors BY DEF SilenceInv
  <2>2. CASE decodeErrors' = decodeErrors BY <2>1, <2>2
  <2>3. CASE decodeErrors' = 0 BY <1>1, <2>3
  <2> QED BY <2>2, <2>3
<1>3. CASE ~Watched BY <1>2, <1>3 DEF SilenceInv, Watched
<1>4. CASE Watched
  <2>1. lane.idle \in Nat BY <1>1, <1>4 DEF LaneConfig, Timeouts, Watched
  <2>2. lane.idle <= lane.idle * (decodeErrors' + 1) BY <1>1, <1>2, <2>1, Limits
  <2> QED BY <1>2, <1>4, <2>1, <2>2 DEF SilenceInv, Watched
<1> QED BY <1>3, <1>4

LEMMA StepSilence == TypeOK /\ SilenceInv /\ [Next]_vars => SilenceInv'
<1> SUFFICES ASSUME TypeOK, SilenceInv, [Next]_vars PROVE SilenceInv'
  OBVIOUS
<1>t. lane \in LaneConfig /\ MaxDecodeErrors \in Nat \ {0} /\ PingInterval \in Nat
  BY SegmentAssumption DEF TypeOK
<1>u. pc \in Streaming => decodeErrors \in Nat /\ decodeErrors + 1 <= MaxDecodeErrors
  BY DEF SilenceInv
\* No wait for a frame goes on or begins.
<1>a. ASSUME lane' = lane, pc' # "recv",
             ~lane.control => ping' = Off /\ wire'.kind # "control",
             pc' \in Streaming => pc \in Streaming /\ decodeErrors' \in {0, decodeErrors},
             pc' \in {"pending", "raw", "judge", "after"} => silent' = 0
      PROVE  SilenceInv'
  BY <1>a, <1>t, <1>u DEF SilenceInv, Watched
\* One goes on undisturbed.
<1>b. ASSUME UNCHANGED <<lane, pc, decodeErrors, wait, silent>>,
             ~lane.control => ping' = Off /\ wire'.kind # "control"
      PROVE  SilenceInv'
  BY <1>b DEF SilenceInv, Watched
<1>n. None.kind # "control" BY DEF None, Frame
<1>1. CASE Venue
  BY <1>1, <1>b DEF Venue, VenueSends, VenueSendsGarbage, VenueAnswers, VenueCloses, Arrives, Quiet,
       Data, Frame, SilenceInv
<1>2. CASE KeepAlive
  <2>1. ping = 0 /\ lane.control BY <1>2 DEF KeepAlive, SilenceInv, Off
  <2> QED BY <1>2, <1>b, <2>1 DEF KeepAlive
<1>3. ASSUME NEW pending, Subscribed(pending), lane' = lane, pc \in Streaming,
             wire'.kind # "control"
      PROVE  SilenceInv'
  <2>1. /\ silent' = 0 /\ decodeErrors' = decodeErrors
        /\ ping' = (IF lane.control THEN PingInterval ELSE Off)
        /\ \/ pc' = "recv" /\ wait' = lane.idle
           \/ pc' = "pending"
    BY <1>3 DEF Subscribed, Receive
  <2>2. CASE pc' = "recv" /\ wait' = lane.idle BY <1>3, <2>1, <2>2, WaitBegins
  <2>3. CASE pc' = "pending" BY <1>3, <1>a, <2>1, <2>3
  <2> QED BY <2>1, <2>2, <2>3
<1>4. CASE Connect
  <2>1. CASE lane.acks
    <3>1. /\ pc = "connect" /\ pc' = "ack" /\ wire' = None
          /\ UNCHANGED <<lane, ping, decodeErrors>>
      BY <1>4, <2>1 DEF Connect
    <3> QED BY <1>a, <1>n, <3>1 DEF SilenceInv, Streaming
  <2>2. CASE ~lane.acks BY <1>3, <1>4, <1>n, <2>2 DEF Connect, Streaming
  <2> QED BY <2>1, <2>2
<1>5. ASSUME Retry(TRUE) \/ Retry(FALSE), pc \in Streaming PROVE SilenceInv'
  <2>1. /\ pc' \in {"metrics", "sleep"} /\ ping' = Off /\ wire' = None
        /\ UNCHANGED <<lane, decodeErrors>>
    BY <1>5 DEF Retry
  <2> QED BY <1>5, <1>a, <1>n, <2>1
<1>6. CASE ConnectFails \/ AckWaitFails \/ AckTimesOut \/ ConnectionBreaks
  <2>1. \E b \in BOOLEAN : Retry(b)
    BY <1>6 DEF ConnectFails, AckWaitFails, AckTimesOut, ConnectionBreaks, Retryable
  <2>2. pc \in Streaming
    BY <1>6 DEF ConnectFails, AckWaitFails, AckTimesOut, ConnectionBreaks, Streaming
  <2> QED BY <1>5, <2>1, <2>2
<1>7. CASE AckArrives BY <1>3, <1>7, <1>n DEF AckArrives, Reading, Streaming
<1>8. CASE AckWaitReads
  <2>1. UNCHANGED <<lane, pc, decodeErrors, wait, silent, ping>> /\ wire' = None
    BY <1>8 DEF AckWaitReads, Reading
  <2> QED BY <1>b, <1>n, <2>1 DEF SilenceInv
<1>9. CASE YieldBuffered
  <2>1. pc = "pending" /\ pc' = "raw" /\ silent' = 0 /\ UNCHANGED <<lane, ping, wire, decodeErrors>>
    BY <1>9 DEF YieldBuffered, Yield
  <2> QED BY <1>a, <2>1 DEF SilenceInv, Streaming
<1>10. CASE RecvData
  <2>1. /\ pc = "recv" /\ pc' = "raw" /\ silent' = 0 /\ decodeErrors' = 0 /\ wire' = None
        /\ UNCHANGED <<lane, ping>>
    BY <1>10 DEF RecvData, Yield
  <2> QED BY <1>a, <1>n, <2>1 DEF SilenceInv, Streaming
<1>11. CASE RecvControl
  <2>1. /\ pc = "recv" /\ wire.kind = "control" /\ pc' = "recv" /\ decodeErrors' = 0
        /\ UNCHANGED <<lane, ping>>
    BY <1>11 DEF RecvControl, Receive, Reading
  <2>2. lane.control BY <2>1 DEF SilenceInv
  <2> QED BY <1>t, <2>1, <2>2 DEF SilenceInv, Watched
<1>12. CASE RecvGarbage
  <2>1. pc = "recv" /\ decodeErrors' = decodeErrors + 1 /\ wire' = None /\ UNCHANGED <<lane, silent>>
    BY <1>12 DEF RecvGarbage, Reading
  <2>2. CASE OnlyGarbage
    <3>1. pc' = "metrics" /\ ping' = Off BY <1>12, <2>2 DEF RecvGarbage
    <3> QED BY <1>n, <2>1, <3>1 DEF SilenceInv, Streaming
  <2>3. CASE ~OnlyGarbage
    <3>1. pc' = "recv" /\ wait' = lane.idle /\ ping' = ping
      BY <1>12, <2>3 DEF RecvGarbage, Receive
    <3>2. decodeErrors \in Nat /\ decodeErrors' \in Nat /\ decodeErrors' + 1 <= MaxDecodeErrors
      BY <1>t, <1>u, <2>1, <2>3 DEF OnlyGarbage, Streaming
    <3>3. ASSUME Watched
          PROVE  wait' \in Nat /\ silent' \in Nat /\ silent' + wait' <= lane.idle * (decodeErrors' + 1)
      <4>1. /\ lane.idle \in Nat /\ wait \in Nat /\ silent \in Nat
            /\ silent + wait <= lane.idle * (decodeErrors + 1)
        BY <1>t, <2>1, <3>3 DEF SilenceInv, Watched, LaneConfig, Timeouts
      <4>2. decodeErrors + 1 <= MaxDecodeErrors BY <1>u, <2>1 DEF Streaming
      <4>3. /\ lane.idle * (decodeErrors + 1) \in Nat
            /\ lane.idle * (decodeErrors + 1 + 1) = lane.idle * (decodeErrors + 1) + lane.idle
        BY <1>t, <3>2, <4>1, <4>2, Limits
      <4>4. lane.idle * (decodeErrors' + 1) = lane.idle * (decodeErrors + 1) + lane.idle
        BY <2>1, <4>3
      <4> QED BY <2>1, <3>1, <4>1, <4>3, <4>4
    <3>4. ~lane.control => ping' = Off /\ wire'.kind # "control" BY <1>n, <2>1, <3>1 DEF SilenceInv
    <3> QED BY <2>1, <3>1, <3>2, <3>3, <3>4 DEF SilenceInv, Watched
  <2> QED BY <2>2, <2>3
<1>13. CASE CleanClose
  <2>1. /\ pc = "recv" /\ pc' \in {"sleep", "connect"} /\ wire' = None /\ ping' = Off
        /\ UNCHANGED <<lane, decodeErrors>>
    BY <1>13 DEF CleanClose
  <2> QED BY <1>a, <1>n, <2>1 DEF Streaming
<1>14. CASE IdleTimesOut \/ DeadlineReached \/ LimitReached
  <2>1. pc' = "metrics" /\ ping' = Off /\ UNCHANGED <<lane, wire>>
    BY <1>14 DEF IdleTimesOut, DeadlineReached, LimitReached, StreamEnds
  <2> QED BY <1>a, <2>1 DEF SilenceInv, Streaming
<1>15. CASE Wake
  <2>1. pc = "sleep" /\ pc' = "connect" /\ UNCHANGED <<lane, wire, ping, decodeErrors>>
    BY <1>15 DEF Wake
  <2> QED BY <1>a, <2>1 DEF SilenceInv, Streaming
<1>16. CASE WriteRaw \/ Rotate \/ RawRaises \/ Judge \/ JudgeRaises \/ PartialMetricsRaises
  <2>1. /\ pc \in {"raw", "judge", "after"} /\ pc' \in {"raw", "judge", "after", "metrics"}
        /\ UNCHANGED <<lane, wire, ping, decodeErrors, silent>>
    BY <1>16 DEF WriteRaw, Rotate, RawRaises, Judge, JudgeRaises, PartialMetricsRaises, WriteRaises,
         Writing
  <2> QED BY <1>a, <2>1 DEF SilenceInv, Streaming
<1>17. CASE NextFrame
  <2>1. /\ pc = "after" /\ silent' = silent /\ UNCHANGED <<lane, wire, ping, decodeErrors>>
        /\ \/ pc' = "pending"
           \/ pc' = "recv" /\ wait' = lane.idle
    BY <1>17 DEF NextFrame, Receive
  <2>2. silent' = 0 /\ pc \in Streaming /\ (~lane.control => ping' = Off /\ wire'.kind # "control")
    BY <2>1 DEF SilenceInv, Streaming
  <2>3. CASE pc' = "pending" BY <1>a, <2>1, <2>2, <2>3
  <2>4. CASE pc' = "recv" /\ wait' = lane.idle BY <2>1, <2>2, <2>4, WaitBegins
  <2> QED BY <2>1, <2>3, <2>4
<1>18. CASE WriteMetrics \/ CloseRaw \/ CloseClean \/ CloseQuarantine
  <2>1. pc' \in {"close raw", "close clean", "close quarantine", "closed"} /\ UNCHANGED <<lane, wire, ping>>
    BY <1>18 DEF WriteMetrics, CloseRaw, CloseClean, CloseQuarantine, CloseSink, Closing
  <2> QED BY <1>a, <2>1 DEF SilenceInv, Streaming
<1>19. CASE Score \/ SegmentError \/ Finished
  <2>1. pc' \in {"scored", "error", "finished"} /\ UNCHANGED <<lane, wire, ping>>
    BY <1>19 DEF Score, SegmentError, Finished
  <2> QED BY <1>a, <2>1 DEF SilenceInv, Streaming
<1>20. CASE NextSegment \/ Crash
  <2>1. pc' \in {"connect", "dead"} /\ wire' = None /\ ping' = Off /\ decodeErrors' = 0 /\ lane' = lane
    BY <1>20 DEF NextSegment, Crash, Forgotten
  <2> QED BY <1>n, <1>t, <2>1 DEF SilenceInv
<1>21. CASE Tick
  <2>1. /\ pc \in {"ack", "recv", "sleep"} /\ wait # 0 /\ ping # 0
        /\ wait' = Down(wait) /\ ping' = Down(ping)
        /\ silent' = IF pc = "recv" /\ lane.idle # Off THEN Up(silent, MostSilent) ELSE 0
        /\ UNCHANGED <<lane, pc, wire, decodeErrors>>
    BY <1>21 DEF Tick
  <2>2. ~lane.control => ping' = Off /\ wire'.kind # "control" BY <2>1 DEF SilenceInv, Down
  <2>3. CASE pc = "recv" /\ Watched
    <3>1. /\ lane.idle \in Nat /\ wait \in Nat /\ silent \in Nat
          /\ silent + wait <= lane.idle * (decodeErrors + 1)
      BY <1>t, <2>3 DEF SilenceInv, Watched, LaneConfig, Timeouts
    <3>2. decodeErrors \in Nat /\ decodeErrors + 1 <= MaxDecodeErrors BY <1>u, <2>3 DEF Streaming
    <3>3. lane.idle * (decodeErrors + 1) \in Nat BY <1>t, <3>1, <3>2, Limits
    <3>4. MostSilent \in Nat BY <1>t, <3>1 DEF MostSilent
    <3>5. silent' = IF silent + 1 <= MostSilent THEN silent + 1 ELSE MostSilent
      BY <2>1, <2>3 DEF Up, Least, Watched
    <3>6. silent' \in Nat /\ silent' <= silent + 1 BY <3>1, <3>4, <3>5
    <3>7. wait' = wait - 1 /\ wait' \in Nat BY <2>1, <3>1 DEF Down, Off
    <3>8. silent' + wait' <= lane.idle * (decodeErrors + 1) BY <3>1, <3>3, <3>6, <3>7
    <3> QED BY <2>1, <2>2, <2>3, <3>2, <3>6, <3>7, <3>8 DEF SilenceInv, Watched
  <2>4. CASE ~(pc = "recv" /\ Watched)
    BY <1>u, <2>1, <2>2, <2>4 DEF SilenceInv, Watched
  <2> QED BY <2>3, <2>4
<1>22. CASE UNCHANGED vars
  <2>1. UNCHANGED <<lane, pc, decodeErrors, wait, silent, ping, wire>> BY <1>22 DEF vars
  <2> QED BY <1>b, <2>1 DEF SilenceInv
<1> QED
  BY <1>1, <1>2, <1>4, <1>6, <1>7, <1>8, <1>9, <1>10, <1>11, <1>12, <1>13, <1>14, <1>15, <1>16,
     <1>17, <1>18, <1>19, <1>20, <1>21, <1>22
  DEF Next, Process, Collector, Pipeline, Worker, Rest

\* A watched feed without control frames that falls silent ends its segment after its limit,
\* each undecodable frame in a row putting the end off by one limit more (generic_ws.py: the
\* idle timeout, and the run of decode errors that ends the stream).
THEOREM SilentFeedsEnd == Spec => []SilenceEndsSegment
<1>1. Init => TypeOK /\ SilenceInv BY InitTyped, InitSilence
<1>2. TypeOK /\ SilenceInv /\ [Next]_vars => (TypeOK /\ SilenceInv)' BY StepTyped, StepSilence
<1>3. TypeOK /\ SilenceInv => SilenceEndsSegment
  <2> SUFFICES ASSUME TypeOK, SilenceInv, pc = "recv", Watched
               PROVE  silent <= lane.idle * MaxDecodeErrors
    BY DEF SilenceEndsSegment, Watched
  <2>1. lane \in LaneConfig /\ MaxDecodeErrors \in Nat BY SegmentAssumption DEF TypeOK
  <2>2. lane.idle \in Nat BY <2>1 DEF LaneConfig, Timeouts, Watched
  <2>3. decodeErrors \in Nat /\ decodeErrors + 1 <= MaxDecodeErrors BY DEF SilenceInv, Streaming
  <2>4. /\ wait \in Nat /\ silent \in Nat
        /\ silent + wait <= lane.idle * (decodeErrors + 1)
    BY DEF SilenceInv
  <2>5. /\ lane.idle * (decodeErrors + 1) \in Nat
        /\ lane.idle * (decodeErrors + 1) <= lane.idle * MaxDecodeErrors
    BY <2>1, <2>2, <2>3, Limits
  <2>6. lane.idle * MaxDecodeErrors \in Nat BY <2>1, <2>2
  <2> QED BY <2>4, <2>5, <2>6
<1> QED BY <1>1, <1>2, <1>3, PTL DEF Spec
=============================================================================
