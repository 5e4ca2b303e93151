------------------------------- MODULE Canary --------------------------------
(* The bounded canary (canary.py): lane workers share an allowance of bytes. *)
(* A worker claims a grant for each segment, reserves bytes before it writes *)
(* them, and closes the grant with a receipt; an operator stops the attempt  *)
(* and finalizes it.  Every transaction on the ledger (SQLite, BEGIN         *)
(* IMMEDIATE) is one step.  What a transaction may do to a dead worker's     *)
(* grant it does from the pid and the creation time in its row, which is     *)
(* what holder stands for: a process that ended holds no grant.              *)
EXTENDS Integers, FiniteSets

CONSTANTS
    Workers,      \* processes at a time
    Streams,      \* the stream lanes
    Snapshots,    \* the lanes that archive one snapshot
    Nobody,       \* the holder of an ended process's grant
    MaxGrants,    \* max_grants
    Pool,         \* max_bytes - metadata_bytes
    Chunk,        \* CHUNK_BYTES
    Margin,       \* FRAME_MARGIN_BYTES
    Overhead,     \* SEGMENT_OVERHEAD_BYTES
    Snapshot,     \* SNAPSHOT_RESERVE_BYTES
    MaxFrame,     \* bound: what one frame comes to on disk
    MaxFaults     \* bound: crashes and raising calls

ASSUME NobodyAssumption == Nobody \notin Workers
ASSUME LanesAssumption ==
    IsFiniteSet(Streams \cup Snapshots) /\ Streams \cap Snapshots = {}
ASSUME BytesAssumption ==
    /\ Pool \in Nat /\ Chunk \in Nat /\ Margin \in Nat \ {0} /\ Margin <= Chunk
    /\ Overhead \in Nat /\ Snapshot \in Nat /\ MaxFrame \in Nat
ASSUME BoundsAssumption == MaxGrants \in Nat /\ MaxFaults \in Nat

VARIABLES
    stopped, finalized,    \* stopped and finalized_utc of the attempt
    expired,               \* the deadline has passed
    open, closed,          \* the grants with a row, by closed_utc
    lane, reserved,        \* of each row
    consumed,              \* of each closed row: the bytes it is charged
    located,               \* rows with a run_path
    verified,              \* rows with a receipt
    holder,                \* the process of each open grant
    disk,                  \* bytes in the run directory of each grant
    receipts,              \* grants whose receipt file is whole
    stage, mine,           \* of each worker: where it is, and its grant
    operator, listed,      \* finalize(): where it is, the grants it read
    final,                 \* receipt.json
    faults

attemptVars == <<stopped, finalized, expired>>
ledgerVars == <<open, closed, lane, reserved, consumed, located, verified, holder>>
fileVars == <<disk, receipts>>
workerVars == <<stage, mine>>
finalVars == <<operator, listed, final>>
vars == <<attemptVars, ledgerVars, fileVars, workerVars, finalVars, faults>>

Grants == 1..MaxGrants
Lanes == Streams \cup Snapshots
Writing == {"claimed", "frame", "write", "end", "close", "receipted", "bare"}

TypeOK ==
    /\ stopped \in BOOLEAN /\ finalized \in BOOLEAN /\ expired \in BOOLEAN
    /\ open \subseteq Grants /\ closed \subseteq Grants
    /\ lane \in [Grants -> Lanes \cup {Nobody}]
    /\ reserved \in [Grants -> Nat] /\ consumed \in [Grants -> Nat]
    /\ located \subseteq Grants /\ verified \subseteq Grants
    /\ holder \in [Grants -> Workers \cup {Nobody}]
    /\ disk \in [Grants -> Nat] /\ receipts \subseteq Grants
    /\ stage \in [Workers -> {"off"} \cup Writing] /\ mine \in [Workers -> Nat]
    /\ \A w \in Workers : stage[w] # "off" => mine[w] \in Grants
    /\ operator \in {"idle", "settled", "listed", "written"} /\ listed \subseteq Grants
    /\ final \in {"none", "torn", "whole"}
    /\ faults \in 0..MaxFaults

Init ==
    /\ stopped = FALSE /\ finalized = FALSE /\ expired = FALSE
    /\ open = {} /\ closed = {}
    /\ lane = [g \in Grants |-> Nobody]
    /\ reserved = [g \in Grants |-> 0] /\ consumed = [g \in Grants |-> 0]
    /\ located = {} /\ verified = {} /\ holder = [g \in Grants |-> Nobody]
    /\ disk = [g \in Grants |-> 0] /\ receipts = {}
    /\ stage = [w \in Workers |-> "off"] /\ mine = [w \in Workers |-> 0]
    /\ operator = "idle" /\ listed = {} /\ final = "none"
    /\ faults = 0

-----------------------------------------------------------------------------
(* The ledger.                                                              *)

Least(a, b) == IF a < b THEN a ELSE b

\* SUM over the rows G, as the number of bytes that bytes[g] for g \in G name: a
\* count, unlike a fold, is within the reach of a proof.
SumOf(bytes, G) == Cardinality(UNION {{g} \X (1..bytes[g]) : g \in G})

\* _committed_bytes and _closed_consumed.
Committed(opened, charge) == SumOf(reserved, opened) + SumOf(charge, Grants \ opened)
ClosedConsumed(charge) == SumOf(charge, Grants)

OpenOn(l) == {g \in open : lane[g] = l}
Abandoned(G) == \A g \in G : holder[g] = Nobody

\* Mutant: an abandoned grant is charged its column accounted, 0 until close().
ChargedAccounted(G) == consumed

\* _reconcile_open_grants charges an abandoned grant what measure_run finds at the
\* run_path of its row.
Charged(G) ==
    [g \in Grants |-> IF g \in G THEN IF g \in located THEN disk[g] ELSE 0
                      ELSE consumed[g]]

\* Mutant: an open grant is taken for a dead one whoever holds it.
ReconcileUnasked(G) == closed' = closed \cup G /\ consumed' = Charged(G)

\* A grant that is held by a process, or by one it cannot tell, blocks.
Reconcile(G) ==
    /\ Abandoned(G)
    /\ closed' = closed \cup G /\ consumed' = Charged(G)

FirstBytes(l) == IF l \in Streams THEN Chunk + Overhead ELSE Snapshot

Issued == Cardinality(open \cup closed)

GoesTo(w, s) == stage' = [stage EXCEPT ![w] = s]
Leaves(w) == GoesTo(w, "off") /\ mine' = [mine EXCEPT ![w] = 0]

MayIssue == Issued < MaxGrants

\* Mutant: only what closed grants have consumed is taken.
FitsClosed(l, opened, charge) == Pool - ClosedConsumed(charge) >= FirstBytes(l)

Fits(l, opened, charge) == Pool - Committed(opened, charge) >= FirstBytes(l)

\* A new process, or the one that holds the lane's last grant, asks for the next.
Asks(w, l) ==
    /\ stage[w] = "off"
    /\ \A g \in open : holder[g] = w => lane[g] = l

\* _claim: the lane's dead grants are closed, and its next one is opened.
Claim(w, l) ==
    /\ Asks(w, l)
    /\ ~stopped /\ ~expired
    /\ Reconcile(OpenOn(l))
    /\ MayIssue
    /\ Fits(l, open \ OpenOn(l), consumed')
    /\ LET g == Issued + 1
       IN /\ open' = (open \ OpenOn(l)) \cup {g}
          /\ lane' = [lane EXCEPT ![g] = l]
          /\ reserved' = [reserved EXCEPT ![g] = FirstBytes(l)]
          /\ holder' = [holder EXCEPT ![g] = w]
          /\ mine' = [mine EXCEPT ![w] = g]
    /\ GoesTo(w, "claimed")
    /\ UNCHANGED <<attemptVars, located, verified, fileVars, finalVars, faults>>

\* A claim at the deadline stops the attempt before it looks at the grants; one
\* past the ceiling, or with too little left by what is closed, stops it after.
ClaimStops(w, l) ==
    /\ Asks(w, l)
    /\ ~stopped /\ stopped' = TRUE
    /\ \/ expired /\ UNCHANGED <<open, closed, consumed>>
       \/ /\ ~expired
          /\ Reconcile(OpenOn(l)) /\ open' = open \ OpenOn(l)
          /\ Issued >= MaxGrants \/ Pool - ClosedConsumed(consumed') < FirstBytes(l)
    /\ UNCHANGED <<finalized, expired, lane, reserved, located, verified, holder, fileVars,
                   workerVars, finalVars, faults>>

-----------------------------------------------------------------------------
(* A segment of a stream lane.                                              *)

\* bind_run puts the run directory into the row before any file is written; when
\* it cannot, the first admission ends the segment.
Bind(w) ==
    /\ stage[w] = "claimed" /\ lane[mine[w]] \in Streams
    /\ \/ GoesTo(w, "frame") /\ located' = located \cup {mine[w]} /\ UNCHANGED faults
       \/ /\ faults < MaxFaults /\ faults' = faults + 1
          /\ GoesTo(w, "end") /\ UNCHANGED located
    /\ UNCHANGED <<attemptVars, open, closed, lane, reserved, consumed, verified, holder,
                   fileVars, mine, finalVars>>

\* While frames come, the accounted bytes are those on disk.
Covered(w) == reserved[mine[w]] - disk[mine[w]] >= Margin + Overhead

\* admit_frame: the clock is looked at for each frame; the ledger once a second,
\* which adds a refusal to what EndSegment allows, and for each new chunk.
Admit(w) ==
    /\ stage[w] = "frame" /\ ~expired
    /\ \/ Covered(w) /\ UNCHANGED reserved
       \/ /\ ~Covered(w) /\ ~stopped
          /\ \E chunk \in Margin..Chunk :
                /\ chunk = Least(Chunk, Pool - Committed(open, consumed))
                /\ reserved' = [reserved EXCEPT ![mine[w]] = @ + chunk]
    /\ GoesTo(w, "write")
    /\ UNCHANGED <<attemptVars, open, closed, lane, consumed, located, verified, holder,
                   fileVars, mine, finalVars, faults>>

\* The clock, the deadline or the free space stops the attempt for good; a mark
\* that cannot be written leaves that to the next claim.
AdmitStops(w) ==
    /\ stage[w] = "frame"
    /\ stopped' \in {stopped, TRUE}
    /\ GoesTo(w, "end")
    /\ UNCHANGED <<finalized, expired, ledgerVars, fileVars, mine, finalVars, faults>>

\* The sinks write the frame, and consumed() ends the segment when the grant is
\* overshot.
WriteFrame(w, n) ==
    /\ stage[w] = "write"
    /\ disk' = [disk EXCEPT ![mine[w]] = @ + n]
    /\ GoesTo(w, IF disk'[mine[w]] > reserved[mine[w]] THEN "end" ELSE "frame")
    /\ UNCHANGED <<attemptVars, ledgerVars, receipts, mine, finalVars, faults>>

\* The feed or the deadline ends it, an exception, or a refusal of admit_frame,
\* which may come after it has reserved.
EndSegment(w) ==
    /\ stage[w] \in {"frame", "write"}
    /\ GoesTo(w, "end")
    /\ UNCHANGED <<attemptVars, ledgerVars, fileVars, mine, finalVars, faults>>

\* The last metrics row and the replay summary.
FinishRun(w, n) ==
    /\ stage[w] = "end"
    /\ disk' = [disk EXCEPT ![mine[w]] = @ + n]
    /\ GoesTo(w, "close")
    /\ UNCHANGED <<attemptVars, ledgerVars, receipts, mine, finalVars, faults>>

\* A snapshot lane archives its bodies; its row has no run_path until close().
TakeSnapshot(w, n) ==
    /\ stage[w] = "claimed" /\ lane[mine[w]] \in Snapshots
    /\ disk' = [disk EXCEPT ![mine[w]] = n]
    /\ GoesTo(w, "close")
    /\ UNCHANGED <<attemptVars, ledgerVars, receipts, mine, finalVars, faults>>

(* close(): the receipt, then the row.                                      *)

WriteReceipt(w) ==
    /\ stage[w] = "close"
    /\ \/ receipts' = receipts \cup {mine[w]} /\ GoesTo(w, "receipted") /\ UNCHANGED faults
       \/ /\ faults < MaxFaults /\ faults' = faults + 1
          /\ GoesTo(w, "bare") /\ UNCHANGED receipts
    /\ UNCHANGED <<attemptVars, ledgerVars, disk, mine, finalVars>>

\* Mutant: the row is closed before the receipt is written.
CloseRowFirst(w) ==
    /\ stage[w] = "close"
    /\ open' = open \ {mine[w]} /\ closed' = closed \cup {mine[w]}
    /\ consumed' = [consumed EXCEPT ![mine[w]] = disk[mine[w]]]
    /\ located' = located \cup {mine[w]} /\ verified' = verified \cup {mine[w]}
    /\ holder' = [holder EXCEPT ![mine[w]] = Nobody]
    /\ GoesTo(w, "receipted")
    /\ UNCHANGED <<attemptVars, lane, reserved, fileVars, mine, finalVars, faults>>

\* UPDATE ... WHERE closed_utc IS NULL; close() is called once for a grant, so its
\* receipt is not there before.
CloseRow(w) ==
    /\ stage[w] \in {"receipted", "bare"}
    /\ LET g == mine[w]
       IN IF g \in open
          THEN /\ open' = open \ {g} /\ closed' = closed \cup {g}
               /\ consumed' = [consumed EXCEPT ![g] = disk[g]]
               /\ located' = located \cup {g}
               /\ verified' = IF stage[w] = "receipted" THEN verified \cup {g} ELSE verified
               /\ holder' = [holder EXCEPT ![g] = Nobody]
          ELSE UNCHANGED <<open, closed, consumed, located, verified, holder>>
    /\ Leaves(w)
    /\ UNCHANGED <<attemptVars, lane, reserved, fileVars, finalVars, faults>>

\* The ledger stays busy: the exception is logged, and the worker goes on with
\* its grant open.
CloseRowFails(w) ==
    /\ stage[w] \in {"receipted", "bare"}
    /\ faults < MaxFaults /\ faults' = faults + 1
    /\ Leaves(w)
    /\ UNCHANGED <<attemptVars, ledgerVars, fileVars, finalVars>>

\* A process ends: by itself between two segments, killed or terminated anywhere.
Exit(w) ==
    /\ holder' = [g \in Grants |-> IF holder[g] = w THEN Nobody ELSE holder[g]]
    /\ \/ stage[w] = "off" /\ holder' # holder /\ UNCHANGED faults
       \/ stage[w] # "off" /\ faults < MaxFaults /\ faults' = faults + 1
    /\ Leaves(w)
    /\ UNCHANGED <<attemptVars, open, closed, lane, reserved, consumed, located, verified,
                   fileVars, finalVars>>

-----------------------------------------------------------------------------
(* The operator.                                                            *)

\* stop --apply; --terminate ends a recorded writer, as Exit does.
Stop ==
    /\ stopped' = TRUE
    /\ UNCHANGED <<finalized, expired, ledgerVars, fileVars, workerVars, finalVars, faults>>

\* max_seconds after the first grant.
Expire ==
    /\ Issued > 0
    /\ expired' = TRUE
    /\ UNCHANGED <<stopped, finalized, ledgerVars, fileVars, workerVars, finalVars, faults>>

\* Mutant: what blocks is not looked at; the dead grants are closed.
SettleDead ==
    /\ operator = "idle" /\ final = "none" /\ ~finalized
    /\ stopped \/ expired
    /\ LET dead == {g \in open : holder[g] = Nobody}
       IN Reconcile(dead) /\ open' = open \ dead
    /\ stopped' = TRUE
    /\ operator' = "settled"
    /\ UNCHANGED <<finalized, expired, lane, reserved, located, verified, holder, fileVars,
                   workerVars, listed, final, faults>>

\* finalize() refuses when receipt.json is there, when the attempt is not
\* terminal, and when a grant's process is not provably gone.
Settle ==
    /\ operator = "idle" /\ final = "none" /\ ~finalized
    /\ stopped \/ expired
    /\ Reconcile(open) /\ open' = {}
    /\ stopped' = TRUE
    /\ operator' = "settled"
    /\ UNCHANGED <<finalized, expired, lane, reserved, located, verified, holder, fileVars,
                   workerVars, listed, final, faults>>

\* The ledger is read again, in a transaction of its own.
ListGrants ==
    /\ operator = "settled"
    /\ listed' = open \cup closed
    /\ operator' = "listed"
    /\ UNCHANGED <<attemptVars, ledgerVars, fileVars, workerVars, final, faults>>

\* receipt.json is created for this finalize() or not at all, and may stay torn.
WriteFinal ==
    /\ operator = "listed"
    /\ \/ final = "none" /\ final' = "whole" /\ operator' = "written" /\ UNCHANGED faults
       \/ /\ final = "none" /\ faults < MaxFaults /\ faults' = faults + 1
          /\ final' = "torn" /\ operator' = "idle"
    /\ UNCHANGED <<attemptVars, ledgerVars, fileVars, workerVars, listed>>

MarkFinalized ==
    /\ operator = "written"
    /\ finalized' = TRUE /\ operator' = "idle"
    /\ UNCHANGED <<stopped, expired, ledgerVars, fileVars, workerVars, listed, final, faults>>

FinalizeDies ==
    /\ operator # "idle"
    /\ faults < MaxFaults /\ faults' = faults + 1
    /\ operator' = "idle"
    /\ UNCHANGED <<attemptVars, ledgerVars, fileVars, workerVars, listed, final>>

-----------------------------------------------------------------------------
Segment(w) ==
    \/ Bind(w) \/ Admit(w) \/ AdmitStops(w) \/ EndSegment(w)
    \/ \E n \in 1..MaxFrame : WriteFrame(w, n)
    \/ \E n \in 0..Overhead : FinishRun(w, n)
    \/ \E n \in 0..Snapshot : TakeSnapshot(w, n)
    \/ WriteReceipt(w) \/ CloseRow(w) \/ CloseRowFails(w)

Operator == Stop \/ Settle \/ ListGrants \/ WriteFinal \/ MarkFinalized \/ FinalizeDies

Next ==
    \/ \E w \in Workers : \/ \E l \in Lanes : Claim(w, l) \/ ClaimStops(w, l)
                          \/ Segment(w) \/ Exit(w)
    \/ Operator
    \/ Expire

Spec == Init /\ [][Next]_vars

-----------------------------------------------------------------------------
(* Safety.                                                                  *)

\* Not more than one live process writes for a lane, although nothing else keeps a
\* second worker of the lane out: the open row of the first one does.
OneWriterPerLane ==
    \A v, w \in Workers :
        stage[v] \in Writing /\ stage[w] \in Writing /\ lane[mine[v]] = lane[mine[w]]
            => v = w

\* What a frame beyond the margin, and the rows that end its run, may come to.
Slop == IF MaxFrame > Margin THEN MaxFrame - Margin + Overhead ELSE 0

\* "the pool can never be overbooked": what the runs that the ledger can find hold
\* is within the pool, but for the last frame of each open grant; no interleaving
\* of claims, chunks, closes and deaths counts a byte as free that may be written.
PoolHolds ==
    SumOf(disk, open \cup located) <= Pool + Cardinality(Lanes) * Slop

\* A closed grant is charged the bytes of its run, whoever closed it, and nothing
\* is written to the run after that.
ClosedIsCharged == \A g \in closed \cap located : consumed[g] = disk[g]

\* A row names a receipt only when the file is there.
ReceiptBeforeRow == verified \subseteq receipts

\* Both at once: a closed row tells the truth, whichever transaction closed it.
ClosedRowsAreTrue == ClosedIsCharged /\ ReceiptBeforeRow

\* "Once receipt.json is there": it has every grant, all are closed, and no grant,
\* row, receipt or byte comes after it.
FinalIsFinal ==
    [][final = "whole" =>
         /\ listed = closed /\ open = {}
         /\ UNCHANGED <<open, closed, consumed, verified, disk, receipts>>]_vars
=============================================================================
