------------------------------ MODULE DepthLane ------------------------------
(***************************************************************************)
(* One order-book lane, from the venue to the curation verdict.            *)
(*                                                                         *)
(* A venue changes a book and pushes what changed; a collector records the *)
(* frames of one run; the replay scorer folds the recorded rows into a     *)
(* book and says whether the run is replayable.  Two families share the    *)
(* last step:                                                              *)
(*   - "rest" (Binance): the snapshot comes over REST and has to be        *)
(*     bridged by a buffered delta; a broken socket is reopened in place,  *)
(*     against the same snapshot (cli.py, replay_depth_run);               *)
(*   - the in-stream snapshot venues, whose socket opens with a snapshot:  *)
(*     "dense" (Bybit's +1 id), "chain" (OKX's prevSeqId/seqId),           *)
(*     "checksum" (Kraken's CRC over a depth-bounded book), "full" (MEXC,  *)
(*     every frame a whole book) and "none" (Coinbase), all scored by      *)
(*     replay_depth_stream_run.                                            *)
(*                                                                         *)
(* The scorer reads the file after the run; here it is folded row by row,  *)
(* so that every prefix a crash may leave is scored as well.  One side of  *)
(* the book is modelled: a level is its rank, 1 the best price.  Sizes are *)
(* what tells two books apart.  A crossed book is reported and gates       *)
(* nothing, so it is left out.                                             *)
(***************************************************************************)
EXTENDS Integers, Sequences, FiniteSets, FiniteSetsExt

CONSTANTS
    Modes,         \* the lanes to look at
    Depth,         \* levels of the side, 1 the best
    Published,     \* levels a checksum venue publishes (_KRAKEN_BOOK_DEPTH)
    MaxUpdates,    \* bound: updates the venue makes
    MaxInFlight,   \* bound: frames between the venue and the collector
    MaxFaults,     \* bound: frames lost, repeated, swapped or garbled
    MaxDrops,      \* bound: connections that break
    MaxFetches,    \* max_snapshot_fetches
    MaxAttempts    \* connect_retries

AllModes == {"rest", "dense", "chain", "checksum", "full", "none"}

ASSUME DepthLaneAssumption ==
    /\ Modes \subseteq AllModes
    /\ Depth \in Nat \ {0} /\ Published \in 1..Depth
    /\ MaxUpdates \in Nat /\ MaxInFlight \in Nat \ {0}
    /\ MaxFaults \in Nat /\ MaxDrops \in Nat
    /\ MaxFetches \in Nat \ {0} /\ MaxAttempts \in Nat \ {0}

Levels == 1..Depth
Book == [Levels -> {0, 1}]
EmptyBook == [l \in Levels |-> 0]
None == -1
NoSnapshot == [id |-> None, book |-> EmptyBook]
Idle == [state |-> "idle", answer |-> NoSnapshot]
Asked == [state |-> "asked", answer |-> NoSnapshot]

VARIABLES
    mode,      \* the lane's kind, fixed in Init
    venue,     \* the venue: [id, book], the id of its last update
    past,      \* history: the venue's book at each id it has had
    sock,      \* "up" or "down"
    wire,      \* frames on their way
    phase,     \* "opening", "streaming", "reopening", "done" or "dead"
    buffer,    \* frames read while (re)opening
    fetch,     \* the REST request: "idle", "asked" or "here", and its answer
    fetches,   \* REST requests of this connection attempt
    snapshot,  \* the REST snapshot in use; id None before there is one
    lastSeen,  \* last_seen_final_update_id
    attempts,  \* reconnect_attempts, or the open attempts that failed
    score,     \* the scorer over the rows recorded so far
    bridged,   \* history: the run's first row bridges its snapshot
    blind,     \* history: a reopening saw no frame newer than the run
    faults, drops

collector == <<phase, buffer, fetch, fetches, snapshot, lastSeen, attempts>>
history == <<bridged, blind>>
vars == <<mode, venue, past, sock, wire, collector, score, history, faults, drops>>

(***************************************************************************)
(* Books.                                                                  *)
(***************************************************************************)

\* _apply_levels: absolute sizes, and size 0 removes the level.
ApplyLevels(book, levels) ==
    [l \in Levels |-> IF l \in DOMAIN levels THEN levels[l] ELSE book[l]]

\* _trim_book: the n best levels of a book.
TrimBook(book, n) ==
    [l \in Levels |->
        IF Cardinality({k \in 1..(l - 1) : book[k] > 0}) < n THEN book[l] ELSE 0]

BookFromSnapshot(levels) == ApplyLevels(EmptyBook, levels)

\* What a venue's subscribers hold: all of the book, or its best levels.
Visible(book) == IF mode = "checksum" THEN TrimBook(book, Published) ELSE book

(***************************************************************************)
(* The venue (external) and its frames.  A frame of levels that enter,     *)
(* change or are deleted; a checksum venue sends nothing for a level that  *)
(* a better one pushed out.  An update advances the id by one, or by two   *)
(* where ids only have to link (rest, chain); a chain venue also sends     *)
(* empty frames that leave the id where it is.                             *)
(***************************************************************************)

Steps == CASE mode = "rest" -> {1, 2} [] mode = "chain" -> {0, 1, 2} [] OTHER -> {1}

Changed(old, new) ==
    LET shown == Visible(new)
        sent == {l \in Levels : /\ Visible(old)[l] # shown[l]
                                /\ shown[l] > 0 \/ new[l] = 0}
    IN [l \in sent |-> shown[l]]

Delta(old, new) ==
    [kind |-> "delta", prev |-> old.id, id |-> new.id,
     levels |-> Changed(old.book, new.book), top |-> Visible(new.book), bad |-> FALSE]

SnapshotFrame(v) ==
    [kind |-> "snapshot", prev |-> None, id |-> v.id,
     levels |-> Visible(v.book), top |-> Visible(v.book), bad |-> FALSE]

VenueUpdate ==
    /\ \E k \in Steps, l \in Levels, size \in {0, 1} :
        LET new == [id |-> venue.id + k,
                    book |-> IF k = 0 THEN venue.book ELSE [venue.book EXCEPT ![l] = size]]
        IN /\ new.id <= MaxUpdates
           /\ k > 0 => size # venue.book[l]
           /\ k = 0 => l = 1 /\ size = 0 /\ sock = "up"
           /\ venue' = new
           /\ past' = [i \in {new.id} \cup DOMAIN past |->
                           IF i = new.id THEN new.book ELSE past[i]]
           /\ IF sock = "up"
              THEN /\ Len(wire) < MaxInFlight
                   /\ wire' = Append(wire, IF mode = "full" THEN SnapshotFrame(new)
                                           ELSE Delta(venue, new))
              ELSE wire' = wire
    /\ phase \notin {"done", "dead"}
    /\ UNCHANGED <<mode, sock, collector, score, history, faults, drops>>

(***************************************************************************)
(* What the wire may do to a frame: lose it, repeat it, let the next one   *)
(* overtake it, or garble a level so that the normalizer reports a parse   *)
(* error.                                                                  *)
(***************************************************************************)

Fault ==
    /\ faults < MaxFaults /\ wire # <<>>
    /\ \/ wire' = Tail(wire)
       \/ wire' = <<Head(wire)>> \o wire
       \/ Len(wire) > 1 /\ wire' = <<wire[2], wire[1]>> \o SubSeq(wire, 3, Len(wire))
       \/ ~wire[1].bad /\ wire' = [wire EXCEPT ![1].bad = TRUE]
    /\ faults' = faults + 1
    /\ UNCHANGED <<mode, venue, past, sock, collector, score, history, drops>>

(***************************************************************************)
(* The row the normalizers make of a frame: which ids survive, and whether *)
(* there is an exchange time (a snapshot of a REST, checksum or none venue *)
(* has none).  The venue's clock is its id.                                *)
(***************************************************************************)

PlainRow(frame) ==
    [snap |-> frame.kind = "snapshot", first |-> None, final |-> None, uid |-> None,
     time |-> frame.id, crc |-> EmptyBook, levels |-> frame.levels]

\* A snapshot frame of these two carries no exchange time.
Untimed(row) == IF row.snap THEN [row EXCEPT !.time = None] ELSE row

BinanceRow(frame) == [PlainRow(frame) EXCEPT !.first = frame.prev + 1, !.final = frame.id]
BybitRow(frame) == [PlainRow(frame) EXCEPT !.uid = frame.id]
OkxRow(frame) == [PlainRow(frame) EXCEPT !.first = frame.prev, !.final = frame.id]
KrakenRow(frame) == Untimed([PlainRow(frame) EXCEPT !.crc = frame.top])
CoinbaseRow(frame) == Untimed(PlainRow(frame))
MexcRow(frame) == PlainRow(frame)

Row(frame) ==
    CASE mode = "rest" -> BinanceRow(frame) [] mode = "dense" -> BybitRow(frame)
      [] mode = "chain" -> OkxRow(frame) [] mode = "checksum" -> KrakenRow(frame)
      [] mode = "full" -> MexcRow(frame) [] mode = "none" -> CoinbaseRow(frame)

\* MetadataQualityGate.validate: parse errors keep an event out of clean/.
Accepted(frame) == ~frame.bad

(***************************************************************************)
(* The scorers.  A score is what the loop carries from row to row, with    *)
(* the counters kept as the set of the findings they raise.                *)
(***************************************************************************)

NoScore == [events |-> FALSE, opens |-> FALSE, anchored |-> FALSE, prev |-> None,
            time |-> None, book |-> EmptyBook, curated |-> EmptyBook,
            findings |-> {}, diverged |-> FALSE]

\* replay_depth_run, one row.  `base' is snapshot_last_update_id.
RestScored(s, r, base) ==
    LET skipped == ~s.anchored /\ r.final <= base
        found == IF ~s.anchored
                 THEN IF r.first > base + 1 THEN {"snapshot_anchor_gap"} ELSE {}
                 ELSE IF r.final <= s.prev THEN {"reordered_or_duplicate_updates"}
                 ELSE IF r.first > s.prev + 1 THEN {"gaps_detected"} ELSE {}
    IN IF skipped THEN [s EXCEPT !.events = TRUE]
       ELSE [s EXCEPT !.events = TRUE, !.anchored = TRUE,
                      !.prev = IF s.anchored /\ r.final <= @ THEN @ ELSE r.final,
                      !.findings = @ \cup found,
                      !.book = ApplyLevels(@, r.levels)]

\* Mutant: a jump of the id is not a gap.
DenseFindingsNoGap(s, r) ==
    IF ~r.snap /\ s.prev # None /\ r.uid <= s.prev THEN {"non_monotonic_update_id"} ELSE {}

\* Mutant: the jump to a new anchor is a gap.
DenseFindingsAcross(s, r) ==
    IF s.prev # None /\ r.uid > s.prev + 1 THEN {"update_id_gaps"} ELSE {}

\* The dense id rule of replay_depth_stream_run.
DenseFindings(s, r) ==
    IF r.snap \/ s.prev = None THEN {}
    ELSE IF r.uid <= s.prev THEN {"non_monotonic_update_id"}
    ELSE IF r.uid > s.prev + 1 THEN {"update_id_gaps"} ELSE {}

\* The linked sequence rule.
ChainFindings(s, r) ==
    IF r.snap \/ s.prev = None THEN {}
    ELSE IF r.final < s.prev THEN {"non_monotonic_update_id"}
    ELSE IF r.first # s.prev THEN {"update_id_gaps"} ELSE {}

\* The checksum rule, over the book after the row.
ChecksumFindings(book, r) ==
    IF TrimBook(book, Published) # r.crc THEN {"checksum_mismatch"} ELSE {}

TimeFindings(s, r) ==
    IF r.time # None /\ s.time # None /\ r.time < s.time
    THEN {"non_monotonic_event_time"} ELSE {}

\* The book after a row of a depth-bounded venue is cut to its best levels.
Bounded(book) == IF mode = "checksum" THEN TrimBook(book, Published) ELSE book

StreamBook(s, r) ==
    Bounded(IF r.snap THEN BookFromSnapshot(r.levels) ELSE ApplyLevels(s.book, r.levels))

\* replay_depth_stream_run, one row.
StreamScored(s, r) ==
    LET book == StreamBook(s, r)
        id == CASE mode = "dense" -> r.uid [] mode = "chain" -> r.final [] OTHER -> None
        found == CASE mode = "dense" -> DenseFindings(s, r)
                   [] mode = "chain" -> ChainFindings(s, r)
                   [] mode = "checksum" -> ChecksumFindings(book, r)
                   [] OTHER -> {}
    IN [s EXCEPT !.events = TRUE,
                 !.opens = IF s.events THEN @ ELSE r.snap,
                 !.prev = id,
                 !.time = IF r.time = None \/ r.time < @ THEN @ ELSE r.time,
                 !.findings = @ \cup found \cup TimeFindings(s, r),
                 !.book = book]

\* The verdict of a run with these rows.
RestReplayable == score.events /\ score.findings = {}
StreamReplayable == score.events /\ score.opens /\ score.findings = {}
Replayable == IF mode = "rest" THEN RestReplayable ELSE StreamReplayable

\* History: does the reconstructed book differ from the venue's book at the
\* id the row was sent with?
Diverges(s, frame, base) ==
    IF mode = "rest"
    THEN s.book # past[IF s.anchored THEN s.prev ELSE base]
    ELSE s.book # Visible(past[frame.id])

\* One frame through the normalizer, the gate and the scorer.
Recorded(s, frame, base) ==
    LET t == IF mode = "rest" THEN RestScored(s, Row(frame), base)
                              ELSE StreamScored(s, Row(frame))
    IN IF ~Accepted(frame) THEN s
       ELSE [t EXCEPT !.curated = IF mode = "rest" THEN ApplyLevels(@, frame.levels) ELSE @,
                      !.diverged = @ \/ Diverges(t, frame, base)]

(***************************************************************************)
(* _process_batch: record the frames in order; the count or the deadline   *)
(* may end the segment after any of them.  The cursor follows the raw      *)
(* frames, those the gate turned away included.                            *)
(***************************************************************************)

\* The score of a run that had the score s, after the first n frames of a batch.
ScoreAfter(batch, n, s, base) ==
    LET after[i \in 0..n] ==
            IF i = 0 THEN s ELSE Recorded(after[i - 1], batch[i], base)
    IN after[n]

Process(batch, s, base, seen) ==
    \E n \in 0..Len(batch) :
        /\ n = 0 => batch = <<>>
        /\ score' = ScoreAfter(batch, n, s, base)
        /\ lastSeen' = Max({seen} \cup {batch[i].id : i \in 1..n})
        /\ \/ n = Len(batch) /\ phase' = "streaming"
           \/ n > 0 /\ phase' = "done"

\* Mutant: the whole buffer, what the snapshot already holds included.
AlignAll(frames, id) == frames

\* _align_binance_buffered_events: what is newer than an id.
Align(frames, id) ==
    LET kept[i \in 0..Len(frames)] ==
            IF i = 0 THEN <<>>
            ELSE IF frames[i].id > id THEN Append(kept[i - 1], frames[i]) ELSE kept[i - 1]
    IN kept[Len(frames)]

\* The first window of an aligned buffer starts where `id' ended.
Holds(aligned, id) == aligned = <<>> \/ aligned[1].prev <= id

(***************************************************************************)
(* Opening a REST lane: buffer while the snapshot is fetched, refetch when *)
(* the buffer has run ahead, begin when a delta bridges the snapshot or    *)
(* when snapshot_anchor_timeout_seconds have passed.                       *)
(***************************************************************************)

Bridges == LET aligned == Align(buffer, snapshot.id)
           IN CASE aligned = <<>> -> "wait"
                [] aligned # <<>> /\ Holds(aligned, snapshot.id) -> "yes"
                [] OTHER -> "ahead"

OpenSocket ==
    /\ mode = "rest" /\ phase = "opening" /\ sock = "down"
    /\ sock' = "up"
    /\ fetch' = Asked /\ fetches' = 1
    /\ buffer' = <<>> /\ snapshot' = NoSnapshot
    /\ UNCHANGED <<mode, venue, past, wire, phase, lastSeen, attempts, score, history, faults, drops>>

ReadIntoBuffer ==
    /\ phase \in {"opening", "reopening"} /\ mode = "rest" /\ sock = "up" /\ wire # <<>>
    /\ buffer' = Append(buffer, Head(wire)) /\ wire' = Tail(wire)
    /\ UNCHANGED <<mode, venue, past, sock, phase, fetch, fetches, snapshot, lastSeen, attempts,
                   score, history, faults, drops>>

\* The venue answers with the book it has, or with one it has had: the REST
\* endpoint may lag behind the stream (external).
SnapshotServed ==
    /\ fetch = Asked /\ phase = "opening" /\ sock = "up"
    /\ \E id \in DOMAIN past :
        fetch' = [state |-> "here", answer |-> [id |-> id, book |-> past[id]]]
    /\ UNCHANGED <<mode, venue, past, sock, wire, phase, buffer, fetches, snapshot, lastSeen,
                   attempts, score, history, faults, drops>>

AdoptSnapshot ==
    /\ phase = "opening" /\ fetch.state = "here"
    /\ snapshot' = fetch.answer /\ fetch' = Idle
    /\ UNCHANGED <<mode, venue, past, sock, wire, phase, buffer, fetches, lastSeen, attempts,
                   score, history, faults, drops>>

RefetchSnapshot ==
    /\ phase = "opening" /\ sock = "up" /\ snapshot.id # None /\ fetch = Idle
    /\ Bridges = "ahead" /\ fetches < MaxFetches
    /\ fetch' = Asked /\ fetches' = fetches + 1
    /\ UNCHANGED <<mode, venue, past, sock, wire, phase, buffer, snapshot, lastSeen, attempts,
                   score, history, faults, drops>>

\* The sidecar and the snapshot row are written, then the aligned buffer.
\* replay_depth_run seeds from the sidecar and skips the row; a reader of
\* the curated rows is reseeded by it.
Begin ==
    /\ phase = "opening" /\ sock = "up" /\ snapshot.id # None
    /\ Bridges = "yes" => fetch.state # "here"
    /\ bridged' = (Bridges = "yes" /\ Accepted(Align(buffer, snapshot.id)[1]))
    /\ Process(Align(buffer, snapshot.id),
               [NoScore EXCEPT !.events = TRUE, !.book = snapshot.book, !.curated = snapshot.book],
               snapshot.id, snapshot.id)
    /\ buffer' = <<>> /\ fetch' = Idle /\ fetches' = 0 /\ attempts' = 0
    /\ UNCHANGED <<mode, venue, past, sock, wire, snapshot, blind, faults, drops>>

\* An attempt to open fails: with a break of the socket, or before it.
OpenFails ==
    /\ mode = "rest" /\ phase = "opening" /\ drops < MaxDrops
    /\ drops' = drops + 1
    /\ sock' = "down" /\ wire' = <<>> /\ buffer' = <<>> /\ fetch' = Idle
    /\ snapshot' = NoSnapshot
    /\ attempts' = attempts + 1
    /\ phase' = IF attempts + 1 >= MaxAttempts THEN "dead" ELSE "opening"
    /\ UNCHANGED <<mode, venue, past, fetches, lastSeen, score, history, faults>>

(***************************************************************************)
(* Streaming, and the socket that breaks, always with an error that        *)
(* _is_retryable_connect_error knows.                                      *)
(***************************************************************************)

\* One frame of an open socket; it clears the retry budget unless it ends
\* the segment.
Stream ==
    /\ phase = "streaming" /\ sock = "up" /\ wire # <<>>
    /\ Process(<<Head(wire)>>, score, snapshot.id, lastSeen)
    /\ wire' = Tail(wire)
    /\ attempts' = IF phase' = "streaming" THEN 0 ELSE attempts
    /\ UNCHANGED <<mode, venue, past, sock, buffer, fetch, fetches, snapshot, history, faults, drops>>

\* The socket closes.  A clean close costs nothing, a retryable error one
\* attempt, and the frames in flight are gone.
SocketBreaks ==
    /\ phase = "streaming" /\ sock = "up" /\ drops < MaxDrops
    /\ sock' = "down" /\ wire' = <<>> /\ drops' = drops + 1
    /\ \/ attempts' = attempts /\ phase' = "reopening"
       \/ /\ attempts' = attempts + 1
          /\ phase' = IF attempts + 1 >= MaxAttempts THEN "dead" ELSE "reopening"
    /\ UNCHANGED <<mode, venue, past, buffer, fetch, fetches, snapshot, lastSeen, score, history, faults>>

\* A stream venue greets a new subscription with a snapshot.
Resubscribe ==
    /\ mode # "rest" /\ sock = "down" /\ phase \in {"opening", "reopening"}
    /\ sock' = "up" /\ wire' = <<SnapshotFrame(venue)>> /\ phase' = "streaming"
    /\ UNCHANGED <<mode, venue, past, buffer, fetch, fetches, snapshot, lastSeen, attempts,
                   score, history, faults, drops>>

\* _reopen_binance_depth_connection: the socket is up, the window starts.
Reopen ==
    /\ mode = "rest" /\ phase = "reopening" /\ sock = "down"
    /\ sock' = "up" /\ buffer' = <<>>
    /\ UNCHANGED <<mode, venue, past, wire, phase, fetch, fetches, snapshot, lastSeen, attempts,
                   score, history, faults, drops>>

\* A reopening that fails costs an attempt, and the loop goes round to read
\* from the socket it does not have.
ReopenFails ==
    /\ mode = "rest" /\ phase = "reopening" /\ drops < MaxDrops
    /\ drops' = drops + 1
    /\ sock' = "down" /\ wire' = <<>> /\ buffer' = <<>>
    /\ attempts' = attempts + 1
    /\ phase' = IF attempts + 1 >= MaxAttempts THEN "dead" ELSE "streaming"
    /\ UNCHANGED <<mode, venue, past, fetch, fetches, snapshot, lastSeen, score, history, faults>>

\* `async for message in None' raises a TypeError, which is not retryable.
StreamOfNoSocket ==
    /\ phase = "streaming" /\ sock = "down"
    /\ phase' = "dead"
    /\ UNCHANGED <<mode, venue, past, sock, wire, buffer, fetch, fetches, snapshot, lastSeen,
                   attempts, score, history, faults, drops>>

\* The window ends: what is newer than the run must start where it ended,
\* or the segment ends here and the next one takes a fresh snapshot.
WindowEnds ==
    /\ mode = "rest" /\ phase = "reopening" /\ sock = "up"
    /\ LET aligned == Align(buffer, lastSeen)
       IN /\ blind' = (blind \/ aligned = <<>>)
          /\ IF Holds(aligned, lastSeen)
             THEN Process(aligned, score, snapshot.id, lastSeen) /\ sock' = sock
             ELSE phase' = "done" /\ sock' = "down" /\ UNCHANGED <<score, lastSeen>>
    /\ buffer' = <<>> /\ attempts' = 0
    /\ wire' = IF sock' = "up" THEN wire ELSE <<>>
    /\ UNCHANGED <<mode, venue, past, fetch, fetches, snapshot, bridged, faults, drops>>

------------------------------------------------------------------------------
Init ==
    /\ mode \in Modes
    /\ \E book \in Book : venue = [id |-> 0, book |-> book] /\ past = [i \in {0} |-> book]
    /\ sock = "down" /\ wire = <<>> /\ phase = "opening"
    /\ buffer = <<>> /\ fetch = Idle /\ fetches = 0
    /\ snapshot = NoSnapshot
    /\ lastSeen = None /\ attempts = 0
    /\ score = NoScore
    /\ bridged = FALSE /\ blind = FALSE
    /\ faults = 0 /\ drops = 0

Next ==
    \/ VenueUpdate \/ Fault
    \/ OpenSocket \/ ReadIntoBuffer \/ SnapshotServed \/ AdoptSnapshot \/ RefetchSnapshot
    \/ Begin \/ OpenFails
    \/ Stream \/ SocketBreaks \/ Resubscribe
    \/ Reopen \/ ReopenFails \/ StreamOfNoSocket \/ WindowEnds

Spec == Init /\ [][Next]_vars

------------------------------------------------------------------------------
(***************************************************************************)
(* Properties.                                                             *)
(***************************************************************************)

Gating == {"snapshot_anchor_gap", "reordered_or_duplicate_updates", "gaps_detected",
           "non_monotonic_update_id", "update_id_gaps", "checksum_mismatch",
           "non_monotonic_event_time"}

TypeOK ==
    /\ mode \in Modes
    /\ venue.id \in 0..MaxUpdates /\ venue.book \in Book
    /\ sock \in {"up", "down"}
    /\ phase \in {"opening", "streaming", "reopening", "done", "dead"}
    /\ fetches \in 0..MaxFetches /\ attempts \in 0..MaxAttempts
    /\ snapshot.id \in {None} \cup 0..MaxUpdates
    /\ lastSeen \in {None} \cup 0..MaxUpdates
    /\ score.book \in Book /\ score.curated \in Book /\ score.findings \subseteq Gating
    /\ Len(wire) <= MaxInFlight + MaxFaults

\* A replayable run's reconstructed book was the venue's all along, whatever was
\* lost, repeated, overtaken, garbled or missed across a reconnect: the guarantee
\* of the sequence and checksum classes (STANDARDS 4.1, 4.3); a "none" lane promises
\* nothing of the kind.  Readers of the curated rows have no sidecar: they reseed
\* from the snapshot row and apply every delta, and on a run whose first row bridges
\* the snapshot they hold the book the verdict was given for.
VerdictIsProof ==
    Replayable =>
        /\ mode # "none" => ~score.diverged
        /\ mode = "rest" /\ bridged => score.curated = score.book

\* The other direction: a run nothing went wrong with on the wire passes.
\* A stream lane may have been cut and resubscribed; a REST lane must have
\* begun on a bridged snapshot and seen the first frame of every reopening.
\* (With the types of the state.)
NoFalseAlarm ==
    /\ TypeOK
    /\ faults = 0 /\ score.events /\ (mode = "rest" => bridged /\ ~blind) => Replayable
=============================================================================
