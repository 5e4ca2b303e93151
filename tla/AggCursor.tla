----------------------------- MODULE AggCursor ------------------------------
(***************************************************************************)
(* The Binance futures REST trades lane (collectors/binance_futures_rest.py*)
(* and cli.collect_binance_futures_rest_segment): a pager reads aggregate  *)
(* trades by their dense id and each segment resumes where the last one    *)
(* stopped, which it learns from a cursor file, written when a segment has *)
(* ended and been scored, and from the clean rows of the recent runs, for  *)
(* the segments that never got there.                                      *)
(*                                                                         *)
(* A poll is one step: it reads up to MaxPages pages, and an error in one  *)
(* of them ends the segment with none of the poll's rows written.          *)
(***************************************************************************)
EXTENDS Integers, Sequences, FiniteSets, FiniteSetsExt, SequencesExt

CONSTANTS
    PageLimit,          \* page_limit
    MaxPages,           \* max_pages_per_poll
    MaxResumeGap,       \* max_resume_gap_seconds: of the cursor and of a run's start
    MaxDelay,           \* max_delay_ms of the lane's gate
    AggTime, AggTrades, AggRuns, AggFaults  \* bounds

ASSUME AggCursorAssumption ==
    /\ PageLimit \in Nat \ {0} /\ MaxPages \in Nat \ {0}
    /\ MaxResumeGap \in Nat /\ MaxDelay \in Nat /\ AggTime \in Nat

VARIABLES
    now,
    market,     \* the trades of the venue: their times; a trade's id is its position
    cursor,     \* the cursor file: [last, at], or NoCursor
    lane,       \* the lane's runs in the order of their names
    pager,      \* the live segment: [run, from], from = 0 to begin at the latest page
    fetched,    \* ids the last poll returned, not yet written
    faults

avars == <<now, market, cursor, lane, pager, fetched, faults>>

NoCursor == [last |-> 0, at |-> 0]
NoPager == [run |-> 0, from |-> 0]
Paging == pager # NoPager
Ids == DOMAIN market

(***************************************************************************)
(* Where to resume.                                                        *)
(***************************************************************************)
\* aggtrades_resume_from_id: 0 for the latest page.
StaleCursor == cursor # NoCursor /\ now - cursor.at > MaxResumeGap
CursorFrom == IF cursor = NoCursor \/ StaleCursor THEN 0 ELSE cursor.last + 1

\* max_agg_id_in_recent_runs: the newest run with a row, among those young enough.
Scanned == {i \in DOMAIN lane : lane[i].place = "raw" /\ now - lane[i].born <= MaxResumeGap}
DiskHigh ==
    LET withRows == {i \in Scanned : lane[i].rows # <<>>}
    IN IF withRows = {} THEN 0 ELSE Max(ToSet(lane[Max(withRows)].rows))

\* A bug: the last id is asked for again.
FromLast == IF DiskHigh # 0 /\ DiskHigh >= CursorFrom THEN DiskHigh ELSE CursorFrom
ResumeFrom ==
    IF DiskHigh # 0 /\ (CursorFrom = 0 \/ DiskHigh + 1 > CursorFrom)
    THEN DiskHigh + 1 ELSE CursorFrom

BeginSegment ==
    /\ ~Paging
    /\ Len(lane) < AggRuns
    /\ lane' = Append(lane, [born |-> now, from |-> ResumeFrom, rows |-> <<>>, refused |-> {},
                             reset |-> StaleCursor, blind |-> cursor = NoCursor,
                             place |-> "raw", open |-> TRUE])
    /\ pager' = [run |-> Len(lane) + 1, from |-> ResumeFrom]
    /\ UNCHANGED <<now, market, cursor, fetched, faults>>

(***************************************************************************)
(* make_aggtrades_poll.                                                    *)
(***************************************************************************)
\* A bug: every poll begins at the latest page.
LatestPage == Max({1, Len(market) - PageLimit + 1})
Anchor == IF pager.from # 0 THEN pager.from ELSE Max({1, Len(market) - PageLimit + 1})
PolledTo == Min({Len(market), Anchor + PageLimit * MaxPages - 1})

AggPoll ==
    /\ Paging
    /\ fetched = <<>>
    /\ Anchor <= Len(market)
    /\ fetched' = [k \in 1..(PolledTo - Anchor + 1) |-> Anchor + k - 1]
    /\ pager' = [pager EXCEPT !.from = PolledTo + 1]
    /\ UNCHANGED <<now, market, cursor, lane, faults>>

\* QualityGate.validate, of which only the staleness bar can refuse these rows.
TooOld(id) == now - market[id] > MaxDelay

AggDeliver ==
    /\ fetched # <<>>
    /\ lane' = IF TooOld(Head(fetched))
               THEN [lane EXCEPT ![pager.run].refused = @ \cup {Head(fetched)}]
               ELSE [lane EXCEPT ![pager.run].rows = Append(@, Head(fetched))]
    /\ fetched' = Tail(fetched)
    /\ UNCHANGED <<now, market, cursor, pager, faults>>

\* A bug: the pager's own high-water is saved.
FetchedTo(run) == pager.from - 1
WrittenTo(run) == Max(ToSet(run.rows))
Saved(run) == IF run.rows = <<>> THEN cursor ELSE [last |-> WrittenTo(run), at |-> now]

\* The deadline, looked at after a row, accepted or not; the rest of the poll is
\* dropped.  What is saved is what was written, not what was fetched.
FinishSegment ==
    /\ Paging
    /\ Len(lane) < AggRuns
    /\ lane[pager.run].rows # <<>> \/ lane[pager.run].refused # {}
    /\ lane' = [lane EXCEPT ![pager.run].open = FALSE]
    /\ cursor' = Saved(lane[pager.run])
    /\ pager' = NoPager
    /\ fetched' = <<>>
    /\ UNCHANGED <<now, market, faults>>

\* A kill, an error out of a poll (429 past the retries, 418, a time-out), or a power
\* loss that takes the last row along: the cursor file stays as it is.
AbandonSegment ==
    /\ Paging
    /\ Len(lane) < AggRuns
    /\ faults < AggFaults
    /\ \E lost \in 0..1 :
         /\ lost <= Len(lane[pager.run].rows)
         /\ lane' = [lane EXCEPT ![pager.run].open = FALSE,
                                 ![pager.run].rows = SubSeq(@, 1, Len(@) - lost)]
    /\ faults' = faults + 1
    /\ pager' = NoPager
    /\ fetched' = <<>>
    /\ UNCHANGED <<now, market, cursor>>

\* replay_trades_run: no id is missing between two rows.
Dense(run) == \A k \in 1..(Len(run.rows) - 1) : run.rows[k + 1] = run.rows[k] + 1

QuarantineRun(i) ==
    /\ lane[i].place = "raw" /\ ~lane[i].open
    /\ lane[i].rows = <<>> \/ ~Dense(lane[i])
    /\ lane' = [lane EXCEPT ![i].place = "quarantined"]
    /\ UNCHANGED <<now, market, cursor, pager, fetched, faults>>

Trade ==
    /\ Len(market) < AggTrades
    /\ market' = Append(market, now)
    /\ UNCHANGED <<now, cursor, lane, pager, fetched, faults>>

TimePasses ==
    /\ now < AggTime
    /\ now' = now + 1
    /\ UNCHANGED <<market, cursor, lane, pager, fetched, faults>>

AggInit ==
    /\ now = 0
    /\ market = <<>>
    /\ cursor = NoCursor
    /\ lane = <<>>
    /\ pager = NoPager
    /\ fetched = <<>>
    /\ faults = 0

AggNext ==
    \/ BeginSegment \/ AggPoll \/ AggDeliver \/ FinishSegment \/ AbandonSegment
    \/ \E i \in DOMAIN lane : QuarantineRun(i)
    \/ Trade \/ TimePasses

(***************************************************************************)
(* Properties.                                                             *)
(***************************************************************************)
CursorTypeOK ==
    /\ now \in 0..AggTime /\ market \in Seq(0..AggTime)
    /\ cursor.last \in 0..Len(market) /\ cursor.at \in 0..now
    /\ \A i \in DOMAIN lane :
         /\ ToSet(lane[i].rows) \cup lane[i].refused \subseteq Ids
         /\ lane[i].open <=> Paging /\ i = pager.run
    /\ pager.from \in 0..(Len(market) + 1)
    /\ ToSet(fetched) \subseteq Ids /\ (fetched # <<>> => Paging)

\* An id is written to two runs only if, when the second began, the first was in
\* quarantine or had begun too long ago to be looked at.
OutOfReach(i, j) ==
    lane[i].place = "quarantined" \/ lane[j].born - lane[i].born > MaxResumeGap
NoIdTwice ==
    \A i, j \in DOMAIN lane : i < j =>
        ToSet(lane[i].rows) \cap ToSet(lane[j].rows) = {} \/ OutOfReach(i, j)

\* A run begins no later than behind the last id the runs before it wrote or refused,
\* unless it reports that it gave up an old cursor; or no cursor was ever written
\* and every run that has a row is out of reach.
HandledBefore(j) == UNION {ToSet(lane[i].rows) \cup lane[i].refused : i \in 1..(j - 1)}
ResumesInReach(j) ==
    IF lane[j].from # 0
    THEN lane[j].from <= Max(HandledBefore(j)) + 1
    ELSE \/ lane[j].reset
         \/ lane[j].blind /\ \A i \in 1..(j - 1) : lane[i].rows = <<>> \/ OutOfReach(i, j)

\* Within a run an id is missing only because its row came too late for the gate.
GapsAreRefused(j) ==
    \A id \in Min(ToSet(lane[j].rows))..Max(ToSet(lane[j].rows)) :
        id \in ToSet(lane[j].rows) \cup lane[j].refused

\* Rotations, kills and failed polls leave no hole in the ids that nothing tells of,
\* neither between two runs nor within one.  (With the types of the state.)
NoSilentGap ==
    /\ CursorTypeOK
    /\ \A j \in DOMAIN lane :
        /\ HandledBefore(j) # {} => ResumesInReach(j)
        /\ lane[j].rows # <<>> => GapsAreRefused(j)

\* The pager has read and written all there is.
AtHead == Paging /\ fetched = <<>> /\ (market = <<>> \/ pager.from > Len(market))

AggForward == AggPoll \/ AggDeliver \/ BeginSegment
AggForwardDue ==
    \/ ~Paging /\ Len(lane) < AggRuns
    \/ fetched # <<>>
    \/ Paging /\ Anchor <= Len(market)
=============================================================================
