----------------------------- MODULE WalletFlow -----------------------------
(***************************************************************************)
(* The Hyperliquid wallet-flow lane (collectors/hyperliquid_wallet_flow.py,*)
(* cli.collect_hyperliquid_wallet_flow_segment, wallet_flow_backfill.py):  *)
(* a poller reads the public fills of a frozen cohort of wallets and       *)
(* writes them to run directories.  It keeps no cursor of its own on disk: *)
(* a new segment builds a new poller, which learns what was recorded, and  *)
(* how far each wallet got, by reading the clean rows of the lane's hot    *)
(* runs.  Scoring, promotion, quarantine and the offload move those runs   *)
(* under it, and the backfill tool writes runs of its own beside it.       *)
(*                                                                         *)
(* A poll is one step: its requests are independent reads, and only the    *)
(* rows it returns, written one by one, leave a trace.                     *)
(***************************************************************************)
EXTENDS Integers, Sequences, FiniteSets, FiniteSetsExt, SequencesExt

CONSTANTS
    Wallets,            \* the cohort
    Fills,              \* the fills of its wallets: 1..n, in the venue's order of equal times
    Histories,          \* what may happen: a set of [Fills -> [wallet, at, stream, target]]
    ResponseCap,        \* response_cap of userFillsByTime
    TwapCap,            \* TWAP_RESPONSE_CAP, the length of the most recent window
    TwapEvery,          \* twap_every_polls
    Overlap,            \* overlap_seconds
    PollerMargin,       \* DEFAULT_POLLER_MARGIN_SECONDS
    TwapMargin,         \* TWAP_DEDUP_HORIZON_MARGIN_MS
    MaxSegment,         \* max_segment_seconds
    Retention,          \* min_age_days of the offload
    MaxLate,            \* bound: how long after its time a fill may become visible
    MaxTime, MaxSegments, MaxCrashes, MaxBackfills  \* bounds

ASSUME WalletFlowAssumption ==
    /\ Fills = 1..Cardinality(Fills) /\ IsFiniteSet(Fills)
    /\ Histories \subseteq [Fills ->
         [wallet : Wallets, at : Nat, stream : {"fills", "twap"}, target : BOOLEAN]]
    /\ ResponseCap \in Nat \ {0} /\ TwapCap \in Nat \ {0} /\ TwapEvery \in Nat
    /\ Overlap \in Nat /\ PollerMargin \in Nat /\ TwapMargin \in Nat
    /\ MaxSegment \in Nat \ {0} /\ Retention \in Nat /\ MaxLate \in Nat
    /\ MaxTime \in Nat \ {0} /\ MaxSegments \in Nat

VARIABLES
    fill,           \* the history: fixed from the start
    clock,
    heard,          \* the fills the venue serves, in the order in which it began to
    runs,           \* the lane's runs in the order of their names
    poller,         \* the memory of the live segment's poller, or NoPoller
    batch,          \* rows the last poll returned, not yet written
    plan,           \* fills a backfill has decided to write, and the runs that began before
    crashes, backfills,
    forgotten,      \* history: fills a poller or a backfill could not know were recorded
    passed          \* history: fills that became visible too late for any request

wvars == <<fill, clock, heard, runs, poller, batch, plan, crashes, backfills,
           forgotten, passed>>

NoPoller == [run |-> 0]
NoPlan == [fills |-> {}, runs |-> 0]
Prospective == 1    \* prospective_start_at

Of(f) == fill[f].wallet
At(f) == fill[f].at
IsTwap(f) == fill[f].stream = "twap"
Earlier(f, g) == At(f) < At(g) \/ (At(f) = At(g) /\ f < g)
\* How many of some fills come before one.
Rank(fs, f) == Cardinality({g \in fs : Earlier(g, f)})
Live == poller # NoPoller
Heard == ToSet(heard)

\* The filter of both endpoints: target_coins and the prospective boundary.
Wanted(f) == fill[f].target /\ At(f) >= Prospective

(***************************************************************************)
(* What is on disk.  A run in the lane's directory is hot, whatever its    *)
(* state: a start-up scan reads unfinished runs too.                       *)
(***************************************************************************)
InPlaces(places) == {i \in DOMAIN runs : runs[i].place \in places}
HotRuns == InPlaces({"raw", "promoted"})
RowsIn(is) == UNION {ToSet(runs[i].rows) : i \in is}
Recorded(f) == f \in RowsIn(DOMAIN runs)

\* Segments of the lane so far.
Segments == Cardinality({i \in DOMAIN runs : ~runs[i].node})

\* A bug: slices of the second endpoint move the cursor of the first.
AnyRowMoves(run, f) == TRUE
\* raw_type of a row: the endpoint, or node_fills_by_block in a backfilled run.
MovesHighwater(run, f) == run.node \/ ~IsTwap(f)

\* scan_durable_wallet_fills: the high-water mark of a wallet, 0 for none.
DurableHighwater(w) ==
    Max({0} \cup {At(f) : f \in {g \in Fills : \E i \in HotRuns :
        g \in ToSet(runs[i].rows) /\ Of(g) = w /\ MovesHighwater(runs[i], g)}})

\* A bug: the margin is forgotten.
HorizonAtOldest(born) == Min({born} \cup {runs[i].born : i \in HotRuns})
\* _twap_dedup_horizon_ms, as the segment calls it: its own run directory has
\* been created by then, so there always is a hot run.
Horizon(born) == Min({born} \cup {runs[i].born : i \in HotRuns}) + TwapMargin

(***************************************************************************)
(* HyperliquidWalletFlowPoller.poll                                        *)
(***************************************************************************)
\* A bug: requests begin at the high-water.
FromHighwater(high) == IF high = 0 THEN Prospective ELSE Max({Prospective, high})
AfterOverlap(high) == IF high = 0 THEN Prospective ELSE Max({Prospective, high - Overlap})

RequestStart(p, w) ==
    IF p.page[w] # 0 THEN p.page[w] ELSE Max({AfterOverlap(p.high[w]), p.floor[w]})

\* Where the next request of a wallet begins, by the live poller or the next one.
NextStart(w) ==
    IF Live THEN RequestStart(poller, w) ELSE AfterOverlap(DurableHighwater(w))

\* What userFillsByTime answers: the oldest ResponseCap fills from start on.
Page(w, start) ==
    LET asked == {f \in Heard : Of(f) = w /\ ~IsTwap(f) /\ At(f) >= start}
    IN {f \in asked : Rank(asked, f) < ResponseCap}

Capped(page) == Cardinality(page) >= ResponseCap
Stamps(page) == {At(f) : f \in page}
\* A bug: a capped page is an error.
CappedIsError(page) == Capped(page)
Unpageable(page) == Capped(page) /\ Cardinality(Stamps(page)) < 2

\* A cap-sized page is consumed up to its newest millisecond, which may be cut.
Consumed(page) ==
    IF Capped(page) THEN {f \in page : At(f) < Max(Stamps(page))} ELSE page

\* One wallet's turn.  A response that failed or cannot be paged moves nothing.
Answer(w) == Page(w, RequestStart(poller, w))
NewFills(w) == {f \in Consumed(Answer(w)) : Wanted(f) /\ f \notin poller.seen}
Boundary(w) == IF Capped(Answer(w)) THEN Max(Stamps(Answer(w))) ELSE 0

Highwater(w) == Max({poller.high[w], Boundary(w)} \cup Stamps(NewFills(w)))

\* The page that ends a continuation is where ordinary overlap stops for good.
ResumeFloor(w) ==
    IF Boundary(w) = 0 /\ poller.page[w] # 0 THEN poller.page[w] ELSE poller.floor[w]

\* _poll_twap: userTwapSliceFills serves the most recent TwapCap slices, whenever
\* they were.  Slices older than the horizon are never emitted; slices older than
\* the newest this poller emitted wait for the next run.
TwapWindow(w) ==
    LET slices == {f \in Heard : Of(f) = w /\ IsTwap(f)}
    IN {f \in slices : Cardinality({g \in slices : Earlier(f, g)}) < TwapCap}

Unseen(w) == {f \in TwapWindow(w) : Wanted(f) /\ f \notin poller.seen}
BeyondHorizon(w) == {f \in Unseen(w) : At(f) < poller.horizon}
\* A bug: nothing is deferred to the next run.
EmittableAtOnce(w) == {f \in Unseen(w) : At(f) >= poller.horizon}
Emittable(w) == {f \in Unseen(w) : At(f) >= poller.horizon /\ At(f) >= poller.twapLast[w]}

TwapDue == TwapEvery # 0 /\ poller.polls = 0

\* One sweep, with the wallets whose answers can be used.
Swept(read, twapRead) ==
    [poller EXCEPT
        !.seen = @ \cup (UNION {NewFills(w) : w \in read}) \cup (UNION {Emittable(w) : w \in twapRead}),
        !.high = [w \in Wallets |-> IF w \in read THEN Highwater(w) ELSE @[w]],
        !.page = [w \in Wallets |-> IF w \in read THEN Boundary(w) ELSE @[w]],
        !.floor = [w \in Wallets |-> IF w \in read THEN ResumeFloor(w) ELSE @[w]],
        !.twapLast = [w \in Wallets |->
            IF w \in twapRead THEN Max({@[w]} \cup Stamps(Emittable(w))) ELSE @[w]],
        !.polls = IF TwapEvery = 0 THEN 0 ELSE (@ + 1) % TwapEvery]

\* emitted.sort: by time, then by key.
InTimeOrder(fs) == [k \in 1..Cardinality(fs) |-> CHOOSE f \in fs : Rank(fs, f) = k - 1]
\* A bug: the rows stay in the order they were read.
AsRead(fs) == SetToSortSeq(fs, LAMBDA f, g : f > g)
Emitted(fs) == InTimeOrder(fs)

\* A failure is isolated to its wallet and endpoint.
Poll(failed, twapFailed) ==
    /\ UNCHANGED <<fill, clock, heard, runs, plan, crashes, backfills, forgotten, passed>>
    /\ Live
    /\ batch = <<>>
    /\ LET read == {w \in Wallets \ failed : ~Unpageable(Answer(w))}
           twapRead == IF TwapDue THEN Wallets \ twapFailed ELSE {}
       IN /\ poller' = Swept(read, twapRead)
          /\ batch' = Emitted((UNION {NewFills(w) : w \in read})
                              \cup (UNION {Emittable(w) : w \in twapRead}))

(***************************************************************************)
(* A segment: RestPollingCollector.stream feeding CollectorPipeline.run.   *)
(***************************************************************************)
NewRun(rows, node, place, state) ==
    [born |-> clock, rows |-> rows, node |-> node, place |-> place, state |-> state]

ColdOnly == RowsIn(InPlaces({"cold"})) \ RowsIn(HotRuns)

\* Recorded fills the scan of a new poller cannot see and its requests reach:
\* fills from the request's start on, and slices of a run that was offloaded
\* before an older one.
OutOfSight ==
    {f \in ColdOnly :
        IF IsTwap(f)
        THEN \E i \in InPlaces({"cold"}), j \in HotRuns :
                 f \in ToSet(runs[i].rows) /\ runs[j].born <= runs[i].born /\ j < i
        ELSE At(f) >= AfterOverlap(DurableHighwater(Of(f)))}

\* What a poller knows at its start is what it finds on disk.
NewPoller ==
    [run |-> Len(runs) + 1, born |-> clock,
     alone |-> HotRuns = {}, beside |-> plan # NoPlan,      \* history
     seen |-> RowsIn(HotRuns),
     high |-> [w \in Wallets |-> DurableHighwater(w)],
     page |-> [w \in Wallets |-> 0], floor |-> [w \in Wallets |-> 0],
     twapLast |-> [w \in Wallets |-> 0], horizon |-> Horizon(clock),
     polls |-> 0]

StartSegment ==
    /\ ~Live
    /\ Segments < MaxSegments
    /\ runs' = Append(runs, NewRun(<<>>, FALSE, "raw", "open"))
    /\ poller' = NewPoller
    /\ batch' = <<>>
    /\ forgotten' = forgotten \cup OutOfSight
    /\ UNCHANGED <<fill, clock, heard, plan, crashes, backfills, passed>>

\* The pipeline writes a row at a time.
Deliver ==
    /\ batch # <<>>
    /\ runs' = [runs EXCEPT ![poller.run].rows = Append(@, Head(batch))]
    /\ batch' = Tail(batch)
    /\ UNCHANGED <<fill, clock, heard, poller, plan, crashes, backfills, forgotten, passed>>

\* The deadline or the row limit: after a row, or between polls.  The rest of the
\* batch is dropped; the run is scored (replay_wallet_flow_run).
EndSegment ==
    /\ Live
    /\ Segments < MaxSegments
    /\ batch = <<>> \/ runs[poller.run].rows # <<>>
    /\ runs' = [runs EXCEPT ![poller.run].state = "closed"]
    /\ poller' = NoPoller
    /\ batch' = <<>>
    /\ UNCHANGED <<fill, clock, heard, plan, crashes, backfills, forgotten, passed>>

\* A kill, or a power loss that takes the last row with it.
KillPoller ==
    /\ Live
    /\ Segments < MaxSegments
    /\ crashes < MaxCrashes
    /\ \E lost \in 0..1 :
         /\ lost <= Len(runs[poller.run].rows)
         /\ runs' = [runs EXCEPT ![poller.run].state = "dead",
                                 ![poller.run].rows = SubSeq(@, 1, Len(@) - lost)]
    /\ crashes' = crashes + 1
    /\ poller' = NoPoller
    /\ batch' = <<>>
    /\ UNCHANGED <<fill, clock, heard, plan, backfills, forgotten, passed>>

(***************************************************************************)
(* The maintenance jobs, in as much as they move runs: the verdict of      *)
(* replay_wallet_flow_run decides.                                         *)
(***************************************************************************)
Stream(run, f) == IF ~run.node /\ IsTwap(f) THEN "twap" ELSE "fills"

\* Row j of a run goes back in time: an earlier row of its stream is newer.
GoesBack(run, j) ==
    \E i \in 1..(j - 1) :
        /\ Of(run.rows[i]) = Of(run.rows[j])
        /\ Stream(run, run.rows[i]) = Stream(run, run.rows[j])
        /\ At(run.rows[i]) > At(run.rows[j])

Replayable(run) == run.rows # <<>> /\ \A j \in DOMAIN run.rows : ~GoesBack(run, j)

Moves(i, from, to) ==
    /\ runs[i].place = from
    /\ runs' = [runs EXCEPT ![i].place = to]
    /\ UNCHANGED <<fill, clock, heard, poller, batch, plan, crashes, backfills, forgotten, passed>>

Promote(i) == runs[i].state # "open" /\ Replayable(runs[i]) /\ Moves(i, "raw", "promoted")

Quarantine(i) == runs[i].state # "open" /\ ~Replayable(runs[i]) /\ Moves(i, "raw", "quarantined")

Offload(i) == clock - runs[i].born >= Retention /\ Moves(i, "promoted", "cold")

(***************************************************************************)
(* backfill-wallet-flow-from-node --apply, beside the lane.                *)
(***************************************************************************)
\* A bug: the poller's overlap is not left to it.
SafeEndAtHighwater(w) == DurableHighwater(w)
\* A wallet with no hot row has no known window and is not written.
SafeEnd(w) == DurableHighwater(w) - Overlap - PollerMargin

\* History: the runs there were when a backfill scanned; none, if the running poller
\* began between the scan and the rows of a backfill before it.
RunsBefore == IF Live /\ poller.beside THEN 0 ELSE Len(runs)

\* iter_node_fills: the archive holds every fill of the chain, slices and all.
Archive(w) == {f \in Fills : Of(f) = w /\ At(f) <= clock}

\* Hot and cold rows, and the curated ones, which those two account for.
Durable == RowsIn(InPlaces({"raw", "promoted", "cold"}))

\* A bug: only the hot tier is scanned.
MissingHot(w) == {f \in Archive(w) : Wanted(f) /\ f \notin RowsIn(HotRuns)}
Missing(w) == {f \in Archive(w) : Wanted(f) /\ f \notin Durable}

BackfillScan(w) ==
    /\ plan = NoPlan
    /\ backfills < MaxBackfills
    /\ DurableHighwater(w) # 0
    /\ LET writable == {f \in Missing(w) : At(f) <= SafeEnd(w)}
       IN writable # {} /\ plan' = [fills |-> writable, runs |-> RunsBefore]
    /\ backfills' = backfills + 1
    /\ UNCHANGED <<fill, clock, heard, runs, poller, batch, crashes, forgotten, passed>>

\* Fills of the plan that are, or will be, in the rows of a poller as well.  A slice
\* is, if the running segment reads it again: its second endpoint has no window,
\* and the rule is to stop the lane first.  So is a fill, if a new poller came
\* between a backfill's scan and its rows and found fewer hot rows than it did.
Contested ==
    {f \in plan.fills :
        /\ IsTwap(f) \/ Len(runs) > plan.runs
        /\ \/ f \in Durable
           \/ Live /\ (f \in poller.seen \/ IsTwap(f) \/ At(f) >= RequestStart(poller, Of(f)))}

BackfillWrite ==
    /\ plan # NoPlan
    /\ runs' = Append(runs, NewRun(InTimeOrder(plan.fills), TRUE, "raw", "closed"))
    /\ forgotten' = forgotten \cup Contested
    /\ plan' = NoPlan
    /\ UNCHANGED <<fill, clock, heard, poller, batch, crashes, backfills, passed>>

(***************************************************************************)
(* The venue and the clock.                                                *)
(***************************************************************************)
\* A fill is served later than the overlap allows for, or below the next request, in
\* pages the live poller has consumed and does not come back to.
TooLate(f) ==
    /\ ~IsTwap(f)
    /\ \/ clock > At(f) + Overlap
       \/ /\ Live /\ At(f) < RequestStart(poller, Of(f))
          /\ poller.page[Of(f)] # 0 \/ poller.floor[Of(f)] # 0

Publish(f) ==
    /\ f \notin Heard
    /\ At(f) <= clock /\ clock <= At(f) + MaxLate
    /\ heard' = Append(heard, f)
    /\ passed' = IF TooLate(f) THEN passed \cup {f} ELSE passed
    /\ UNCHANGED <<fill, clock, runs, poller, batch, plan, crashes, backfills, forgotten>>

\* A segment does not outlive its deadline, while the bound leaves room for another.
ClockTick ==
    /\ clock < MaxTime
    /\ Live /\ Segments < MaxSegments => clock < poller.born + MaxSegment
    /\ clock' = clock + 1
    /\ UNCHANGED <<fill, heard, runs, poller, batch, plan, crashes, backfills, forgotten, passed>>

WalletInit ==
    /\ fill \in Histories
    /\ clock = Prospective
    /\ heard = <<>>
    /\ runs = <<>>
    /\ poller = NoPoller
    /\ batch = <<>>
    /\ plan = NoPlan
    /\ crashes = 0 /\ backfills = 0
    /\ forgotten = {} /\ passed = {}

\* A request can only make a difference, by failing, where there is something to read.
Fillers == {Of(f) : f \in {g \in Fills : ~IsTwap(g)}}
Slicers == {Of(f) : f \in {g \in Fills : IsTwap(g)}}

WalletNext ==
    \/ StartSegment \/ Deliver \/ EndSegment \/ KillPoller
    \/ \E failed \in SUBSET Fillers, twapFailed \in SUBSET Slicers : Poll(failed, twapFailed)
    \/ \E i \in DOMAIN runs : Promote(i) \/ Quarantine(i) \/ Offload(i)
    \/ \E w \in Wallets : BackfillScan(w)
    \/ BackfillWrite
    \/ \E f \in Fills : Publish(f)
    \/ ClockTick

(***************************************************************************)
(* Properties.                                                             *)
(***************************************************************************)
WalletTypeOK ==
    /\ fill \in Histories /\ clock \in 1..MaxTime
    /\ Heard \subseteq Fills /\ IsInjective(heard)
    /\ \A i \in DOMAIN runs : runs[i] \in
         [born : 1..clock, rows : Seq(Fills), node : BOOLEAN,
          place : {"raw", "promoted", "quarantined", "cold"},
          state : {"open", "dead", "closed"}]
    /\ Live => /\ runs[poller.run].state = "open"
               /\ poller.seen \subseteq Fills /\ poller.horizon \in Nat
               /\ \A w \in Wallets : {poller.high[w], poller.page[w], poller.floor[w]} \subseteq 0..clock
    /\ ~Live => batch = <<>> /\ \A i \in DOMAIN runs : runs[i].state # "open"
    /\ ToSet(batch) \subseteq Fills
    /\ plan.fills \cup forgotten \cup passed \subseteq Fills

\* The copies of a fill that are or may become curated.
Copies(f) ==
    {c \in (DOMAIN runs) \X (1..Cardinality(Fills)) :
        /\ c[2] \in DOMAIN runs[c[1]].rows
        /\ runs[c[1]].place # "quarantined" /\ runs[c[1]].rows[c[2]] = f}

\* A fill reaches the curated tier at most once, over restarts, crashes in the
\* middle of a batch, capped pages, overlapping requests, two endpoints and a
\* backfill; unless its first copy had gone to the cold tier out of the sight of a
\* poller whose requests reach it again, or a backfill wrote a slice beside the
\* running lane, or a fill that a poller reads which began since a backfill's scan.
NoFillTwice == \A f \in Fills : Cardinality(Copies(f)) <= 1 \/ f \in forgotten

\* No request starts above a fill that is not recorded: what a crash or a deadline
\* drops from a batch, what a capped page cuts off, and what becomes visible within
\* the overlap, is asked for again.  (With the types of the state.)
NothingSkipped ==
    /\ WalletTypeOK
    /\ batch = <<>> =>
        \A f \in Heard \ passed :
            Wanted(f) /\ ~IsTwap(f) /\ At(f) < NextStart(Of(f)) => Recorded(f)

ServedBefore(g, f) ==
    \E i, j \in DOMAIN heard : i < j /\ heard[i] = g /\ heard[j] = f

\* A run fails its per-stream order gate only by a fill of userFillsByTime that
\* became visible after a newer fill of its wallet; slices never break it.
OnlyLateFillsBreakOrder ==
    \A i \in DOMAIN runs : \A j \in DOMAIN runs[i].rows :
        GoesBack(runs[i], j) =>
            LET f == runs[i].rows[j]
            IN /\ ~IsTwap(f)
               /\ \E k \in 1..(j - 1) :
                      LET g == runs[i].rows[k]
                      IN Of(g) = Of(f) /\ At(g) > At(f) /\ ServedBefore(g, f)

\* All that the next requests reach is recorded, unless a full page of one
\* millisecond stands before it.
Stuck(w) == Live /\ Capped(Answer(w)) /\ Cardinality(Stamps(Answer(w))) = 1
CaughtUp ==
    \A f \in Heard : Wanted(f) /\ ~IsTwap(f) /\ At(f) >= NextStart(Of(f))
                        => Recorded(f) \/ Stuck(Of(f))

\* With no other hot run, slices from the poller's start on are emitted.
SlicesFromNowOn ==
    Live /\ poller.alone =>
        \A w \in Wallets, f \in Fills :
            f \in BeyondHorizon(w) => At(f) < poller.born

\* The steps of the lane's process that get somewhere, and whether one is due.
Forward == Poll({}, {}) \/ Deliver \/ StartSegment
Pageable == {w \in Wallets : ~Unpageable(Answer(w))}
ForwardDue ==
    \/ ~Live /\ Segments < MaxSegments
    \/ batch # <<>>
    \/ Live /\ Swept(Pageable, IF TwapDue THEN Wallets ELSE {}) # poller
=============================================================================
