------------------------------ MODULE TextFeed ------------------------------
(***************************************************************************)
(* The text lanes (collectors/text_feeds.py, cli._collect_text_segment):   *)
(* RSS feeds, or the listings of subreddits, are polled, and an item that  *)
(* is new or edited becomes a row.  What was recorded is kept in a file of *)
(* bounded length, written when a segment has ended and been scored, and   *)
(* rebuilt then from what the segment left on disk: a poll remembers items *)
(* whose rows are still to be written, and a deadline may drop them.       *)
(*                                                                         *)
(* A poll is one step: its requests are independent reads, one per feed.   *)
(***************************************************************************)
EXTENDS Integers, Sequences, FiniteSets, FiniteSetsExt, SequencesExt

CONSTANTS
    Bodies,         \* Bodies[f]: what feed f may serve, sequences of entries [key, hash]
    Tagged,         \* feeds whose server sends validators; a listing of Reddit never does
    NoId,           \* the key of an item without a source_id
    SeenCap,        \* seen_cap
    TextRevisions, TextSegments, TextFaults     \* bounds

Feeds == DOMAIN Bodies
EntriesOf(f) == UNION {ToSet(body) : body \in Bodies[f]}
Entries == UNION {EntriesOf(f) : f \in Feeds}

\* A key is of one feed: _seen_key puts the product before the id.
ASSUME TextFeedAssumption ==
    /\ Bodies \in Seq(SUBSET Seq(Entries))
    /\ \A f, g \in Feeds : \A d \in EntriesOf(f), e \in EntriesOf(g) :
         f # g /\ d.key = e.key => e.key = NoId
    /\ Tagged \subseteq Feeds /\ SeenCap \in Nat \ {0}

VARIABLES
    served,     \* what each feed serves: [body, rev]
    seenFile,   \* the entries of the seen file, the most recent one last
    texts,      \* the lane's runs: [rows, state], and the history sighted
    reader,     \* the live segment's TextPollState and its batch, or NoReader
    killed

tvars == <<served, seenFile, texts, reader, killed>>

NoReader == [live |-> FALSE]
Reading == reader # NoReader
Own == Len(texts)
KeysOf(entries) == {e.key : e \in ToSet(entries)}

(***************************************************************************)
(* The seen map: a dict in order of insertion, at most one entry to a key. *)
(***************************************************************************)
\* A bug: an update leaves a key where it stood.
Overwrite(seen, entry) ==
    IF entry.key \in KeysOf(seen)
    THEN [k \in DOMAIN seen |-> IF seen[k].key = entry.key THEN entry ELSE seen[k]]
    ELSE Append(seen, entry)
\* _remember: popped and inserted anew.
Pop(seen, key) ==
    IF key \in KeysOf(seen)
    THEN RemoveAt(seen, CHOOSE k \in DOMAIN seen : seen[k].key = key)
    ELSE seen
Remember(seen, entry) == Append(Pop(seen, entry.key), entry)

\* One after the other.
RememberAll(seen, entries) ==
    LET after[k \in 0..Len(entries)] ==
            IF k = 0 THEN seen ELSE Remember(after[k - 1], entries[k])
    IN after[Len(entries)]

\* A bug: the map of the poll is saved.
PolledSnapshot(rows) == reader.seen
\* A bug: unchanged sightings are not saved.
SnapshotOfRows(rows) == RememberAll(seenFile, rows)
\* durable_seen_snapshot: what was loaded, what was seen unchanged, what was written.
DurableSnapshot(rows) == RememberAll(RememberAll(seenFile, reader.refreshed), rows)

\* write_text_seen
MostRecent(seen) ==
    IF Len(seen) > SeenCap THEN SubSeq(seen, Len(seen) - SeenCap + 1, Len(seen)) ELSE seen

(***************************************************************************)
(* make_rss_poll and make_reddit_poll.                                     *)
(***************************************************************************)
NotModified(f) == reader.held[f] # 0 /\ reader.held[f] = served[f].rev
Answers(f) == ~NotModified(f) /\ served[f].body # <<>>

\* One item.  Without an id it is emitted at every sight.
Sight(state, entry) ==
    IF entry.key = NoId
    THEN [state EXCEPT !.batch = Append(@, entry)]
    ELSE IF entry \in ToSet(state.seen)
         THEN [state EXCEPT !.seen = Remember(@, entry), !.refreshed = Remember(@, entry)]
         ELSE [state EXCEPT !.seen = Remember(@, entry), !.batch = Append(@, entry)]

\* The items of a body, in their order; the feeds that are asked, one after the other.
SightAll(state, body) ==
    LET after[k \in 0..Len(body)] == IF k = 0 THEN state ELSE Sight(after[k - 1], body[k])
    IN after[Len(body)]
SightFeeds(asked) ==
    LET after[f \in 0..Len(Bodies)] ==
            IF f = 0 THEN reader
            ELSE IF f \in asked THEN SightAll(after[f - 1], served[f].body) ELSE after[f - 1]
    IN after[Len(Bodies)]

\* A bug: the validators of a body that cannot be parsed are kept.
EagerValidators(f, parsed) == IF f \in Tagged THEN served[f].rev ELSE reader.held[f]
Validators(f, parsed) == IF parsed /\ f \in Tagged THEN served[f].rev ELSE reader.held[f]

\* failing: feeds whose request fails, or whose body has no recognizable item.  They
\* are passed over; the rows are yielded when all feeds have been asked.
PollFeeds(failing) ==
    /\ Reading
    /\ reader.batch = <<>>
    /\ LET usable == {f \in Feeds \ failing : Answers(f)}
       IN reader' = [SightFeeds(usable) EXCEPT
                        !.held = [f \in Feeds |->
                            IF Answers(f) THEN Validators(f, f \in usable) ELSE @[f]],
                        !.begun = FALSE]
    /\ UNCHANGED <<served, seenFile, texts, killed>>

(***************************************************************************)
(* A segment.                                                              *)
(***************************************************************************)
OpenSegment ==
    /\ ~Reading
    /\ Len(texts) < TextSegments
    /\ texts' = Append(texts, [rows |-> <<>>, state |-> "open", sighted |-> {}])
    /\ reader' = [live |-> TRUE, seen |-> seenFile, refreshed |-> <<>>,
                  held |-> [f \in Feeds |-> 0], batch |-> <<>>, begun |-> FALSE]
    /\ UNCHANGED <<served, seenFile, killed>>

\* The gate (TextQualityGate) refuses an item without an id and nothing else.
WriteItem ==
    /\ Reading
    /\ reader.batch # <<>>
    /\ LET entry == Head(reader.batch)
       IN texts' = IF entry.key = NoId THEN texts
                   ELSE [texts EXCEPT ![Own].rows = Append(@, entry)]
    /\ reader' = [reader EXCEPT !.batch = Tail(@), !.begun = TRUE]
    /\ UNCHANGED <<served, seenFile, killed>>

\* The deadline or the row limit: after a row, accepted or not, or between polls.  The
\* rest of the batch is dropped, the run is scored, and the seen file is written.
CloseSegment ==
    /\ Reading
    /\ Len(texts) < TextSegments
    /\ reader.batch = <<>> \/ reader.begun
    /\ texts' = [texts EXCEPT ![Own].state = "closed",
                              ![Own].sighted = KeysOf(reader.refreshed) \cup KeysOf(texts[Own].rows)]
    /\ seenFile' = MostRecent(DurableSnapshot(texts[Own].rows))
    /\ reader' = NoReader
    /\ UNCHANGED <<served, killed>>

\* A kill, an error of a request that the poll does not contain (a body cut short, a
\* listing that is not JSON), or a power loss that takes the last row along.
KillSegment ==
    /\ Reading
    /\ Len(texts) < TextSegments
    /\ killed < TextFaults
    /\ \E lost \in {0, 1} :
         /\ lost <= Len(texts[Own].rows)
         /\ texts' = [texts EXCEPT ![Own].state = "killed",
                                   ![Own].rows = SubSeq(@, 1, Len(@) - lost)]
    /\ killed' = killed + 1
    /\ reader' = NoReader
    /\ UNCHANGED <<served, seenFile>>

\* The publisher: items come, are edited and edited back, and go.
Revise(f) ==
    /\ FoldLeft(LAMBDA n, s : n + s.rev, 0, served) < TextRevisions
    /\ \E body \in Bodies[f] \ {served[f].body} :
         served' = [served EXCEPT ![f] = [body |-> body, rev |-> @.rev + 1]]
    /\ UNCHANGED <<seenFile, texts, reader, killed>>

TextInit ==
    /\ served = [f \in Feeds |-> [body |-> <<>>, rev |-> 0]]
    /\ seenFile = <<>>
    /\ texts = <<>>
    /\ reader = NoReader
    /\ killed = 0

TextNext ==
    \/ OpenSegment \/ WriteItem \/ CloseSegment \/ KillSegment
    \/ \E failing \in SUBSET Feeds : PollFeeds(failing)
    \/ \E f \in Feeds : Revise(f)

(***************************************************************************)
(* Properties.                                                             *)
(***************************************************************************)
OncePerKey(seen) == \A k, m \in DOMAIN seen : seen[k].key = seen[m].key => k = m
TextTypeOK ==
    /\ ToSet(seenFile) \subseteq Entries /\ Len(seenFile) <= SeenCap /\ OncePerKey(seenFile)
    /\ \A i \in DOMAIN texts :
         /\ ToSet(texts[i].rows) \subseteq Entries /\ NoId \notin KeysOf(texts[i].rows)
         /\ texts[i].state = "open" <=> Reading /\ i = Own
    /\ Reading => /\ OncePerKey(reader.seen)
                  /\ ToSet(reader.seen) \cup ToSet(reader.refreshed) \subseteq Entries
                  /\ \A f \in Feeds : reader.held[f] \in 0..served[f].rev

ClosedTexts == {i \in DOMAIN texts : texts[i].state = "closed"}

\* Of what these runs wrote of its item, the entry is the last.
IsLatest(entry, runs_) ==
    \E i \in runs_ : \E k \in DOMAIN texts[i].rows :
        /\ texts[i].rows[k] = entry
        /\ \A j \in runs_ : \A m \in DOMAIN texts[j].rows :
             texts[j].rows[m].key = entry.key => j < i \/ (j = i /\ m <= k)

\* An item that a feed lists twice in one body.
Doubled ==
    {e \in Entries : \E f \in Feeds : \E body \in Bodies[f] :
        \E k, m \in DOMAIN body : k # m /\ body[k] = e /\ body[m] = e}

\* What the seen file says of an item is what the finished segments wrote of it last,
\* and what a poll remembers is that, or written since, or about to be: so an item
\* whose row a deadline drops is new again to the next segment.  Excepted is an item
\* listed twice in one body: its second sight counts as unchanged while the row of the
\* first one is not written yet.  (With the types of the state.)
NoItemSkipped ==
    /\ TextTypeOK
    /\ \A e \in ToSet(seenFile) \ Doubled : IsLatest(e, ClosedTexts)
    /\ Reading =>
        \A e \in ToSet(reader.seen) \ Doubled :
            e \in ToSet(reader.batch) \/ IsLatest(e, ClosedTexts \cup {Own})

\* Between its row in run i and run j, the file forgot an item: since the last segment
\* that sighted it, as many others were sighted as the file holds.
Evicted(key, i, j) ==
    \E m \in ClosedTexts \cap (i..(j - 1)) :
        LET since == {l \in ClosedTexts \cap (i..m) :
                        \A c \in ClosedTexts \cap ((l + 1)..m) : key \notin texts[c].sighted}
        IN Cardinality((UNION {texts[l].sighted : l \in since}) \ {key}) >= SeenCap

\* The order in which rows were written: row k of run i, then row m of run j.
RowBefore(i, k, j, m) == i < j \/ (i = j /\ k < m)

\* Another version of the item, that a feed lists twice, may have been taken for written.
Retold(entry) == \E e \in Doubled : e.key = entry.key /\ e # entry

\* A version of an item is written again, with no other version of it in between, only
\* when the segment that wrote it first never got to write the seen file, or the file
\* was too short: an item in sight does not age out of it.  Or when the file names a
\* version in between whose row was dropped, which is what NoItemSkipped excepts.
NoItemTwice ==
    \A i, j \in DOMAIN texts : \A k \in DOMAIN texts[i].rows, m \in DOMAIN texts[j].rows :
        LET entry == texts[i].rows[k]
        IN  /\ RowBefore(i, k, j, m) /\ texts[j].rows[m] = entry
            /\ \A r \in i..j : \A n \in DOMAIN texts[r].rows :
                 RowBefore(i, k, r, n) /\ RowBefore(r, n, j, m) => texts[r].rows[n].key # entry.key
            => /\ i # j
               /\ texts[i].state = "killed" \/ Evicted(entry.key, i, j) \/ Retold(entry)

\* An item in sight that the poll does not know.
UnreadIn(f) == {e \in ToSet(served[f].body) : e.key # NoId /\ e \notin ToSet(reader.seen)}

\* All that is served has been taken in and written.
UpToDate == Reading /\ reader.batch = <<>> /\ \A f \in Feeds : UnreadIn(f) = {}

\* The process opens the next segment and writes what it has; and not every poll to
\* come fails to read a feed that has news.
TextForward == WriteItem \/ OpenSegment
TextForwardDue == IF Reading THEN reader.batch # <<>> ELSE Len(texts) < TextSegments
NewsDue(f) == Reading /\ reader.batch = <<>> /\ Answers(f) /\ UnreadIn(f) # {}
ReadsNews(f) == NewsDue(f) /\ \E failing \in SUBSET (Feeds \ {f}) : PollFeeds(failing)
=============================================================================
