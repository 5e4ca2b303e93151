-------------------------- MODULE DepthLaneProofs --------------------------
(***************************************************************************)
(* A replayable depth run is a proof of its book (DepthLane.tla), for      *)
(* every bound of the venue, the wire, the faults and the reconnects.      *)
(*                                                                         *)
(* The invariant says what a frame in flight or in a buffer tells of the   *)
(* venue's past (Genuine), what a score without a finding stands for       *)
(* (RestHolds, StreamHolds) and when the curated reader agrees             *)
(* (CuratedHolds); a row keeps it, so a batch of rows does, and so do the  *)
(* snapshot, the reconnects and every fault of the wire.                   *)
(*                                                                         *)
(* Nor does a run fail for nothing: while the wire is left alone its       *)
(* frames and the buffered ones follow one another up to the venue         *)
(* (QuietWire), and the run waits for the very next one (QuietRest,        *)
(* QuietStream).                                                           *)
(***************************************************************************)
EXTENDS DepthLane, SequenceTheorems, FiniteSetTheorems, WellFoundedInduction, TLAPS

-----------------------------------------------------------------------------
(* The state, and what of it is true.                                        *)

Changes == UNION {[S -> {0, 1}] : S \in SUBSET Levels}
Frames == [kind : {"delta", "snapshot"}, prev : Int, id : Int, levels : Changes,
           top : Book, bad : BOOLEAN]
Shots == [id : Int, book : Book]
Scores == [events : BOOLEAN, opens : BOOLEAN, anchored : BOOLEAN, prev : Int, time : Int,
           book : Book, curated : Book, findings : SUBSET Gating, diverged : BOOLEAN]

\* No update of the venue lies between p and n.
Adjacent(p, n) ==
    /\ p \in DOMAIN past /\ n \in DOMAIN past /\ p <= n
    /\ \A d \in DOMAIN past : ~(p < d /\ d < n)

\* A frame, garbled or not, tells what the venue's book was and became.
Genuine(f) ==
    /\ f \in Frames /\ f.id \in DOMAIN past /\ f.top = Visible(past[f.id])
    /\ f.kind = "snapshot" => f.levels = f.top
    /\ f.kind = "delta" => Adjacent(f.prev, f.id) /\ f.levels = Changed(past[f.prev], past[f.id])
    /\ mode = "full" => f.kind = "snapshot"
    /\ mode = "rest" => f.kind = "delta" /\ f.prev < f.id
    /\ mode = "dense" /\ f.kind = "delta" => f.id = f.prev + 1

GenuineFrames == {f \in Frames : Genuine(f)}
IsShot(s) == s.id \in DOMAIN past /\ s.book = past[s.id]

PastInv ==
    /\ mode \in AllModes /\ venue \in Shots
    /\ DOMAIN past \subseteq {i \in Nat : i <= venue.id}
    /\ \A i \in DOMAIN past : past[i] \in Book
    /\ IsShot(venue)

WireInv ==
    /\ wire \in Seq(GenuineFrames) /\ buffer \in Seq(GenuineFrames)
    /\ snapshot \in Shots /\ (snapshot.id # None => IsShot(snapshot))
    /\ fetch.state = "here" => fetch.answer \in Shots /\ IsShot(fetch.answer)
    /\ mode # "rest" => snapshot.id = None /\ fetch.state = "idle"

\* What the score s of a run that began at base stands for, if it found nothing.
RestHolds(s, base) ==
    s.findings = {} =>
        /\ s.anchored => s.prev \in DOMAIN past
        /\ ~s.diverged /\ s.book = past[IF s.anchored THEN s.prev ELSE base]
StreamHolds(s) ==
    /\ ~s.events => s.findings = {} /\ ~s.diverged /\ ~s.opens
    /\ s.events /\ s.opens /\ s.findings = {} /\ mode # "none" =>
        /\ ~s.diverged
        /\ mode \in {"dense", "chain"} => s.prev \in DOMAIN past /\ s.book = past[s.prev]
Holding(s, base) == s \in Scores /\ IF mode = "rest" THEN RestHolds(s, base) ELSE StreamHolds(s)

\* Whoever applies every delta to the snapshot holds the same book.
CuratedHolds(s) == s.anchored /\ s.curated = s.book

ScoreInv ==
    /\ score \in Scores /\ bridged \in BOOLEAN
    /\ mode # "rest" => StreamHolds(score)
    /\ mode = "rest" /\ score.events =>
        /\ phase # "opening" /\ snapshot.id # None
        /\ RestHolds(score, snapshot.id) /\ (bridged => CuratedHolds(score))
    /\ mode = "rest" /\ ~score.events => phase \in {"opening", "dead"}

ProofInv == PastInv /\ WireInv /\ ScoreInv

-----------------------------------------------------------------------------
(* Books.                                                                    *)

LEMMA BooksApply ==
    ASSUME NEW book \in Book, NEW levels \in Changes
    PROVE  /\ ApplyLevels(book, levels) \in Book
           /\ levels \in Book => ApplyLevels(book, levels) = levels
           /\ DOMAIN levels \subseteq Levels /\ \A l \in DOMAIN levels : levels[l] \in {0, 1}
<1>1. PICK S \in SUBSET Levels : levels \in [S -> {0, 1}] BY DEF Changes
<1>2. DOMAIN levels = S /\ \A l \in S : levels[l] \in {0, 1} BY <1>1
<1>3. ApplyLevels(book, levels) \in Book BY <1>2 DEF ApplyLevels, Book
<1>4. ASSUME levels \in Book PROVE ApplyLevels(book, levels) = levels
  <2>1. DOMAIN levels = Levels /\ levels = [l \in Levels |-> levels[l]] BY <1>4 DEF Book
  <2> QED BY <2>1 DEF ApplyLevels
<1> QED BY <1>2, <1>3, <1>4

LEMMA BookIsChanges == ASSUME NEW book \in Book PROVE book \in Changes
BY DEF Book, Changes

LEMMA EmptyIsBook == EmptyBook \in Book
BY DEF EmptyBook, Book

LEMMA TrimIsBook == ASSUME NEW book \in Book, NEW n PROVE TrimBook(book, n) \in Book
BY DEF TrimBook, Book

\* The levels better than l that a book has.
LEMMA BetterLevels ==
    ASSUME NEW l \in Levels, NEW book
    PROVE  LET better == {k \in 1..(l - 1) : book[k] > 0}
           IN  IsFiniteSet(better) /\ Cardinality(better) \in Nat
<1> DEFINE better == {k \in 1..(l - 1) : book[k] > 0}
<1>1. l - 1 \in Int BY DepthLaneAssumption DEF Levels
<1>2. IsFiniteSet(1..(l - 1)) BY <1>1, FS_Interval
<1>3. better \in SUBSET (1..(l - 1)) OBVIOUS
<1>4. IsFiniteSet(better) BY <1>2, <1>3, FS_Subset
<1> QED BY <1>4, FS_CardinalityType

LEMMA TrimTwice ==
    ASSUME NEW book \in Book
    PROVE  TrimBook(TrimBook(book, Published), Published) = TrimBook(book, Published)
<1> DEFINE trimmed == TrimBook(book, Published)
           Better(b, l) == {k \in 1..(l - 1) : b[k] > 0}
<1>1. \A l \in Levels :
        trimmed[l] = IF Cardinality(Better(book, l)) < Published THEN book[l] ELSE 0
  BY DEF TrimBook
<1>2. \A l \in Levels : TrimBook(trimmed, Published)[l] =
        IF Cardinality(Better(trimmed, l)) < Published THEN trimmed[l] ELSE 0
  BY DEF TrimBook
<1>3. ASSUME NEW l \in Levels PROVE TrimBook(trimmed, Published)[l] = trimmed[l]
  <2>1. CASE Cardinality(Better(book, l)) < Published
    <3>1. Better(trimmed, l) \in SUBSET Better(book, l)
      <4> SUFFICES ASSUME NEW k \in 1..(l - 1), trimmed[k] > 0 PROVE book[k] > 0 OBVIOUS
      <4>1. k \in Levels BY DepthLaneAssumption DEF Levels
      <4>2. trimmed[k] = book[k] \/ trimmed[k] = 0 BY <1>1, <4>1
      <4> HIDE DEF trimmed
      <4> QED BY <4>2
    <3>2. IsFiniteSet(Better(book, l)) /\ Cardinality(Better(book, l)) \in Nat
      BY BetterLevels
    <3>3. Cardinality(Better(trimmed, l)) <= Cardinality(Better(book, l))
      <4> HIDE DEF Better
      <4> QED BY <3>1, <3>2, FS_Subset
    <3>4. Cardinality(Better(trimmed, l)) \in Nat BY BetterLevels
    <3>5. Cardinality(Better(trimmed, l)) < Published
      <4> HIDE DEF Better
      <4> QED BY <2>1, <3>2, <3>3, <3>4, DepthLaneAssumption
    <3> QED BY <1>2, <3>5
  <2>2. CASE ~(Cardinality(Better(book, l)) < Published)
    BY <1>1, <1>2, <2>2
  <2> QED BY <2>1, <2>2
<1>4. trimmed \in Book /\ TrimBook(trimmed, Published) \in Book BY TrimIsBook
<1> QED BY <1>3, <1>4 DEF Book

LEMMA VisibleIsBook ==
    ASSUME NEW book \in Book
    PROVE  Visible(book) \in Book /\ (mode # "checksum" => Visible(book) = book)
BY TrimIsBook DEF Visible

\* What changed, applied to the old book, gives the new one.
LEMMA ChangesApply ==
    ASSUME NEW old \in Book, NEW new \in Book
    PROVE  /\ Changed(old, new) \in Changes
           /\ mode # "checksum" => ApplyLevels(old, Changed(old, new)) = new
<1> DEFINE sent == {l \in Levels : /\ Visible(old)[l] # Visible(new)[l]
                                   /\ Visible(new)[l] > 0 \/ new[l] = 0}
<1>1. Changed(old, new) = [l \in sent |-> Visible(new)[l]] BY DEF Changed
<1>2. Visible(new) \in Book /\ Visible(old) \in Book BY VisibleIsBook
<1>3. \A l \in Levels : Visible(new)[l] \in {0, 1} BY <1>2 DEF Book
<1>4. Changed(old, new) \in Changes
  <2>1. sent \in SUBSET Levels OBVIOUS
  <2>2. Changed(old, new) \in [sent -> {0, 1}] BY <1>1, <1>3
  <2> QED BY <2>1, <2>2 DEF Changes
<1>5. ASSUME mode # "checksum" PROVE ApplyLevels(old, Changed(old, new)) = new
  <2>1. Visible(old) = old /\ Visible(new) = new BY <1>5, VisibleIsBook
  <2>2. \A l \in Levels : new[l] \in {0, 1} /\ old[l] \in {0, 1} BY DEF Book
  <2>3. \A l \in Levels : l \in sent <=> old[l] # new[l] BY <2>1, <2>2
  <2>4. DOMAIN Changed(old, new) = sent /\ \A l \in sent : Changed(old, new)[l] = new[l]
    BY <1>1, <2>1
  <2>5. ApplyLevels(old, Changed(old, new)) = [l \in Levels |-> new[l]]
    BY <2>3, <2>4 DEF ApplyLevels
  <2>6. new = [l \in Levels |-> new[l]] BY DEF Book
  <2> QED BY <2>5, <2>6
<1> QED BY <1>4, <1>5

-----------------------------------------------------------------------------
(* One row through the scorer.                                               *)

\* What a row says of its frame.
LEMMA RowOfFrame ==
    ASSUME NEW f \in Frames
    PROVE  /\ mode = "rest" => Row(f).first = f.prev + 1 /\ Row(f).final = f.id
           /\ mode = "dense" => Row(f).uid = f.id
           /\ mode = "chain" => Row(f).first = f.prev /\ Row(f).final = f.id
           /\ mode = "checksum" => Row(f).crc = f.top
           /\ mode \in AllModes =>
                /\ Row(f).levels = f.levels /\ Row(f).snap = (f.kind = "snapshot")
                /\ Row(f).time \in Int /\ Row(f).uid \in Int /\ Row(f).final \in Int
<1>1. f.prev \in Int /\ f.id \in Int /\ f.kind \in {"delta", "snapshot"} /\ None \in Int
  BY DEF Frames, None
<1> DEFINE p == PlainRow(f)
<1>2. p = [snap |-> f.kind = "snapshot", first |-> None, final |-> None, uid |-> None,
           time |-> f.id, crc |-> EmptyBook, levels |-> f.levels]
  BY DEF PlainRow
<1> HIDE DEF p
<1>3. CASE mode = "rest"
  <2>1. Row(f) = [p EXCEPT !.first = f.prev + 1, !.final = f.id]
    BY <1>3 DEF Row, BinanceRow, p
  <2> QED BY <1>1, <1>2, <1>3, <2>1
<1>4. CASE mode = "dense"
  <2>1. Row(f) = [p EXCEPT !.uid = f.id] BY <1>4 DEF Row, BybitRow, p
  <2> QED BY <1>1, <1>2, <1>4, <2>1
<1>5. CASE mode = "chain"
  <2>1. Row(f) = [p EXCEPT !.first = f.prev, !.final = f.id] BY <1>5 DEF Row, OkxRow, p
  <2> QED BY <1>1, <1>2, <1>5, <2>1
<1>6. CASE mode = "checksum"
  <2>1. Row(f) = Untimed([p EXCEPT !.crc = f.top]) BY <1>6 DEF Row, KrakenRow, p
  <2>2. Row(f) = [p EXCEPT !.crc = f.top] \/ Row(f) = [[p EXCEPT !.crc = f.top] EXCEPT !.time = None]
    BY <2>1 DEF Untimed
  <2> QED BY <1>1, <1>2, <1>6, <2>2
<1>7. CASE mode = "full"
  <2>1. Row(f) = p BY <1>7 DEF Row, MexcRow, p
  <2> QED BY <1>1, <1>2, <1>7, <2>1
<1>8. CASE mode = "none"
  <2>1. Row(f) = Untimed(p) BY <1>8 DEF Row, CoinbaseRow, p
  <2>2. Row(f) = p \/ Row(f) = [p EXCEPT !.time = None] BY <2>1 DEF Untimed
  <2> QED BY <1>1, <1>2, <1>8, <2>2
<1> QED BY <1>3, <1>4, <1>5, <1>6, <1>7, <1>8 DEF AllModes

\* The row of a REST lane.
LEMMA RestRow ==
    ASSUME PastInv, mode = "rest", NEW f, Genuine(f), NEW base, base \in DOMAIN past,
           NEW s, Holding(s, base), s.events
    PROVE  LET t == RestScored(s, Row(f), base)
           IN  /\ t \in Scores /\ t.events
               /\ t.findings = {} => /\ t.anchored => t.prev \in DOMAIN past
                                    /\ ~t.diverged
                                    /\ t.book = past[IF t.anchored THEN t.prev ELSE base]
               /\ t.curated = s.curated /\ t.diverged = s.diverged
               /\ s.anchored \/ f.id > base =>
                    t.anchored /\ t.book = ApplyLevels(s.book, f.levels)
<1> DEFINE r == Row(f)
           skipped == ~s.anchored /\ f.id <= base
           found == IF ~s.anchored
                    THEN IF f.prev + 1 > base + 1 THEN {"snapshot_anchor_gap"} ELSE {}
                    ELSE IF f.id <= s.prev THEN {"reordered_or_duplicate_updates"}
                    ELSE IF f.prev + 1 > s.prev + 1 THEN {"gaps_detected"} ELSE {}
           book == ApplyLevels(s.book, f.levels)
           prev == IF s.anchored /\ f.id <= s.prev THEN s.prev ELSE f.id
           t == RestScored(s, r, base)
<1>1. /\ f \in Frames /\ f.prev \in Int /\ f.id \in Int /\ f.levels \in Changes
      /\ f.prev < f.id /\ Adjacent(f.prev, f.id) /\ f.levels = Changed(past[f.prev], past[f.id])
  BY DEF Genuine, Frames
<1>2. s \in Scores /\ RestHolds(s, base) BY DEF Holding
<1>3. r.first = f.prev + 1 /\ r.final = f.id /\ r.levels = f.levels
  BY <1>1, RowOfFrame DEF AllModes
<1>4. base \in Int /\ \A i \in DOMAIN past : i \in Int /\ past[i] \in Book
  BY DEF PastInv
<1>5. s.prev \in Int /\ s.book \in Book /\ s.findings \in SUBSET Gating BY <1>2 DEF Scores
<1>6. book \in Book BY <1>1, <1>5, BooksApply
<1>7. found \in SUBSET Gating BY DEF Gating
<1>8. t = IF skipped THEN [s EXCEPT !.events = TRUE]
          ELSE [s EXCEPT !.events = TRUE, !.anchored = TRUE, !.prev = prev,
                         !.findings = s.findings \cup found, !.book = book]
  BY <1>3 DEF RestScored
<1>9. ApplyLevels(past[f.prev], f.levels) = past[f.id]
  BY <1>1, <1>4, ChangesApply DEF Adjacent
<1> HIDE DEF r, t, book, found, prev
<1>10. CASE skipped
  <2>1. t = [s EXCEPT !.events = TRUE] BY <1>8, <1>10
  <2>2. /\ t \in Scores /\ t.events /\ t.findings = s.findings /\ t.anchored = s.anchored
        /\ t.prev = s.prev /\ t.book = s.book /\ t.curated = s.curated /\ t.diverged = s.diverged
    BY <1>2, <2>1 DEF Scores
  <2> QED BY <1>1, <1>2, <1>4, <1>10, <2>2 DEF RestHolds, t, r
<1>11. CASE ~skipped
  <2>1. /\ t = [s EXCEPT !.events = TRUE, !.anchored = TRUE, !.prev = prev,
                         !.findings = s.findings \cup found, !.book = book]
        /\ prev \in Int
    BY <1>1, <1>5, <1>8, <1>11 DEF prev
  <2>2. /\ t \in Scores /\ t.events /\ t.findings = s.findings \cup found /\ t.anchored
        /\ t.prev = prev /\ t.book = book /\ t.curated = s.curated /\ t.diverged = s.diverged
    BY <1>2, <1>6, <1>7, <2>1 DEF Scores
  <2>3. ASSUME t.findings = {}
        PROVE  t.prev \in DOMAIN past /\ ~t.diverged /\ t.book = past[t.prev]
    <3>1. s.findings = {} /\ found = {} BY <2>2, <2>3
    <3>2. ~s.diverged /\ s.book = past[IF s.anchored THEN s.prev ELSE base]
          /\ (s.anchored => s.prev \in DOMAIN past)
      BY <1>2, <3>1 DEF RestHolds
    <3>3. CASE s.anchored
      <4>1. f.id > s.prev /\ f.prev <= s.prev BY <1>1, <1>5, <3>1, <3>3 DEF found
      <4>2. f.prev = s.prev BY <1>1, <1>4, <1>5, <3>2, <3>3, <4>1 DEF Adjacent
      <4>3. prev = f.id BY <1>1, <1>5, <4>1 DEF prev
      <4>4. book = past[f.id] BY <1>9, <3>2, <3>3, <4>2 DEF book
      <4> QED BY <1>1, <2>2, <3>2, <4>3, <4>4 DEF Adjacent
    <3>4. CASE ~s.anchored
      <4>1. f.id > base /\ f.prev <= base BY <1>1, <1>4, <1>11, <3>1, <3>4 DEF found
      <4>2. f.prev = base BY <1>1, <1>4, <4>1 DEF Adjacent
      <4>3. prev = f.id BY <3>4 DEF prev
      <4>4. book = past[f.id] BY <1>9, <3>2, <3>4, <4>2 DEF book
      <4> QED BY <1>1, <2>2, <3>2, <4>3, <4>4 DEF Adjacent
    <3> QED BY <3>3, <3>4
  <2> QED BY <2>2, <2>3 DEF t, r, book
<1> QED BY <1>10, <1>11

\* The row of a stream lane.
LEMMA StreamRow ==
    ASSUME PastInv, mode # "rest", NEW f, Genuine(f), NEW s, NEW base, Holding(s, base)
    PROVE  LET t == StreamScored(s, Row(f))
           IN  /\ t \in Scores /\ t.events
               /\ t.diverged = s.diverged /\ (t.findings = {} => s.findings = {})
               /\ t.opens /\ t.findings = {} /\ mode # "none" =>
                    /\ t.book = Visible(past[f.id]) /\ (s.events => s.opens)
                    /\ mode \in {"dense", "chain"} => t.prev = f.id
<1> DEFINE r == Row(f)
           t == StreamScored(s, r)
           book == StreamBook(s, r)
           id == CASE mode = "dense" -> r.uid [] mode = "chain" -> r.final [] OTHER -> None
           found == CASE mode = "dense" -> DenseFindings(s, r)
                      [] mode = "chain" -> ChainFindings(s, r)
                      [] mode = "checksum" -> ChecksumFindings(book, r)
                      [] OTHER -> {}
           all == s.findings \cup found \cup TimeFindings(s, r)
<1>1. /\ f \in Frames /\ f.prev \in Int /\ f.id \in Int /\ f.levels \in Changes
      /\ f.kind \in {"delta", "snapshot"} /\ f.id \in DOMAIN past
      /\ f.top = Visible(past[f.id]) /\ past[f.id] \in Book
  BY DEF Genuine, Frames, PastInv
<1>2. s \in Scores /\ StreamHolds(s) BY DEF Holding
<1>3. /\ r.levels = f.levels /\ (r.snap <=> f.kind = "snapshot") /\ r.snap \in BOOLEAN
      /\ r.time \in Int /\ r.uid \in Int /\ r.final \in Int
      /\ mode = "dense" => r.uid = f.id
      /\ mode = "chain" => r.first = f.prev /\ r.final = f.id
      /\ mode = "checksum" => r.crc = f.top
  BY <1>1, RowOfFrame DEF PastInv
<1> HIDE DEF r
<1>4. /\ s.prev \in Int /\ s.time \in Int /\ s.book \in Book /\ s.findings \in SUBSET Gating
      /\ s.events \in BOOLEAN /\ s.opens \in BOOLEAN
  BY <1>2 DEF Scores
<1>5. book \in Book
  <2>1. EmptyBook \in Book BY EmptyIsBook
  <2>2. \A b \in Book : Bounded(b) \in Book BY TrimIsBook DEF Bounded
  <2>3. ApplyLevels(EmptyBook, r.levels) \in Book /\ ApplyLevels(s.book, r.levels) \in Book
    BY <1>1, <1>3, <1>4, <2>1, BooksApply
  <2> QED BY <2>2, <2>3 DEF StreamBook, BookFromSnapshot
<1>6. all \in SUBSET Gating
  <2>1. found \in SUBSET Gating
    BY DEF Gating, DenseFindings, ChainFindings, ChecksumFindings
  <2>2. TimeFindings(s, r) \in SUBSET Gating BY DEF Gating, TimeFindings
  <2> HIDE DEF found
  <2> QED BY <1>4, <2>1, <2>2
<1>7. id \in Int BY <1>3 DEF None
<1>8. t = [s EXCEPT !.events = TRUE, !.opens = IF s.events THEN s.opens ELSE r.snap, !.prev = id,
                    !.time = IF r.time = None \/ r.time < s.time THEN s.time ELSE r.time,
                    !.findings = all, !.book = book]
  BY DEF StreamScored
<1> HIDE DEF t, all, id, book
<1>9. /\ t \in Scores /\ t.events /\ t.diverged = s.diverged /\ t.findings = all /\ t.book = book
      /\ t.prev = id /\ t.opens = (IF s.events THEN s.opens ELSE r.snap)
  BY <1>2, <1>3, <1>4, <1>5, <1>6, <1>7, <1>8 DEF Scores
<1>10. all = {} => s.findings = {} /\ found = {}
  <2> HIDE DEF found
  <2> QED BY DEF all
<1>11. ASSUME t.opens, all = {}, mode # "none"
       PROVE  /\ book = Visible(past[f.id]) /\ (s.events => s.opens)
              /\ mode \in {"dense", "chain"} => id = f.id
  <2>1. s.findings = {} /\ found = {} BY <1>10, <1>11
  <2>2. s.events => s.opens BY <1>9, <1>11
  <2>3. ~s.events => r.snap BY <1>9, <1>11
  <2>4. mode \in {"dense", "chain"} => id = f.id BY <1>3 DEF id
  <2>5. CASE mode = "checksum"
    <3>1. book = Visible(past[f.id])
      <4>1. TrimBook(book, Published) = f.top
        BY <1>3, <2>1, <2>5 DEF ChecksumFindings
      <4>2. \E b \in Book : book = TrimBook(b, Published)
        <5>1. EmptyBook \in Book BY EmptyIsBook
        <5>2. ApplyLevels(EmptyBook, r.levels) \in Book /\ ApplyLevels(s.book, r.levels) \in Book
          BY <1>1, <1>3, <1>4, <5>1, BooksApply
        <5> QED BY <2>5, <5>2 DEF book, StreamBook, BookFromSnapshot, Bounded
      <4> QED BY <1>1, <4>1, <4>2, TrimTwice
    <3> QED BY <2>2, <2>4, <3>1
  <2>6. CASE r.snap /\ mode # "checksum"
    <3>1. f.levels = Visible(past[f.id]) /\ f.levels \in Book
      BY <1>1, <1>3, <2>6, VisibleIsBook DEF Genuine
    <3>2. book = f.levels
      <4>1. ApplyLevels(EmptyBook, f.levels) = f.levels
        BY <1>1, <3>1, EmptyIsBook, BooksApply
      <4> QED BY <1>3, <2>6, <4>1 DEF book, StreamBook, BookFromSnapshot, Bounded
    <3> QED BY <2>2, <2>4, <3>1, <3>2
  <2>7. CASE ~r.snap /\ mode # "checksum"
    <3>1. f.kind = "delta" /\ s.events /\ s.opens BY <1>1, <1>3, <2>2, <2>3, <2>7
    <3>2. mode \in {"dense", "chain"}
      BY <1>11, <2>7, <3>1 DEF Genuine, PastInv, AllModes
    <3>3. s.prev \in DOMAIN past /\ s.book = past[s.prev]
      BY <1>2, <1>11, <2>1, <3>1, <3>2 DEF StreamHolds
    <3>4. s.prev # None BY <3>3 DEF PastInv, None
    <3>5. f.prev = s.prev
      <4>1. CASE mode = "dense"
        <5>1. f.id = f.prev + 1 BY <3>1, <4>1 DEF Genuine
        <5>2. ~(r.uid <= s.prev) /\ ~(r.uid > s.prev + 1)
          BY <2>1, <2>7, <3>4, <4>1 DEF DenseFindings
        <5> QED BY <1>1, <1>3, <1>4, <4>1, <5>1, <5>2
      <4>2. CASE mode = "chain"
        BY <1>3, <2>1, <2>7, <3>4, <4>2 DEF ChainFindings
      <4> QED BY <3>2, <4>1, <4>2
    <3>6. book = past[f.id]
      <4>1. book = ApplyLevels(s.book, f.levels)
        BY <1>3, <2>7 DEF book, StreamBook, Bounded
      <4>2. f.levels = Changed(past[f.prev], past[f.id]) /\ past[f.prev] \in Book
        BY <3>1, <3>3, <3>5 DEF Genuine, PastInv
      <4> QED BY <1>1, <2>7, <3>3, <3>5, <4>1, <4>2, ChangesApply
    <3> QED BY <1>1, <2>2, <2>4, <2>7, <3>6, VisibleIsBook
  <2> QED BY <2>5, <2>6, <2>7
<1> QED BY <1>9, <1>10, <1>11 DEF t, r

\* A frame through the normalizer, the gate and the scorer.
LEMMA RecordedHolds ==
    ASSUME PastInv, NEW f, Genuine(f), NEW s, NEW base, Holding(s, base),
           mode = "rest" => s.events /\ base \in DOMAIN past
    PROVE  LET t == Recorded(s, f, base)
           IN  /\ Holding(t, base) /\ (s.events => t.events)
               /\ mode = "rest" /\ CuratedHolds(s) => CuratedHolds(t)
               /\ mode = "rest" /\ Accepted(f) /\ f.id > base /\ s.curated = s.book => CuratedHolds(t)
<1> DEFINE u == IF mode = "rest" THEN RestScored(s, Row(f), base) ELSE StreamScored(s, Row(f))
           t == Recorded(s, f, base)
           curated == IF mode = "rest" THEN ApplyLevels(u.curated, f.levels) ELSE u.curated
           diverged == u.diverged \/ Diverges(u, f, base)
<1>1. s \in Scores /\ f \in Frames BY DEF Holding, Genuine
<1>2. t = IF ~Accepted(f) THEN s ELSE [u EXCEPT !.curated = curated, !.diverged = diverged]
  BY DEF Recorded
<1>3. CASE ~Accepted(f) BY <1>2, <1>3
<1>4. CASE Accepted(f) /\ mode = "rest"
  <2>1. /\ u \in Scores /\ u.events
        /\ u.findings = {} => /\ u.anchored => u.prev \in DOMAIN past
                              /\ ~u.diverged
                              /\ u.book = past[IF u.anchored THEN u.prev ELSE base]
        /\ u.curated = s.curated
        /\ s.anchored \/ f.id > base => u.anchored /\ u.book = ApplyLevels(s.book, f.levels)
    BY <1>4, RestRow
  <2>2. curated = ApplyLevels(u.curated, f.levels) BY <1>4
  <2>3. u.findings = {} => diverged = FALSE BY <1>4, <2>1 DEF Diverges
  <2>4. curated \in Book
    <3>1. u.curated \in Book /\ f.levels \in Changes BY <1>1, <2>1 DEF Scores, Frames
    <3> QED BY <2>2, <3>1, BooksApply
  <2>5. diverged \in BOOLEAN BY <2>1 DEF Scores
  <2> HIDE DEF u, t, curated, diverged
  <2>6. t = [u EXCEPT !.curated = curated, !.diverged = diverged] BY <1>2, <1>4
  <2>7. /\ t \in Scores /\ t.events /\ t.findings = u.findings /\ t.anchored = u.anchored
        /\ t.prev = u.prev /\ t.book = u.book /\ t.curated = curated /\ t.diverged = diverged
    BY <2>1, <2>4, <2>5, <2>6 DEF Scores
  <2>8. RestHolds(t, base) BY <2>1, <2>3, <2>7 DEF RestHolds
  <2>9. CuratedHolds(s) => CuratedHolds(t) BY <2>1, <2>2, <2>7 DEF CuratedHolds
  <2>10. f.id > base /\ s.curated = s.book => CuratedHolds(t)
    BY <2>1, <2>2, <2>7 DEF CuratedHolds
  <2> QED BY <1>4, <2>7, <2>8, <2>9, <2>10 DEF Holding, t
<1>5. CASE Accepted(f) /\ mode # "rest"
  <2>1. /\ u \in Scores /\ u.events
        /\ u.diverged = s.diverged /\ (u.findings = {} => s.findings = {})
        /\ u.opens /\ u.findings = {} /\ mode # "none" =>
            /\ u.book = Visible(past[f.id]) /\ (s.events => s.opens)
            /\ mode \in {"dense", "chain"} => u.prev = f.id
    BY <1>5, StreamRow
  <2>2. curated = u.curated BY <1>5
  <2>3. u.book = Visible(past[f.id]) => diverged = u.diverged BY <1>5, <2>1 DEF Diverges, Scores
  <2>4. diverged \in BOOLEAN BY <2>1 DEF Scores
  <2> HIDE DEF u, t, curated, diverged
  <2>5. t = [u EXCEPT !.curated = curated, !.diverged = diverged] BY <1>2, <1>5
  <2>6. /\ t \in Scores /\ t.events /\ t.findings = u.findings /\ t.opens = u.opens
        /\ t.prev = u.prev /\ t.book = u.book /\ t.diverged = diverged
    BY <2>1, <2>2, <2>4, <2>5 DEF Scores
  <2>7. ASSUME t.opens, t.findings = {}, mode # "none"
        PROVE  /\ ~t.diverged
               /\ mode \in {"dense", "chain"} => t.prev \in DOMAIN past /\ t.book = past[t.prev]
    <3>1. /\ u.book = Visible(past[f.id]) /\ (s.events => s.opens) /\ s.findings = {}
          /\ (mode \in {"dense", "chain"} => u.prev = f.id)
      BY <2>1, <2>6, <2>7
    <3>2. ~s.diverged BY <1>5, <2>7, <3>1 DEF Holding, StreamHolds
    <3>3. ~t.diverged BY <2>1, <2>3, <2>6, <3>1, <3>2
    <3>4. f.id \in DOMAIN past /\ past[f.id] \in Book BY DEF Genuine, PastInv
    <3>5. mode \in {"dense", "chain"} => Visible(past[f.id]) = past[f.id] BY <3>4, VisibleIsBook
    <3> QED BY <2>6, <3>1, <3>3, <3>4, <3>5
  <2>8. StreamHolds(t) BY <2>6, <2>7 DEF StreamHolds
  <2> QED BY <1>5, <2>6, <2>8 DEF Holding, t
<1> QED BY <1>3, <1>4, <1>5

-----------------------------------------------------------------------------
(* Batches: the recursions over frames have one solution.                    *)

LEMMA LeastNat ==
    ASSUME NEW T \in SUBSET Nat, T # {}
    PROVE  \E x \in T : \A y \in T : x <= y
<1> DEFINE R == {ss \in Nat \X Nat : ss[1] < ss[2]}
<1>1. IsWellFoundedOn(R, Nat) BY NatLessThanWellFounded DEF OpToRel
<1>2. PICK x \in T : \A y \in T : ~(<<y, x>> \in R)
  <2> HIDE DEF R
  <2> QED BY <1>1, WFMin
<1>3. \A y \in T : ~(y < x) BY <1>2
<1> QED BY <1>3

ScoredBy(batch, s, base, f, n) ==
    f = [i \in 0..n |-> IF i = 0 THEN s ELSE Recorded(f[i - 1], batch[i], base)]

LEMMA ScoringExists ==
    ASSUME NEW batch, NEW s, NEW base, NEW m \in Nat PROVE \E f : ScoredBy(batch, s, base, f, m)
<1> DEFINE Bad == {n \in Nat : ~\E f : ScoredBy(batch, s, base, f, n)}
<1>1. SUFFICES ASSUME Bad # {} PROVE FALSE OBVIOUS
<1>2. PICK n \in Bad : \A k \in Bad : n <= k
  <2>1. Bad \in SUBSET Nat OBVIOUS
  <2> HIDE DEF Bad
  <2> QED BY <1>1, <2>1, LeastNat
<1>3. n # 0
  <2> DEFINE z == [i \in 0..0 |-> s]
  <2>1. z = [i \in 0..0 |-> IF i = 0 THEN s ELSE Recorded(z[i - 1], batch[i], base)]
    OBVIOUS
  <2>2. ScoredBy(batch, s, base, z, 0) BY <2>1 DEF ScoredBy
  <2> QED BY <1>2, <2>2
<1>4. n - 1 \in Nat /\ n - 1 \notin Bad /\ n \in Nat BY <1>2, <1>3
<1>5. PICK f : ScoredBy(batch, s, base, f, n - 1) BY <1>4
<1> DEFINE g == [i \in 0..n |-> IF i < n THEN f[i] ELSE Recorded(f[i - 1], batch[i], base)]
<1>6. f = [i \in 0..(n - 1) |-> IF i = 0 THEN s ELSE Recorded(f[i - 1], batch[i], base)]
  BY <1>5 DEF ScoredBy
<1>7. ASSUME NEW i \in 0..n
      PROVE  g[i] = IF i = 0 THEN s ELSE Recorded(g[i - 1], batch[i], base)
  <2>1. CASE i = n
    <3>1. g[i] = Recorded(f[i - 1], batch[i], base) BY <2>1, <1>4
    <3>2. g[i - 1] = f[i - 1] BY <2>1, <1>4
    <3> QED BY <2>1, <1>3, <3>1, <3>2
  <2>2. CASE i < n
    <3>1. i \in 0..(n-1) /\ g[i] = f[i] BY <2>2, <1>4
    <3>2. i # 0 => i - 1 \in 0..n /\ i - 1 < n BY <2>2, <1>4
    <3>3. i # 0 => g[i - 1] = f[i - 1] BY <3>2
    <3>4. f[i] = IF i = 0 THEN s ELSE Recorded(f[i - 1], batch[i], base) BY <3>1, <1>6
    <3> HIDE DEF g
    <3> QED BY <3>1, <3>3, <3>4
  <2> QED BY <2>1, <2>2, <1>4
<1>8. ScoredBy(batch, s, base, g, n)
  <2>1. g = [i \in 0..n |-> g[i]] OBVIOUS
  <2> HIDE DEF g
  <2> QED BY <1>7, <2>1 DEF ScoredBy
<1> QED BY <1>2, <1>8

LEMMA ScoreIsScored ==
    ASSUME NEW batch, NEW s, NEW base, NEW n \in Nat
    PROVE  \E f : /\ ScoreAfter(batch, n, s, base) = f[n] /\ f[0] = s
                  /\ \A i \in 1..n : f[i] = Recorded(f[i - 1], batch[i], base)
<1> DEFINE after == CHOOSE after : after = [i \in 0..n |->
                        IF i = 0 THEN s ELSE Recorded(after[i - 1], batch[i], base)]
<1>1. ScoredBy(batch, s, base, after, n)
  <2>1. \E f : ScoredBy(batch, s, base, f, n) BY ScoringExists
  <2> QED BY <2>1 DEF ScoredBy
<1>2. ScoreAfter(batch, n, s, base) = after[n] BY DEF ScoreAfter, after
<1> HIDE DEF after
<1>3. after = [i \in 0..n |-> IF i = 0 THEN s ELSE Recorded(after[i - 1], batch[i], base)]
  BY <1>1 DEF ScoredBy
<1>4. after[0] = s /\ \A i \in 1..n : after[i] = Recorded(after[i - 1], batch[i], base)
  BY ONLY <1>3
<1> QED BY <1>2, <1>4

LEMMA BatchHolds ==
    ASSUME PastInv, NEW batch, NEW n \in Nat, \A i \in 1..n : Genuine(batch[i]),
           NEW s, NEW base, Holding(s, base), mode = "rest" => s.events /\ base \in DOMAIN past
    PROVE  LET t == ScoreAfter(batch, n, s, base)
           IN  /\ Holding(t, base) /\ (s.events => t.events)
               /\ mode = "rest" /\ CuratedHolds(s) => CuratedHolds(t)
               /\ /\ mode = "rest" /\ n > 0 /\ Accepted(batch[1]) /\ batch[1].id > base
                  /\ s.curated = s.book
                  => CuratedHolds(t)
<1>1. PICK f : /\ ScoreAfter(batch, n, s, base) = f[n] /\ f[0] = s
               /\ \A i \in 1..n : f[i] = Recorded(f[i - 1], batch[i], base)
  BY ScoreIsScored
<1> DEFINE First == Accepted(batch[1]) /\ batch[1].id > base /\ s.curated = s.book
           Fine(i) == /\ Holding(f[i], base) /\ (s.events => f[i].events)
                      /\ mode = "rest" /\ CuratedHolds(s) => CuratedHolds(f[i])
                      /\ mode = "rest" /\ i > 0 /\ First => CuratedHolds(f[i])
           Bad == {i \in 0..n : ~Fine(i)}
<1>2. SUFFICES Bad = {}
  <2>1. n \in 0..n OBVIOUS
  <2>2. Fine(n) BY <1>2, <2>1
  <2> QED BY <1>1, <2>2
<1>3. SUFFICES ASSUME Bad # {} PROVE FALSE OBVIOUS
<1>4. PICK i \in Bad : \A k \in Bad : i <= k
  <2>1. Bad \in SUBSET Nat OBVIOUS
  <2> HIDE DEF Bad
  <2> QED BY <1>3, <2>1, LeastNat
<1>5. i # 0 BY <1>1, <1>4
<1>6. i \in 1..n /\ i - 1 \in 0..n /\ i - 1 \notin Bad BY <1>4, <1>5
<1>7. Fine(i - 1) /\ f[i] = Recorded(f[i - 1], batch[i], base) /\ Genuine(batch[i]) BY <1>1, <1>6
<1>8. /\ Holding(f[i], base) /\ (f[i - 1].events => f[i].events)
      /\ mode = "rest" /\ CuratedHolds(f[i - 1]) => CuratedHolds(f[i])
      /\ (/\ mode = "rest" /\ Accepted(batch[i]) /\ batch[i].id > base
          /\ f[i - 1].curated = f[i - 1].book) => CuratedHolds(f[i])
  BY <1>7, RecordedHolds
<1>9. mode = "rest" /\ First => CuratedHolds(f[i])
  <2>1. CASE i = 1 BY <1>1, <1>8, <2>1
  <2>2. CASE i # 1
    <3>1. i - 1 > 0 BY <1>6, <2>2
    <3> QED BY <1>7, <1>8, <3>1
  <2> QED BY <2>1, <2>2
<1>10. Fine(i) BY <1>7, <1>8, <1>9
<1> QED BY <1>4, <1>10

KeptBy(frames, id, f, n) ==
    f = [i \in 0..n |-> IF i = 0 THEN <<>>
                        ELSE IF frames[i].id > id THEN Append(f[i - 1], frames[i]) ELSE f[i - 1]]

LEMMA AligningExists ==
    ASSUME NEW frames, NEW id, NEW m \in Nat PROVE \E f : KeptBy(frames, id, f, m)
<1> DEFINE Kept(x, i) == IF frames[i].id > id THEN Append(x, frames[i]) ELSE x
           By(f, n) == f = [i \in 0..n |-> IF i = 0 THEN <<>> ELSE Kept(f[i - 1], i)]
           Bad == {n \in Nat : ~\E f : By(f, n)}
<1>0. SUFFICES \A n \in Nat : \E f : By(f, n) BY DEF KeptBy
<1>1. SUFFICES ASSUME Bad # {} PROVE FALSE OBVIOUS
<1> HIDE DEF Kept
<1>2. PICK n \in Bad : \A k \in Bad : n <= k
  <2>1. Bad \in SUBSET Nat OBVIOUS
  <2> HIDE DEF Bad
  <2> QED BY <1>1, <2>1, LeastNat
<1>3. n # 0
  <2> DEFINE z == [i \in 0..0 |-> <<>>]
  <2>1. z = [i \in 0..0 |-> IF i = 0 THEN <<>> ELSE Kept(z[i - 1], i)] OBVIOUS
  <2> QED BY <1>2, <2>1
<1>4. n - 1 \in Nat /\ n - 1 \notin Bad /\ n \in Nat BY <1>2, <1>3
<1>5. PICK f : By(f, n - 1) BY <1>4
<1> DEFINE g == [i \in 0..n |-> IF i < n THEN f[i] ELSE Kept(f[i - 1], i)]
<1>6. f = [i \in 0..(n - 1) |-> IF i = 0 THEN <<>> ELSE Kept(f[i - 1], i)]
  BY <1>5
<1>7. ASSUME NEW i \in 0..n PROVE g[i] = IF i = 0 THEN <<>> ELSE Kept(g[i - 1], i)
  <2>1. CASE i = n
    <3>1. g[i] = Kept(f[i - 1], i) BY <2>1, <1>4
    <3>2. g[i - 1] = f[i - 1] BY <2>1, <1>4
    <3> QED BY <2>1, <1>3, <3>1, <3>2
  <2>2. CASE i < n
    <3>1. i \in 0..(n-1) /\ g[i] = f[i] BY <2>2, <1>4
    <3>2. i # 0 => i - 1 \in 0..n /\ i - 1 < n BY <2>2, <1>4
    <3>3. i # 0 => g[i - 1] = f[i - 1] BY <3>2
    <3>4. f[i] = IF i = 0 THEN <<>> ELSE Kept(f[i - 1], i) BY <3>1, <1>6
    <3> HIDE DEF g
    <3> QED BY <3>1, <3>3, <3>4
  <2> QED BY <2>1, <2>2, <1>4
<1>8. By(g, n)
  <2>1. g = [i \in 0..n |-> g[i]] OBVIOUS
  <2> HIDE DEF g
  <2> QED BY <1>7, <2>1
<1> QED BY <1>2, <1>8

LEMMA AlignIsKept ==
    ASSUME NEW frames, NEW id, Len(frames) \in Nat
    PROVE  \E f : /\ Align(frames, id) = f[Len(frames)] /\ f[0] = <<>>
                  /\ \A i \in 1..Len(frames) : f[i] =
                        IF frames[i].id > id THEN Append(f[i - 1], frames[i]) ELSE f[i - 1]
<1> DEFINE n == Len(frames)
           kept == CHOOSE kept : kept = [i \in 0..Len(frames) |->
                        IF i = 0 THEN <<>>
                        ELSE IF frames[i].id > id THEN Append(kept[i - 1], frames[i]) ELSE kept[i - 1]]
<1>1. KeptBy(frames, id, kept, n)
  <2>1. \E f : KeptBy(frames, id, f, n) BY AligningExists
  <2> QED BY <2>1 DEF KeptBy
<1>2. Align(frames, id) = kept[n] BY DEF Align, kept
<1> HIDE DEF kept, n
<1>3. kept = [i \in 0..n |-> IF i = 0 THEN <<>>
                ELSE IF frames[i].id > id THEN Append(kept[i - 1], frames[i]) ELSE kept[i - 1]]
  BY <1>1 DEF KeptBy
<1>4. n \in Nat BY DEF n
<1> DEFINE Kept(x, i) == IF frames[i].id > id THEN Append(x, frames[i]) ELSE x
<1>5. kept = [i \in 0..n |-> IF i = 0 THEN <<>> ELSE Kept(kept[i - 1], i)] BY <1>3
<1> HIDE DEF Kept
<1>6. kept[0] = <<>> /\ \A i \in 1..n : kept[i] = Kept(kept[i - 1], i)
  BY ONLY <1>4, <1>5
<1> QED BY <1>2, <1>6 DEF n, Kept

\* What is kept are frames, and newer than id.
LEMMA AlignKeeps ==
    ASSUME NEW q \in Seq(Frames), NEW id
    PROVE  /\ Align(q, id) \in Seq(Frames)
           /\ \A i \in 1..Len(Align(q, id)) :
                \E k \in 1..Len(q) : Align(q, id)[i] = q[k] /\ q[k].id > id
<1> DEFINE n == Len(q)
<1>0. n \in Nat OBVIOUS
<1>1. PICK f : /\ Align(q, id) = f[n] /\ f[0] = <<>>
               /\ \A i \in 1..n : f[i] = IF q[i].id > id THEN Append(f[i - 1], q[i]) ELSE f[i - 1]
  BY <1>0, AlignIsKept
<1> DEFINE Fine(x) == /\ x \in Seq(Frames)
                      /\ \A i \in 1..Len(x) : \E k \in 1..n : x[i] = q[k] /\ q[k].id > id
           Bad == {i \in 0..n : ~Fine(f[i])}
<1>2. SUFFICES Bad = {}
  <2>1. n \in 0..n BY <1>0
  <2>2. Fine(f[n]) BY <1>2, <2>1
  <2> QED BY <1>1, <2>2
<1>3. SUFFICES ASSUME Bad # {} PROVE FALSE OBVIOUS
<1>4. PICK i \in Bad : \A k \in Bad : i <= k
  <2>1. Bad \in SUBSET Nat OBVIOUS
  <2> HIDE DEF Bad
  <2> QED BY <1>3, <2>1, LeastNat
<1>5. i # 0
  <2>1. Fine(<<>>)
    <3>1. <<>> \in Seq(Frames) /\ Len(<<>>) = 0 OBVIOUS
    <3> QED BY <3>1
  <2>2. ~Fine(f[i]) BY <1>4
  <2> HIDE DEF Fine
  <2> QED BY <1>1, <2>1, <2>2
<1>6. i \in 1..n /\ i - 1 \in 0..n /\ i - 1 \notin Bad /\ q[i] \in Frames BY <1>0, <1>4, <1>5
<1>7. Fine(f[i - 1]) BY <1>6
<1>8. Fine(f[i])
  <2>1. CASE q[i].id > id
    <3>1. f[i] = Append(f[i - 1], q[i]) BY <1>1, <1>6, <2>1
    <3> DEFINE x == f[i - 1]
               y == Append(f[i - 1], q[i])
    <3>2. /\ y \in Seq(Frames) /\ Len(y) = Len(x) + 1 /\ Len(x) \in Nat
          /\ \A k \in 1..Len(x) : y[k] = x[k]
          /\ y[Len(x) + 1] = q[i]
      BY <1>6, <1>7, AppendProperties
    <3> HIDE DEF x, y
    <3>3. \A k \in 1..Len(y) : \E j \in 1..n : y[k] = q[j] /\ q[j].id > id
      <4>1. \A k \in 1..Len(x) : \E j \in 1..n : x[k] = q[j] /\ q[j].id > id BY <1>7 DEF x
      <4> SUFFICES ASSUME NEW k \in 1..Len(y)
                   PROVE  \E j \in 1..n : y[k] = q[j] /\ q[j].id > id
        OBVIOUS
      <4>2. CASE k \in 1..Len(x) BY <3>2, <4>1, <4>2
      <4>3. CASE k = Len(x) + 1 BY <1>6, <2>1, <3>2, <4>3
      <4> QED BY <3>2, <4>2, <4>3
    <3>4. Fine(y) BY <3>2, <3>3
    <3>5. f[i] = y BY <3>1 DEF y
    <3> HIDE DEF Fine
    <3> QED BY <3>4, <3>5
  <2>2. CASE ~(q[i].id > id)
    <3>1. f[i] = f[i - 1] BY <1>1, <1>6, <2>2
    <3> HIDE DEF Fine
    <3> QED BY <1>7, <3>1
  <2> QED BY <2>1, <2>2
<1> QED BY <1>4, <1>8

-----------------------------------------------------------------------------
(* The steps.                                                                *)

LEMMA SeqOfMore ==
    ASSUME NEW S, NEW T, S \subseteq T, NEW q \in Seq(S) PROVE q \in Seq(T)
OBVIOUS

\* What is true of the past stays true when the venue goes on.
LEMMA PastGrows ==
    ASSUME PastInv, VenueUpdate
    PROVE  /\ PastInv' /\ mode' = mode /\ venue'.id \in DOMAIN past'
           /\ \A i \in DOMAIN past : i \in DOMAIN past' /\ past'[i] = past[i]
           /\ GenuineFrames \subseteq GenuineFrames'
           /\ wire \in Seq(GenuineFrames) => wire' \in Seq(GenuineFrames')
<1>1. PICK k \in Steps, l \in Levels, size \in {0, 1} :
        LET new == [id |-> venue.id + k,
                    book |-> IF k = 0 THEN venue.book ELSE [venue.book EXCEPT ![l] = size]]
        IN /\ new.id <= MaxUpdates
           /\ k > 0 => size # venue.book[l]
           /\ k = 0 => l = 1 /\ size = 0 /\ sock = "up"
           /\ venue' = new
           /\ past' = [i \in {new.id} \cup DOMAIN past |->
                           IF i = new.id THEN new.book ELSE past[i]]
           /\ IF sock = "up"
              THEN /\ Len(wire) < MaxInFlight
                   /\ wire' = Append(wire, IF mode = "full" THEN SnapshotFrame(new)
                                           ELSE Delta(venue, new))
              ELSE wire' = wire
  BY Zenon DEF VenueUpdate
<1> DEFINE id == venue.id + k
           book == IF k = 0 THEN venue.book ELSE [venue.book EXCEPT ![l] = size]
           new == [id |-> id, book |-> book]
<1>2. /\ mode' = mode /\ venue' = new
      /\ past' = [i \in {id} \cup DOMAIN past |-> IF i = id THEN book ELSE past[i]]
      /\ \/ wire' = Append(wire, IF mode = "full" THEN SnapshotFrame(new) ELSE Delta(venue, new))
         \/ wire' = wire
  BY <1>1 DEF VenueUpdate
<1>3. /\ venue.id \in Nat /\ venue.id \in Int /\ venue.book \in Book
      /\ venue.id \in DOMAIN past /\ past[venue.id] = venue.book
      /\ \A i \in DOMAIN past : i \in Nat /\ i <= venue.id /\ past[i] \in Book
  BY DEF PastInv, Shots, IsShot
<1>4. k \in {0, 1, 2} /\ (mode = "rest" => k > 0) /\ (mode = "dense" => k = 1)
  BY DEF Steps
<1>5. /\ id \in Nat /\ id \in Int /\ venue.id <= id /\ book \in Book
      /\ k = 0 => id = venue.id /\ book = venue.book
  BY <1>3, <1>4 DEF Book
<1> HIDE DEF id, book
<1>6. /\ DOMAIN past' = {id} \cup DOMAIN past
      /\ past'[id] = book
      /\ \A i \in DOMAIN past : i # id => past'[i] = past[i]
  BY <1>2
<1>7. \A i \in DOMAIN past : i \in DOMAIN past' /\ past'[i] = past[i]
  <2>1. id \in DOMAIN past => past[id] = book
    <3>1. id \in DOMAIN past => id = venue.id BY <1>3, <1>5
    <3>2. id = venue.id => k = 0 BY <1>3, <1>4 DEF id
    <3> QED BY <1>3, <1>5, <3>1, <3>2
  <2> QED BY <1>6, <2>1
<1>8. \A i \in DOMAIN past' : i \in Nat /\ i <= id /\ past'[i] \in Book
  BY <1>3, <1>5, <1>6, <1>7
<1>9. new \in Shots /\ new.id = id /\ new.book = book BY <1>5 DEF Shots
<1>10. PastInv'
  <2>1. DOMAIN past' \subseteq {i \in Nat : i <= venue'.id} BY <1>2, <1>8, <1>9
  <2>2. venue' \in Shots /\ venue'.id \in DOMAIN past' /\ venue'.book = past'[venue'.id]
    BY <1>2, <1>6, <1>9
  <2> QED BY <1>2, <1>8, <2>1, <2>2 DEF PastInv, IsShot
<1>11. \A b : Visible(b)' = Visible(b) BY <1>2 DEF Visible
<1>12. \A a, b : Changed(a, b)' = Changed(a, b) BY <1>11 DEF Changed
<1>13. ASSUME NEW f \in Frames, Genuine(f) PROVE Genuine(f)'
  <2>1. f.id \in DOMAIN past /\ f.top = Visible(past[f.id]) BY <1>13 DEF Genuine
  <2>2. f.id \in DOMAIN past' /\ f.top = Visible(past[f.id])' BY <1>7, <1>11, <2>1
  <2>3. ASSUME f.kind = "delta"
        PROVE  Adjacent(f.prev, f.id)' /\ f.levels = Changed(past[f.prev], past[f.id])'
    <3>1. Adjacent(f.prev, f.id) /\ f.levels = Changed(past[f.prev], past[f.id])
      BY <1>13, <2>3 DEF Genuine
    <3>2. past'[f.prev] = past[f.prev] /\ past'[f.id] = past[f.id] BY <1>7, <3>1 DEF Adjacent
    <3>3. f.levels = Changed(past[f.prev], past[f.id])' BY <1>12, <3>1, <3>2
    <3>4. \A d \in DOMAIN past' : ~(f.prev < d /\ d < f.id)
      BY <1>3, <1>5, <1>6, <2>1, <3>1 DEF Adjacent
    <3> QED BY <1>7, <3>1, <3>3, <3>4 DEF Adjacent
  <2> QED BY <1>2, <1>13, <2>2, <2>3 DEF Genuine
<1>14. GenuineFrames \subseteq GenuineFrames' BY <1>13 DEF GenuineFrames
<1>15. IF mode = "full" THEN SnapshotFrame(new) \in GenuineFrames'
                        ELSE Delta(venue, new) \in GenuineFrames'
  <2>1. book \in Book /\ Visible(book) \in Book /\ Visible(book) \in Changes
    BY <1>5, VisibleIsBook, BookIsChanges
  <2>2. CASE mode = "full"
    <3>0. PICK f : f = SnapshotFrame(new) OBVIOUS
    <3>1. f = [kind |-> "snapshot", prev |-> None, id |-> id, levels |-> Visible(book),
               top |-> Visible(book), bad |-> FALSE]
      BY <1>9, <3>0 DEF SnapshotFrame
    <3>2. f \in Frames BY <1>5, <2>1, <3>1 DEF Frames, None
    <3>3. f.id = id /\ f.kind = "snapshot" /\ f.top = Visible(book) /\ f.levels = f.top
      BY <3>1
    <3>4. f.top = Visible(past[f.id])' BY <1>2, <1>6, <3>3 DEF Visible
    <3>5. Genuine(f)' BY <1>2, <1>6, <2>2, <3>2, <3>3, <3>4 DEF Genuine
    <3> QED BY <2>2, <3>0, <3>2, <3>5 DEF GenuineFrames
  <2>3. CASE mode # "full"
    <3>0. PICK f : f = Delta(venue, new) OBVIOUS
    <3>1. f = [kind |-> "delta", prev |-> venue.id, id |-> id,
               levels |-> Changed(venue.book, book), top |-> Visible(book), bad |-> FALSE]
      BY <1>9, <3>0 DEF Delta
    <3>2. Changed(venue.book, book) \in Changes BY <1>3, <1>5, ChangesApply
    <3>3. f \in Frames BY <1>3, <1>5, <2>1, <3>1, <3>2 DEF Frames
    <3>4. /\ f.id = id /\ f.prev = venue.id /\ f.kind = "delta" /\ f.top = Visible(book)
          /\ f.levels = Changed(venue.book, book)
      BY <3>1
    <3>5. f.top = Visible(past[f.id])' BY <1>2, <1>6, <3>4 DEF Visible
    <3>6. f.levels = Changed(past[f.prev], past[f.id])'
      <4>1. past'[f.id] = book /\ past'[f.prev] = venue.book BY <1>3, <1>6, <1>7, <3>4
      <4> QED BY <1>2, <3>4, <4>1 DEF Changed, Visible
    <3>7. Adjacent(f.prev, f.id)'
      <4>1. \A d \in DOMAIN past' : ~(f.prev < d /\ d < f.id) BY <1>3, <1>5, <1>6, <3>4
      <4> QED BY <1>3, <1>5, <1>6, <1>7, <3>4, <4>1 DEF Adjacent
    <3>8. (mode = "rest" => f.prev < f.id) /\ (mode = "dense" => f.id = f.prev + 1)
      BY <1>3, <1>4, <3>4 DEF id
    <3>9. Genuine(f)' BY <1>2, <1>6, <2>3, <3>3, <3>4, <3>5, <3>6, <3>7, <3>8 DEF Genuine
    <3> QED BY <2>3, <3>0, <3>3, <3>9 DEF GenuineFrames
  <2> QED BY <2>2, <2>3
<1>16. ASSUME wire \in Seq(GenuineFrames) PROVE wire' \in Seq(GenuineFrames')
  <2>1. wire \in Seq(GenuineFrames') BY <1>14, <1>16, SeqOfMore
  <2>2. \A f \in GenuineFrames' : Append(wire, f) \in Seq(GenuineFrames') BY <2>1, AppendProperties
  <2> QED BY <1>2, <1>15, <2>1, <2>2
<1> QED BY <1>2, <1>7, <1>10, <1>14, <1>16 DEF PastInv, IsShot

LEMMA VenueKeeps == ProofInv /\ VenueUpdate => ProofInv'
<1> SUFFICES ASSUME ProofInv, VenueUpdate PROVE ProofInv' OBVIOUS
<1>1. /\ PastInv' /\ mode' = mode /\ GenuineFrames \subseteq GenuineFrames'
      /\ \A i \in DOMAIN past : i \in DOMAIN past' /\ past'[i] = past[i]
      /\ wire' \in Seq(GenuineFrames')
  BY PastGrows DEF ProofInv, WireInv
<1>2. UNCHANGED <<phase, buffer, fetch, fetches, snapshot, lastSeen, attempts, score, bridged, blind>>
  BY DEF VenueUpdate, collector, history
<1>3. WireInv'
  <2>1. buffer' \in Seq(GenuineFrames') BY <1>1, <1>2, SeqOfMore DEF ProofInv, WireInv
  <2> QED BY <1>1, <1>2, <2>1 DEF ProofInv, WireInv, IsShot
<1>4. ScoreInv'
  <2>1. StreamHolds(score) => StreamHolds(score)' BY <1>1, <1>2 DEF StreamHolds
  <2>2. snapshot.id # None /\ RestHolds(score, snapshot.id) => RestHolds(score, snapshot.id)'
    BY <1>1, <1>2 DEF RestHolds, ProofInv, WireInv, IsShot
  <2>3. CuratedHolds(score) => CuratedHolds(score)' BY <1>2 DEF CuratedHolds
  <2> QED BY <1>1, <1>2, <2>1, <2>2, <2>3 DEF ProofInv, ScoreInv
<1> QED BY <1>1, <1>3, <1>4 DEF ProofInv

\* A step that leaves the venue alone.
LEMMA PastStays ==
    ASSUME PastInv, UNCHANGED <<mode, venue, past>>
    PROVE  /\ PastInv' /\ GenuineFrames' = GenuineFrames
           /\ \A s : IsShot(s)' <=> IsShot(s)
           /\ \A s, base : RestHolds(s, base)' <=> RestHolds(s, base)
           /\ \A s : StreamHolds(s)' <=> StreamHolds(s)
<1>1. PastInv' BY DEF PastInv, IsShot
<1>2. GenuineFrames' = GenuineFrames
  <2>1. \A b : Visible(b)' = Visible(b) BY DEF Visible
  <2>2. \A a, b : Changed(a, b)' = Changed(a, b) BY <2>1 DEF Changed
  <2>3. \A a, b : Adjacent(a, b)' <=> Adjacent(a, b) BY DEF Adjacent
  <2>4. \A f : Genuine(f)' <=> Genuine(f) BY <2>1, <2>2, <2>3 DEF Genuine
  <2> QED BY <2>4 DEF GenuineFrames
<1>3. \A s : IsShot(s)' <=> IsShot(s) BY DEF IsShot
<1>4. \A s, base : RestHolds(s, base)' <=> RestHolds(s, base) BY DEF RestHolds
<1>5. \A s : StreamHolds(s)' <=> StreamHolds(s) BY DEF StreamHolds
<1> QED BY <1>1, <1>2, <1>3, <1>4, <1>5

\* The wire may lose, repeat, swap and garble frames, and none of them is made up.
LEMMA GarbledIsGenuine ==
    ASSUME NEW f \in GenuineFrames PROVE [f EXCEPT !.bad = TRUE] \in GenuineFrames
<1>1. PICK g : g = [f EXCEPT !.bad = TRUE] OBVIOUS
<1>2. f \in Frames /\ Genuine(f) BY DEF GenuineFrames
<1>3. /\ g \in Frames /\ g.kind = f.kind /\ g.prev = f.prev /\ g.id = f.id
      /\ g.levels = f.levels /\ g.top = f.top
  BY <1>1, <1>2 DEF Frames
<1>4. Genuine(g) BY <1>2, <1>3 DEF Genuine
<1> QED BY <1>1, <1>3, <1>4 DEF GenuineFrames

LEMMA SeqGarbled ==
    ASSUME NEW S, NEW q \in Seq(S), q # <<>>, NEW x \in S PROVE [q EXCEPT ![1] = x] \in Seq(S)
<1>1. 1 \in 1..Len(q) /\ Len(q) \in Nat /\ DOMAIN q = 1..Len(q) /\ \A i \in 1..Len(q) : q[i] \in S
  OBVIOUS
<1>2. [q EXCEPT ![1] = x] \in [1..Len(q) -> S] BY <1>1
<1> QED BY <1>1, <1>2

LEMMA FaultKeepsWire ==
    ASSUME wire \in Seq(GenuineFrames), Fault PROVE wire' \in Seq(GenuineFrames)
<1>1. wire # <<>> /\ Head(wire) \in GenuineFrames /\ Len(wire) \in Nat
      /\ \A i \in 1..Len(wire) : wire[i] \in GenuineFrames
  BY DEF Fault
<1> DEFINE S == GenuineFrames
<1> HIDE DEF S
<1>2. CASE wire' = Tail(wire) BY <1>1, <1>2
<1>3. CASE wire' = <<Head(wire)>> \o wire
  <2>1. <<Head(wire)>> \in Seq(GenuineFrames) BY <1>1
  <2> QED BY <1>3, <2>1, ConcatProperties
<1>4. CASE Len(wire) > 1 /\ wire' = <<wire[2], wire[1]>> \o SubSeq(wire, 3, Len(wire))
  <2>1. wire[2] \in GenuineFrames /\ wire[1] \in GenuineFrames BY <1>1, <1>4
  <2>2. <<wire[2], wire[1]>> \in Seq(GenuineFrames) BY <2>1
  <2>3. SubSeq(wire, 3, Len(wire)) \in Seq(GenuineFrames)
    <3>1. \A i \in 3..Len(wire) : wire[i] \in GenuineFrames BY <1>1
    <3> QED BY <1>1, <3>1, SubSeqProperties
  <2> QED BY <1>4, <2>2, <2>3, ConcatProperties
<1>5. CASE wire' = [wire EXCEPT ![1].bad = TRUE]
  <2>1. wire' = [wire EXCEPT ![1] = [wire[1] EXCEPT !.bad = TRUE]] BY <1>5
  <2>2. [wire[1] EXCEPT !.bad = TRUE] \in GenuineFrames
    <3>1. wire[1] \in GenuineFrames BY <1>1
    <3> QED BY <3>1, GarbledIsGenuine
  <2> QED BY <1>1, <2>1, <2>2, SeqGarbled
<1> QED BY <1>2, <1>3, <1>4, <1>5 DEF Fault

LEMMA GreetingIsGenuine ==
    ASSUME PastInv, mode # "rest" PROVE SnapshotFrame(venue) \in GenuineFrames
<1>1. PICK f : f = SnapshotFrame(venue) OBVIOUS
<1>2. f = [kind |-> "snapshot", prev |-> None, id |-> venue.id, levels |-> Visible(venue.book),
           top |-> Visible(venue.book), bad |-> FALSE]
  BY <1>1 DEF SnapshotFrame
<1>3. venue.id \in Int /\ venue.book \in Book /\ venue.id \in DOMAIN past /\ venue.book = past[venue.id]
  BY DEF PastInv, Shots, IsShot
<1>4. Visible(venue.book) \in Book /\ Visible(venue.book) \in Changes
  BY <1>3, VisibleIsBook, BookIsChanges
<1>5. f \in Frames BY <1>2, <1>3, <1>4 DEF Frames, None
<1>6. f.id = venue.id /\ f.kind = "snapshot" /\ f.top = Visible(venue.book) /\ f.levels = f.top
  BY <1>2
<1>7. Genuine(f) BY <1>3, <1>5, <1>6 DEF Genuine
<1> QED BY <1>1, <1>5, <1>7 DEF GenuineFrames

\* Every step but an update of the venue leaves the venue alone.
LEMMA OthersKeepWire ==
    ASSUME PastInv, WireInv, Next, ~VenueUpdate
    PROVE  UNCHANGED <<mode, venue, past>> /\ WireInv'
<1> DEFINE G == GenuineFrames
<1>1. UNCHANGED <<mode, venue, past>>
  BY DEF Next, Fault, OpenSocket, ReadIntoBuffer, SnapshotServed, AdoptSnapshot, RefetchSnapshot, Begin,
         OpenFails, Stream, SocketBreaks, Resubscribe, Reopen, ReopenFails, StreamOfNoSocket, WindowEnds
<1>2. GenuineFrames' = G /\ \A s : IsShot(s)' <=> IsShot(s) BY <1>1, PastStays
<1>3. wire \in Seq(G) /\ buffer \in Seq(G) BY DEF WireInv
<1>4. wire' \in Seq(G)
  <2>1. CASE Fault BY <1>3, <2>1, FaultKeepsWire
  <2>2. CASE Resubscribe
    <3>1. SnapshotFrame(venue) \in G BY <2>2, GreetingIsGenuine DEF Resubscribe
    <3>2. <<SnapshotFrame(venue)>> \in Seq(G) BY <3>1
    <3> QED BY <2>2, <3>2 DEF Resubscribe
  <2>3. wire # <<>> => Tail(wire) \in Seq(G) BY <1>3
  <2>4. <<>> \in Seq(G) OBVIOUS
  <2>5. CASE wire' = wire \/ wire' = <<>> BY <1>3, <2>4, <2>5
  <2>6. CASE wire # <<>> /\ wire' = Tail(wire) BY <2>3, <2>6
  <2> HIDE DEF G
  <2> QED BY <2>1, <2>2, <2>5, <2>6
      DEF Next, OpenSocket, ReadIntoBuffer, SnapshotServed, AdoptSnapshot, RefetchSnapshot, Begin,
         OpenFails, Stream, SocketBreaks, Reopen, ReopenFails, StreamOfNoSocket, WindowEnds
<1>5. buffer' \in Seq(G)
  <2>1. <<>> \in Seq(G) OBVIOUS
  <2>2. CASE ReadIntoBuffer
    <3>1. Head(wire) \in G BY <1>3, <2>2 DEF ReadIntoBuffer
    <3>2. Append(buffer, Head(wire)) \in Seq(G) BY <1>3, <3>1, AppendProperties
    <3> QED BY <2>2, <3>2 DEF ReadIntoBuffer
  <2>3. CASE buffer' = buffer \/ buffer' = <<>> BY <1>3, <2>1, <2>3
  <2> HIDE DEF G
  <2> QED BY <2>2, <2>3
      DEF Next, Fault, OpenSocket, SnapshotServed, AdoptSnapshot, RefetchSnapshot, Begin, collector,
         OpenFails, Stream, SocketBreaks, Resubscribe, Reopen, ReopenFails, StreamOfNoSocket, WindowEnds
<1>6. /\ snapshot' \in Shots /\ (snapshot'.id # None => IsShot(snapshot'))
      /\ fetch'.state = "here" => fetch'.answer \in Shots /\ IsShot(fetch'.answer)
      /\ mode' # "rest" => snapshot'.id = None /\ fetch'.state = "idle"
  <2>1. NoSnapshot \in Shots /\ NoSnapshot.id = None BY EmptyIsBook DEF NoSnapshot, Shots, None
  <2>2. Idle.state = "idle" /\ Asked.state = "asked" BY DEF Idle, Asked
  <2>3. CASE SnapshotServed
    <3>1. PICK id \in DOMAIN past : fetch' = [state |-> "here", answer |-> [id |-> id, book |-> past[id]]]
      BY <2>3 DEF SnapshotServed
    <3>2. id \in Int /\ past[id] \in Book BY DEF PastInv
    <3>3. fetch'.answer \in Shots /\ IsShot(fetch'.answer) BY <3>1, <3>2 DEF Shots, IsShot
    <3>4. mode = "rest" BY <2>2, <2>3 DEF SnapshotServed, WireInv
    <3> QED BY <1>1, <2>3, <3>3, <3>4 DEF SnapshotServed, WireInv
  <2>4. CASE AdoptSnapshot
    BY <1>1, <2>2, <2>4 DEF AdoptSnapshot, WireInv
  <2>5. CASE OpenSocket \/ OpenFails
    BY <1>1, <2>1, <2>2, <2>5 DEF OpenSocket, OpenFails, WireInv
  <2>6. CASE RefetchSnapshot \/ Begin
    BY <1>1, <2>2, <2>6 DEF RefetchSnapshot, Begin, WireInv
  <2>7. CASE UNCHANGED <<snapshot, fetch>>
    BY <1>1, <2>7 DEF WireInv
  <2> QED BY <2>3, <2>4, <2>5, <2>6, <2>7
      DEF Next, Fault, ReadIntoBuffer, collector,
         Stream, SocketBreaks, Resubscribe, Reopen, ReopenFails, StreamOfNoSocket, WindowEnds
<1>7. WireInv'
  <2>1. wire' \in Seq(GenuineFrames') /\ buffer' \in Seq(GenuineFrames') BY <1>2, <1>4, <1>5
  <2>2. \A s : IsShot(s) => IsShot(s)' BY <1>2
  <2>3. snapshot'.id # None => IsShot(snapshot)' BY <1>1, <1>6 DEF IsShot
  <2>4. fetch'.state = "here" => IsShot(fetch.answer)' BY <1>1, <1>6 DEF IsShot
  <2> QED BY <1>6, <2>1, <2>3, <2>4 DEF WireInv
<1> QED BY <1>1, <1>7

\* What a batch makes of a score that holds.
LEMMA ProcessHolds ==
    ASSUME PastInv, NEW batch \in Seq(GenuineFrames), NEW s, NEW base, NEW seen,
           Process(batch, s, base, seen),
           Holding(s, base), mode = "rest" => s.events /\ base \in DOMAIN past
    PROVE  /\ Holding(score', base) /\ (s.events => score'.events)
           /\ mode = "rest" /\ CuratedHolds(s) => CuratedHolds(score')
           /\ /\ mode = "rest" /\ batch # <<>> /\ Accepted(batch[1]) /\ batch[1].id > base
              /\ s.curated = s.book
              => CuratedHolds(score')
           /\ phase' \in {"streaming", "done"}
<1>1. PICK n \in 0..Len(batch) : /\ n = 0 => batch = <<>>
                                 /\ score' = ScoreAfter(batch, n, s, base)
                                 /\ phase' \in {"streaming", "done"}
  BY DEF Process
<1>2. n \in Nat /\ (batch # <<>> => n > 0) BY <1>1
<1>3. \A i \in 1..n : Genuine(batch[i])
  <2>1. \A i \in 1..Len(batch) : batch[i] \in GenuineFrames OBVIOUS
  <2> QED BY <1>1, <2>1 DEF GenuineFrames
<1>4. LET t == ScoreAfter(batch, n, s, base)
      IN  /\ Holding(t, base) /\ (s.events => t.events)
          /\ mode = "rest" /\ CuratedHolds(s) => CuratedHolds(t)
          /\ /\ mode = "rest" /\ n > 0 /\ Accepted(batch[1]) /\ batch[1].id > base
             /\ s.curated = s.book
             => CuratedHolds(t)
  BY <1>2, <1>3, BatchHolds
<1> QED BY <1>1, <1>2, <1>4

LEMMA AlignIsGenuine ==
    ASSUME NEW q \in Seq(GenuineFrames), NEW id
    PROVE  /\ Align(q, id) \in Seq(GenuineFrames)
           /\ \A i \in 1..Len(Align(q, id)) : Align(q, id)[i].id > id
<1>1. q \in Seq(Frames)
  <2>1. GenuineFrames \subseteq Frames BY DEF GenuineFrames
  <2> QED BY <2>1, SeqOfMore
<1>2. /\ Align(q, id) \in Seq(Frames)
      /\ \A i \in 1..Len(Align(q, id)) : \E k \in 1..Len(q) : Align(q, id)[i] = q[k] /\ q[k].id > id
  BY <1>1, AlignKeeps
<1>3. \A k \in 1..Len(q) : q[k] \in GenuineFrames OBVIOUS
<1>4. \A i \in 1..Len(Align(q, id)) : Align(q, id)[i] \in GenuineFrames BY <1>2, <1>3
<1>5. Align(q, id) \in Seq(GenuineFrames)
  <2> DEFINE a == Align(q, id)
  <2> HIDE DEF a
  <2>1. a \in Seq(Frames) /\ \A i \in 1..Len(a) : a[i] \in GenuineFrames BY <1>2, <1>4 DEF a
  <2>2. a \in [1..Len(a) -> GenuineFrames] /\ Len(a) \in Nat BY <2>1
  <2>3. a \in Seq(GenuineFrames) BY <2>2
  <2> QED BY <2>3 DEF a
<1> QED BY <1>2, <1>5

LEMMA OthersKeepScore ==
    ASSUME PastInv, WireInv, ScoreInv, Next, ~VenueUpdate
    PROVE  ScoreInv'
<1>1. UNCHANGED <<mode, venue, past>> BY OthersKeepWire
<1>2. /\ \A s, base : RestHolds(s, base)' <=> RestHolds(s, base)
      /\ \A s : StreamHolds(s)' <=> StreamHolds(s)
      /\ mode' = mode
  BY <1>1, PastStays
<1>3. CASE Begin
  <2> DEFINE s == [NoScore EXCEPT !.events = TRUE, !.book = snapshot.book, !.curated = snapshot.book]
             batch == Align(buffer, snapshot.id)
  <2>1. /\ mode = "rest" /\ snapshot.id # None /\ snapshot \in Shots /\ IsShot(snapshot)
        /\ snapshot' = snapshot /\ batch \in Seq(GenuineFrames)
        /\ \A i \in 1..Len(batch) : batch[i].id > snapshot.id
    BY <1>3, AlignIsGenuine DEF Begin, WireInv
  <2>2. /\ s \in Scores /\ s.events /\ s.findings = {} /\ ~s.anchored /\ ~s.diverged
        /\ s.book = snapshot.book /\ s.curated = s.book
    <3>1. PICK n : n = NoScore OBVIOUS
    <3>2. n = [events |-> FALSE, opens |-> FALSE, anchored |-> FALSE, prev |-> None, time |-> None,
               book |-> EmptyBook, curated |-> EmptyBook, findings |-> {}, diverged |-> FALSE]
      BY <3>1 DEF NoScore
    <3>3. n \in Scores /\ n.findings = {} /\ ~n.anchored /\ ~n.diverged
      BY <3>2, EmptyIsBook DEF Scores, None
    <3>4. s = [n EXCEPT !.events = TRUE, !.book = snapshot.book, !.curated = snapshot.book]
      BY <3>1
    <3>5. snapshot.book \in Book BY <2>1 DEF Shots
    <3> HIDE DEF s
    <3> QED BY <3>3, <3>4, <3>5 DEF Scores
  <2>3. Holding(s, snapshot.id) BY <2>1, <2>2 DEF Holding, RestHolds, IsShot
  <2>4. Process(batch, s, snapshot.id, snapshot.id) BY <1>3 DEF Begin
  <2>5. bridged' = (Bridges = "yes" /\ Accepted(batch[1])) BY <1>3 DEF Begin
  <2> HIDE DEF s
  <2>6. bridged' => batch # <<>> /\ Accepted(batch[1]) BY <2>5 DEF Bridges
  <2> HIDE DEF batch
  <2>7. /\ Holding(score', snapshot.id) /\ score'.events /\ phase' \in {"streaming", "done"}
        /\ batch # <<>> /\ Accepted(batch[1]) /\ batch[1].id > snapshot.id => CuratedHolds(score')
    BY <2>1, <2>2, <2>3, <2>4, ProcessHolds DEF IsShot
  <2>8. bridged' => CuratedHolds(score') BY <2>1, <2>6, <2>7
  <2>9. bridged' \in BOOLEAN BY <2>5
  <2>10. CuratedHolds(score') => CuratedHolds(score)' BY DEF CuratedHolds
  <2>11. RestHolds(score', snapshot.id) => RestHolds(score, snapshot.id)' BY <1>1, <2>1 DEF RestHolds
  <2> QED BY <1>2, <2>1, <2>7, <2>8, <2>9, <2>10, <2>11 DEF ScoreInv, Holding
<1>4. ASSUME NEW batch \in Seq(GenuineFrames), Process(batch, score, snapshot.id, lastSeen),
             phase \in {"streaming", "reopening"}, UNCHANGED <<snapshot, bridged>>
      PROVE  ScoreInv'
  <2>1. mode = "rest" => score.events BY <1>4 DEF ScoreInv
  <2>2. mode = "rest" => snapshot.id \in DOMAIN past BY <2>1 DEF ScoreInv, WireInv, IsShot
  <2>3. Holding(score, snapshot.id) BY <2>1 DEF ScoreInv, Holding
  <2>4. /\ Holding(score', snapshot.id) /\ (score.events => score'.events)
        /\ mode = "rest" /\ CuratedHolds(score) => CuratedHolds(score')
        /\ phase' \in {"streaming", "done"}
    BY <1>4, <2>1, <2>2, <2>3, ProcessHolds
  <2>5. CuratedHolds(score') => CuratedHolds(score)' BY DEF CuratedHolds
  <2>6. RestHolds(score', snapshot.id) => RestHolds(score, snapshot.id)' BY <1>1, <1>4 DEF RestHolds
  <2>7. StreamHolds(score') => StreamHolds(score)' BY <1>1 DEF StreamHolds
  <2> QED BY <1>2, <1>4, <2>1, <2>4, <2>5, <2>6, <2>7 DEF ScoreInv, Holding
<1>5. CASE Stream
  <2>1. <<Head(wire)>> \in Seq(GenuineFrames)
    <3>1. Head(wire) \in GenuineFrames BY <1>5 DEF Stream, WireInv
    <3> QED BY <3>1
  <2> QED BY <1>4, <1>5, <2>1 DEF Stream, history
<1>6. CASE WindowEnds
  <2>1. Align(buffer, lastSeen) \in Seq(GenuineFrames) BY AlignIsGenuine DEF WireInv
  <2>2. \/ Process(Align(buffer, lastSeen), score, snapshot.id, lastSeen)
        \/ phase' = "done" /\ score' = score
    BY <1>6 DEF WindowEnds
  <2>3. CASE phase' = "done" /\ score' = score
    <3>1. snapshot' = snapshot /\ bridged' = bridged /\ phase = "reopening"
      BY <1>6 DEF WindowEnds
    <3>2. CuratedHolds(score) => CuratedHolds(score)' BY <2>3 DEF CuratedHolds
    <3>3. RestHolds(score, snapshot.id) => RestHolds(score, snapshot.id)'
      BY <1>1, <2>3, <3>1 DEF RestHolds
    <3>4. StreamHolds(score) => StreamHolds(score)' BY <1>1, <2>3 DEF StreamHolds
    <3> QED BY <1>2, <2>3, <3>1, <3>2, <3>3, <3>4 DEF ScoreInv
  <2> QED BY <1>4, <1>6, <2>1, <2>2, <2>3 DEF WindowEnds
<1>7. ASSUME UNCHANGED <<score, bridged>>,
             snapshot' = snapshot \/ phase = "opening",
             phase' \in {phase, "dead"} \/ (phase \notin {"opening", "dead"} /\ phase' # "opening")
      PROVE  ScoreInv'
  <2>1. CuratedHolds(score) => CuratedHolds(score)' BY <1>7 DEF CuratedHolds
  <2>2. mode = "rest" /\ score.events => snapshot' = snapshot /\ phase # "opening"
    BY <1>7 DEF ScoreInv
  <2>3. snapshot' = snapshot /\ RestHolds(score, snapshot.id) => RestHolds(score, snapshot.id)'
    BY <1>1, <1>7 DEF RestHolds
  <2>4. StreamHolds(score) => StreamHolds(score)' BY <1>1, <1>7 DEF StreamHolds
  <2> QED BY <1>2, <1>7, <2>1, <2>2, <2>3, <2>4 DEF ScoreInv
<1>8. CASE Fault \/ OpenSocket \/ ReadIntoBuffer \/ SnapshotServed \/ AdoptSnapshot
           \/ RefetchSnapshot \/ OpenFails
  <2>1. CASE Fault
    <3>1. score' = score /\ bridged' = bridged BY <2>1 DEF Fault, history, collector
    <3>2. snapshot' = snapshot \/ phase = "opening" BY <2>1 DEF Fault, history, collector
    <3>3. phase' \in {phase, "dead"} BY <2>1 DEF Fault, history, collector
    <3> QED BY <1>7, <3>1, <3>2, <3>3
  <2>2. CASE OpenSocket
    <3>1. score' = score /\ bridged' = bridged BY <2>2 DEF OpenSocket, history, collector
    <3>2. snapshot' = snapshot \/ phase = "opening" BY <2>2 DEF OpenSocket, history, collector
    <3>3. phase' \in {phase, "dead"} BY <2>2 DEF OpenSocket, history, collector
    <3> QED BY <1>7, <3>1, <3>2, <3>3
  <2>3. CASE ReadIntoBuffer
    <3>1. score' = score /\ bridged' = bridged BY <2>3 DEF ReadIntoBuffer, history, collector
    <3>2. snapshot' = snapshot \/ phase = "opening" BY <2>3 DEF ReadIntoBuffer, history, collector
    <3>3. phase' \in {phase, "dead"} BY <2>3 DEF ReadIntoBuffer, history, collector
    <3> QED BY <1>7, <3>1, <3>2, <3>3
  <2>4. CASE SnapshotServed
    <3>1. score' = score /\ bridged' = bridged BY <2>4 DEF SnapshotServed, history, collector
    <3>2. snapshot' = snapshot \/ phase = "opening" BY <2>4 DEF SnapshotServed, history, collector
    <3>3. phase' \in {phase, "dead"} BY <2>4 DEF SnapshotServed, history, collector
    <3> QED BY <1>7, <3>1, <3>2, <3>3
  <2>5. CASE AdoptSnapshot
    <3>1. score' = score /\ bridged' = bridged BY <2>5 DEF AdoptSnapshot, history, collector
    <3>2. snapshot' = snapshot \/ phase = "opening" BY <2>5 DEF AdoptSnapshot, history, collector
    <3>3. phase' \in {phase, "dead"} BY <2>5 DEF AdoptSnapshot, history, collector
    <3> QED BY <1>7, <3>1, <3>2, <3>3
  <2>6. CASE RefetchSnapshot
    <3>1. score' = score /\ bridged' = bridged BY <2>6 DEF RefetchSnapshot, history, collector
    <3>2. snapshot' = snapshot \/ phase = "opening" BY <2>6 DEF RefetchSnapshot, history, collector
    <3>3. phase' \in {phase, "dead"} BY <2>6 DEF RefetchSnapshot, history, collector
    <3> QED BY <1>7, <3>1, <3>2, <3>3
  <2>7. CASE OpenFails
    <3>1. score' = score /\ bridged' = bridged BY <2>7 DEF OpenFails, history, collector
    <3>2. snapshot' = snapshot \/ phase = "opening" BY <2>7 DEF OpenFails, history, collector
    <3>3. phase' \in {phase, "dead"} BY <2>7 DEF OpenFails, history, collector
    <3> QED BY <1>7, <3>1, <3>2, <3>3
  <2> QED BY <1>8, <2>1, <2>2, <2>3, <2>4, <2>5, <2>6, <2>7
<1>9. CASE SocketBreaks \/ Reopen \/ ReopenFails \/ StreamOfNoSocket
  BY <1>7, <1>9 DEF SocketBreaks, Reopen, ReopenFails, StreamOfNoSocket, history
<1>10. CASE Resubscribe
  <2>1. mode # "rest" /\ score' = score /\ bridged' = bridged BY <1>10 DEF Resubscribe, history
  <2>2. StreamHolds(score) => StreamHolds(score)' BY <1>1, <2>1 DEF StreamHolds
  <2> QED BY <1>2, <2>1, <2>2 DEF ScoreInv
<1> QED BY <1>3, <1>5, <1>6, <1>8, <1>9, <1>10 DEF Next

LEMMA ProofInvAtFirst == Init => ProofInv
<1> SUFFICES ASSUME Init PROVE ProofInv OBVIOUS
<1>1. PICK book \in Book : venue = [id |-> 0, book |-> book] /\ past = [i \in {0} |-> book]
  BY DEF Init
<1>2. mode \in AllModes BY DepthLaneAssumption DEF Init
<1>3. PastInv BY <1>1, <1>2 DEF PastInv, Shots, IsShot
<1>4. WireInv
  <2>1. NoSnapshot \in Shots /\ NoSnapshot.id = None BY EmptyIsBook DEF NoSnapshot, Shots, None
  <2>2. Idle.state = "idle" BY DEF Idle
  <2>3. <<>> \in Seq(GenuineFrames) OBVIOUS
  <2> QED BY <2>1, <2>2, <2>3 DEF Init, WireInv
<1>5. ScoreInv
  <2>1. NoScore \in Scores /\ ~NoScore.events /\ ~NoScore.opens /\ ~NoScore.diverged
        /\ NoScore.findings = {}
    <3>1. PICK n : n = NoScore OBVIOUS
    <3>2. n = [events |-> FALSE, opens |-> FALSE, anchored |-> FALSE, prev |-> None, time |-> None,
               book |-> EmptyBook, curated |-> EmptyBook, findings |-> {}, diverged |-> FALSE]
      BY <3>1 DEF NoScore
    <3> QED BY <3>1, <3>2, EmptyIsBook DEF Scores, None
  <2>2. score = NoScore /\ bridged = FALSE /\ phase = "opening" BY DEF Init
  <2>3. StreamHolds(score) BY <2>1, <2>2 DEF StreamHolds
  <2> QED BY <2>1, <2>2, <2>3 DEF ScoreInv
<1> QED BY <1>3, <1>4, <1>5 DEF ProofInv

LEMMA ProofInvStays == ProofInv /\ UNCHANGED vars => ProofInv'
<1> SUFFICES ASSUME ProofInv, UNCHANGED vars PROVE ProofInv' OBVIOUS
<1>1. UNCHANGED <<mode, venue, past, wire, buffer, snapshot, fetch, score, bridged, phase>>
  BY DEF vars, collector, history
<1>2. /\ PastInv /\ WireInv /\ ScoreInv /\ PastInv' /\ GenuineFrames' = GenuineFrames
      /\ \A s : IsShot(s)' <=> IsShot(s)
  BY <1>1, PastStays DEF ProofInv
<1>3. WireInv'
  <2>1. IsShot(snapshot) => IsShot(snapshot)' BY <1>1 DEF IsShot
  <2>2. IsShot(fetch.answer) => IsShot(fetch.answer)' BY <1>1 DEF IsShot
  <2> QED BY <1>1, <1>2, <2>1, <2>2 DEF WireInv
<1>4. ScoreInv'
  <2>1. CuratedHolds(score) => CuratedHolds(score)' BY <1>1 DEF CuratedHolds
  <2>2. RestHolds(score, snapshot.id) => RestHolds(score, snapshot.id)' BY <1>1 DEF RestHolds
  <2>3. StreamHolds(score) => StreamHolds(score)' BY <1>1 DEF StreamHolds
  <2> QED BY <1>1, <1>2, <2>1, <2>2, <2>3 DEF ScoreInv
<1> QED BY <1>2, <1>3, <1>4 DEF ProofInv

LEMMA ProofInvKept == ProofInv /\ [Next]_vars => ProofInv'
<1> SUFFICES ASSUME ProofInv, [Next]_vars PROVE ProofInv' OBVIOUS
<1>1. CASE VenueUpdate BY <1>1, VenueKeeps
<1>2. CASE Next /\ ~VenueUpdate
  <2>1. PastInv /\ WireInv /\ ScoreInv BY DEF ProofInv
  <2>2. UNCHANGED <<mode, venue, past>> /\ WireInv' BY <1>2, <2>1, OthersKeepWire
  <2>3. ScoreInv' BY <1>2, <2>1, OthersKeepScore
  <2>4. PastInv' BY <2>1, <2>2, PastStays
  <2> QED BY <2>2, <2>3, <2>4 DEF ProofInv
<1>3. CASE UNCHANGED vars BY <1>3, ProofInvStays
<1> QED BY <1>1, <1>2, <1>3

\* Whatever happens on the wire and to the sockets, at whatever bounds: a run that
\* gets the verdict "replayable" rebuilt the venue's book, and a reader of the
\* curated rows of a bridged run holds that book too.
THEOREM VerdictsAreProof == Spec => []VerdictIsProof
<1>1. Init => ProofInv BY ProofInvAtFirst
<1>2. ProofInv /\ [Next]_vars => ProofInv' BY ProofInvKept
<1>3. ProofInv => VerdictIsProof
  <2> SUFFICES ASSUME ProofInv, Replayable PROVE VerdictIsProof BY DEF VerdictIsProof
  <2>1. ScoreInv BY DEF ProofInv
  <2>2. score.events /\ score.findings = {} /\ (mode # "rest" => score.opens)
    BY DEF Replayable, RestReplayable, StreamReplayable
  <2>3. CASE mode = "rest"
    <3>1. RestHolds(score, snapshot.id) /\ (bridged => CuratedHolds(score))
      BY <2>1, <2>2, <2>3 DEF ScoreInv
    <3> QED BY <2>2, <2>3, <3>1 DEF VerdictIsProof, RestHolds, CuratedHolds
  <2>4. CASE mode # "rest"
    <3>1. StreamHolds(score) BY <2>1, <2>4 DEF ScoreInv
    <3> QED BY <2>2, <2>4, <3>1 DEF VerdictIsProof, StreamHolds
  <2> QED BY <2>3, <2>4
<1> QED BY <1>1, <1>2, <1>3, PTL DEF Spec

-----------------------------------------------------------------------------
(* The other direction: what no wire and no socket disturbs, if no frame is *)
(* lost, repeated, overtaken or garbled.                                     *)

\* The bounds, and the types that ProofInv does not tell.
BoundsInv ==
    /\ mode \in Modes /\ venue.id \in 0..MaxUpdates
    /\ sock \in {"up", "down"}
    /\ phase \in {"opening", "streaming", "reopening", "done", "dead"}
    /\ fetches \in 0..MaxFetches
    /\ attempts \in 0..MaxAttempts /\ (phase # "dead" => attempts < MaxAttempts)
    /\ lastSeen \in {None} \cup 0..MaxUpdates
    /\ faults \in 0..MaxFaults /\ Len(wire) <= MaxInFlight + faults
    /\ blind \in BOOLEAN

\* Frames on an untouched wire: each goes on where the one before it ended.
Follows(a, b) == a.id <= b.id /\ (b.kind = "delta" => b.prev = a.id)
Unbroken(q) ==
    /\ \A i \in 1..Len(q) : ~q[i].bad
    /\ \A i \in 1..Len(q) : i > 1 => Follows(q[i - 1], q[i])

\* Where the venue was before the frames of q.
Upto(q) == IF q = <<>> THEN venue.id ELSE q[1].prev
EndsAt(q, id) == q # <<>> => q[Len(q)].id = id

QuietWire ==
    /\ sock = "down" => wire = <<>>
    /\ Unbroken(wire) /\ EndsAt(wire, venue.id)
    /\ Unbroken(buffer) /\ EndsAt(buffer, Upto(wire))
    /\ sock = "down" \/ phase \notin {"opening", "reopening"} \/ mode # "rest" => buffer = <<>>

\* A REST run is at the id the collector has seen, and the wire goes on from there.
QuietRest ==
    bridged /\ ~blind =>
        /\ score.events /\ score.findings = {} /\ score.anchored /\ score.prev = lastSeen
        /\ phase = "streaming" /\ sock = "up" => lastSeen = Upto(wire)

\* The score s of a stream run has come to the id p.
Reached(s, p) ==
    /\ s.events /\ s.time <= p
    /\ mode \in {"dense", "chain"} => s.prev = p
    /\ mode = "checksum" => s.book = Visible(past[p])

\* The next frame is a snapshot, or goes on from there.
Expects(s, q) ==
    \/ q # <<>> /\ q[1].kind = "snapshot" /\ s.time <= q[1].id
    \/ (q = <<>> \/ q[1].kind = "delta") /\ Reached(s, Upto(q))
QuietStream ==
    /\ score.findings = {} /\ (score.events => score.opens) /\ score.time <= venue.id
    /\ phase = "streaming" /\ sock = "up" => Expects(score, wire)

QuietInv ==
    /\ BoundsInv
    /\ faults = 0 => QuietWire /\ IF mode = "rest" THEN QuietRest ELSE QuietStream

-----------------------------------------------------------------------------
(* Numbers and books.                                                        *)

LEMMA MaxIs ==
    ASSUME NEW S \in SUBSET Int, NEW m \in S, \A x \in S : x <= m PROVE Max(S) = m
<1> DEFINE P(x) == x \in S /\ \A y \in S : x >= y
<1>1. P(m) OBVIOUS
<1>2. \A x : P(x) => x = m OBVIOUS
<1>3. Max(S) = CHOOSE x : P(x) BY DEF Max
<1> HIDE DEF P
<1> QED BY <1>1, <1>2, <1>3

LEMMA MaxIsIn ==
    ASSUME NEW S \in SUBSET Int, S # {}, NEW b \in Int, \A x \in S : x <= b PROVE Max(S) \in S
<1> DEFINE T == {b - x : x \in S}
<1>1. PICK t \in T : \A u \in T : t <= u
  <2>1. T \in SUBSET Nat /\ T # {}
    <3>1. \A x \in S : b - x \in Nat OBVIOUS
    <3> QED BY <3>1
  <2> HIDE DEF T
  <2> QED BY <2>1, LeastNat
<1>2. PICK m \in S : t = b - m OBVIOUS
<1>3. \A x \in S : x <= m
  <2> SUFFICES ASSUME NEW x \in S PROVE x <= m OBVIOUS
  <2>1. b - x \in T OBVIOUS
  <2>2. t <= b - x BY <1>1, <2>1
  <2> QED BY <1>2, <2>2
<1>4. Max(S) = m BY <1>3, MaxIs
<1> QED BY <1>4

\* A cut book has Published levels better than any it left out.
LEMMA CutIsFull ==
    ASSUME NEW book \in Book, NEW l \in Levels,
           Cardinality({k \in 1..(l - 1) : book[k] > 0}) >= Published
    PROVE  Cardinality({k \in 1..(l - 1) : TrimBook(book, Published)[k] > 0}) >= Published
<1> DEFINE cut == TrimBook(book, Published)
           Better(b, j) == {k \in 1..(j - 1) : b[k] > 0}
           Gone == {k \in Better(book, l) : k \notin Better(cut, l)}
<1>1. /\ \A j \in Levels : cut[j] = IF Cardinality(Better(book, j)) < Published THEN book[j] ELSE 0
      /\ \A j \in Levels : j \in Nat /\ \A k \in 1..(j - 1) : k \in Levels
      /\ Published \in Nat
  BY DepthLaneAssumption DEF TrimBook, Levels
<1>2. \A j \in Levels : Cardinality(Better(book, j)) \in Nat /\ Cardinality(Better(cut, j)) \in Nat
                        /\ IsFiniteSet(Better(cut, j))
  BY BetterLevels
<1>3. CASE Gone = {}
  <2>1. \A k \in Better(cut, l) : k \in Better(book, l)
    <3> SUFFICES ASSUME NEW k \in 1..(l - 1), cut[k] > 0 PROVE book[k] > 0 OBVIOUS
    <3>1. k \in Levels BY <1>1
    <3>2. cut[k] = book[k] \/ cut[k] = 0 BY <1>1, <3>1
    <3> HIDE DEF cut
    <3> QED BY <3>2
  <2>2. Better(cut, l) = Better(book, l)
    <3> HIDE DEF Better
    <3> QED BY <1>3, <2>1
  <2> QED BY <2>2
<1>4. CASE Gone # {}
  <2>1. PICK k \in Gone : \A j \in Gone : k <= j
    <3>1. Gone \in SUBSET Nat OBVIOUS
    <3> HIDE DEF Gone
    <3> QED BY <1>4, <3>1, LeastNat
  <2>2. k \in 1..(l - 1) /\ book[k] > 0 /\ k \in Levels /\ ~(cut[k] > 0) BY <1>1, <2>1
  <2>3. Cardinality(Better(book, k)) >= Published
    <3>1. cut[k] # book[k] BY <2>2
    <3>2. ~(Cardinality(Better(book, k)) < Published) BY <1>1, <2>2, <3>1
    <3> HIDE DEF Better
    <3> QED BY <1>1, <1>2, <2>2, <3>2
  <2>4. Better(book, k) \in SUBSET Better(cut, l)
    <3> SUFFICES ASSUME NEW j \in 1..(k - 1), book[j] > 0 PROVE j \in Better(cut, l) OBVIOUS
    <3>1. j \in 1..(l - 1) BY <1>1, <2>2
    <3>2. j \in Better(book, l) BY <3>1
    <3>3. j < k BY <1>1, <2>2
    <3>4. j \notin Gone
      <4>1. j \in Gone => k <= j BY <2>1
      <4> HIDE DEF Gone
      <4> QED BY <1>1, <2>2, <3>1, <3>3, <4>1
    <3> HIDE DEF Better
    <3> QED BY <3>2, <3>4
  <2>5. Cardinality(Better(book, k)) <= Cardinality(Better(cut, l))
    <3> HIDE DEF Better
    <3> QED BY <1>2, <2>4, FS_Subset
  <2>6. Cardinality(Better(cut, l)) >= Published
    <3> HIDE DEF Better
    <3> QED BY <1>1, <1>2, <2>2, <2>3, <2>5
  <2> QED BY <2>6
<1> QED BY <1>3, <1>4

\* The changes of a cut book, applied and cut again, give the next cut: a level that the
\* venue does not say was pushed out is pushed out by the cut.
LEMMA CutOfChanges ==
    ASSUME mode = "checksum", NEW old \in Book, NEW new \in Book
    PROVE  TrimBook(ApplyLevels(Visible(old), Changed(old, new)), Published) = Visible(new)
<1> DEFINE was == Visible(old)
           shown == Visible(new)
           got == ApplyLevels(was, Changed(old, new))
           Better(b, l) == {k \in 1..(l - 1) : b[k] > 0}
<1>1. was \in Book /\ shown \in Book /\ shown = TrimBook(new, Published) BY TrimIsBook DEF Visible
<1>2. Changed(old, new) \in Changes BY ChangesApply
<1>3. got \in Book BY <1>1, <1>2, BooksApply
<1>4. \A l \in Levels : l \in Nat /\ \A k \in 1..(l - 1) : k \in Levels
  BY DepthLaneAssumption DEF Levels
<1>5. \A l \in Levels : shown[l] = IF Cardinality(Better(new, l)) < Published THEN new[l] ELSE 0
  BY <1>1 DEF TrimBook
<1>6. \A l \in Levels : TrimBook(got, Published)[l]
                        = IF Cardinality(Better(got, l)) < Published THEN got[l] ELSE 0
  BY DEF TrimBook
<1>7. \A l \in Levels : got[l] = shown[l] \/ (got[l] = new[l] /\ new[l] > 0 /\ shown[l] = 0)
  <2> SUFFICES ASSUME NEW l \in Levels, got[l] # shown[l]
               PROVE got[l] = new[l] /\ new[l] > 0 /\ shown[l] = 0
    OBVIOUS
  <2> DEFINE sent == {j \in Levels : /\ was[j] # shown[j]
                                     /\ shown[j] > 0 \/ new[j] = 0}
  <2>1. Changed(old, new) = [j \in sent |-> shown[j]] BY DEF Changed
  <2>2. got[l] = IF l \in sent THEN shown[l] ELSE was[l]
    <3> HIDE DEF sent, was, shown
    <3> QED BY <2>1 DEF ApplyLevels
  <2>3. l \notin sent /\ got[l] = was[l] BY <2>2
  <2>4. was[l] \in {0, 1} /\ shown[l] \in {0, 1} /\ new[l] \in {0, 1} BY <1>1 DEF Book
  <2> HIDE DEF was, shown, got
  <2> QED BY <2>3, <2>4 DEF sent
<1>8. /\ \A l \in Levels : shown[l] \in {0, 1} /\ new[l] \in {0, 1} /\ got[l] \in {0, 1}
      /\ Published \in Nat
  BY <1>1, <1>3, DepthLaneAssumption DEF Book
<1>9. \A l \in Levels :
        /\ Cardinality(Better(new, l)) \in Nat /\ Cardinality(Better(got, l)) \in Nat
        /\ Cardinality(Better(shown, l)) \in Nat
        /\ IsFiniteSet(Better(new, l)) /\ IsFiniteSet(Better(got, l))
  BY BetterLevels
<1>10. ASSUME NEW l \in Levels
       PROVE  Better(shown, l) \in SUBSET Better(got, l) /\ Better(got, l) \in SUBSET Better(new, l)
  <2>1. ASSUME NEW k \in 1..(l - 1), shown[k] > 0 PROVE got[k] > 0
    <3>1. k \in Levels BY <1>4
    <3> HIDE DEF got, shown
    <3> QED BY <1>7, <1>8, <2>1, <3>1
  <2>2. ASSUME NEW k \in 1..(l - 1), got[k] > 0 PROVE new[k] > 0
    <3>1. k \in Levels BY <1>4
    <3>2. shown[k] = new[k] \/ shown[k] = 0 BY <1>5, <3>1
    <3> HIDE DEF got, shown
    <3> QED BY <1>7, <1>8, <2>2, <3>1, <3>2
  <2> QED BY <2>1, <2>2
<1>11. ASSUME NEW l \in Levels PROVE TrimBook(got, Published)[l] = shown[l]
  <2>1. /\ Cardinality(Better(shown, l)) <= Cardinality(Better(got, l))
        /\ Cardinality(Better(got, l)) <= Cardinality(Better(new, l))
    <3>1. Better(shown, l) \in SUBSET Better(got, l) /\ Better(got, l) \in SUBSET Better(new, l)
      BY <1>10
    <3> HIDE DEF Better
    <3> QED BY <1>9, <3>1, FS_Subset
  <2>2. CASE Cardinality(Better(new, l)) < Published
    <3>1. shown[l] = new[l] BY <1>5, <2>2
    <3>2. Cardinality(Better(got, l)) < Published
      <4> HIDE DEF Better
      <4> QED BY <1>8, <1>9, <2>1, <2>2
    <3>3. TrimBook(got, Published)[l] = got[l] BY <1>6, <3>2
    <3> HIDE DEF got, shown
    <3> QED BY <1>7, <3>1, <3>3
  <2>3. CASE ~(Cardinality(Better(new, l)) < Published)
    <3>1. shown[l] = 0 BY <1>5, <2>3
    <3>2. Cardinality(Better(new, l)) >= Published
      <4> HIDE DEF Better
      <4> QED BY <1>8, <1>9, <2>3
    <3>3. Cardinality(Better(shown, l)) >= Published BY <1>1, <3>2, CutIsFull
    <3>4. ~(Cardinality(Better(got, l)) < Published)
      <4> HIDE DEF Better
      <4> QED BY <1>8, <1>9, <2>1, <3>3
    <3> QED BY <1>6, <3>1, <3>4
  <2> QED BY <2>2, <2>3
<1>12. TrimBook(got, Published) \in Book BY <1>3, TrimIsBook
<1> HIDE DEF got, shown
<1>13. TrimBook(got, Published) = shown BY <1>1, <1>11, <1>12 DEF Book
<1> QED BY <1>13 DEF got, shown, was

-----------------------------------------------------------------------------
(* Frames that follow one another.                                           *)

LEMMA UnbrokenMore ==
    ASSUME NEW S, NEW q \in Seq(S), Unbroken(q), NEW f \in S, ~f.bad,
           q # <<>> => Follows(q[Len(q)], f)
    PROVE  /\ Append(q, f) \in Seq(S) /\ Unbroken(Append(q, f))
           /\ Append(q, f) # <<>> /\ Append(q, f)[Len(Append(q, f))] = f
           /\ Append(q, f)[1] = IF q = <<>> THEN f ELSE q[1]
<1> DEFINE p == Append(q, f)
<1>1. /\ p \in Seq(S) /\ Len(p) = Len(q) + 1 /\ Len(q) \in Nat /\ p[Len(q) + 1] = f
      /\ \A i \in 1..Len(q) : p[i] = q[i]
      /\ q = <<>> <=> Len(q) = 0
  BY AppendProperties
<1> HIDE DEF p
<1>2. \A i \in 1..Len(p) : ~p[i].bad
  <2> SUFFICES ASSUME NEW i \in 1..Len(p) PROVE ~p[i].bad OBVIOUS
  <2>1. CASE i \in 1..Len(q) BY <1>1, <2>1 DEF Unbroken
  <2>2. CASE i = Len(q) + 1 BY <1>1, <2>2
  <2> QED BY <1>1, <2>1, <2>2
<1>3. ASSUME NEW i \in 1..Len(p), i > 1 PROVE Follows(p[i - 1], p[i])
  <2>1. CASE i \in 1..Len(q)
    <3>1. p[i] = q[i] /\ p[i - 1] = q[i - 1] BY <1>1, <1>3, <2>1
    <3> QED BY <1>3, <2>1, <3>1 DEF Unbroken
  <2>2. CASE i = Len(q) + 1
    <3>1. p[i] = f /\ p[i - 1] = q[Len(q)] /\ q # <<>> BY <1>1, <1>3, <2>2
    <3> QED BY <3>1
  <2> QED BY <1>1, <2>1, <2>2
<1>4. Unbroken(p) BY <1>2, <1>3 DEF Unbroken
<1>5. p # <<>> /\ p[Len(p)] = f /\ p[1] = IF q = <<>> THEN f ELSE q[1] BY <1>1
<1> QED BY <1>1, <1>4, <1>5 DEF p

LEMMA NoneLeft == ASSUME NEW S, NEW q \in Seq(S) PROVE q = <<>> <=> Len(q) = 0
OBVIOUS

LEMMA UnbrokenLess ==
    ASSUME NEW q \in Seq(GenuineFrames), Unbroken(q), q # <<>>
    PROVE  /\ Tail(q) \in Seq(GenuineFrames) /\ Unbroken(Tail(q))
           /\ Tail(q) # <<>> => /\ Tail(q)[1] = q[2] /\ Follows(q[1], q[2])
                                /\ Tail(q)[Len(Tail(q))] = q[Len(q)]
           /\ Tail(q) = <<>> => q[1] = q[Len(q)]
           /\ Head(q) = q[1] /\ q[1] \in GenuineFrames /\ ~q[1].bad
<1>1. /\ Len(q) \in Nat /\ Len(q) > 0 /\ Tail(q) \in Seq(GenuineFrames) /\ Len(Tail(q)) = Len(q) - 1
      /\ \A i \in 1..(Len(q) - 1) : Tail(q)[i] = q[i + 1]
      /\ Head(q) = q[1] /\ q[1] \in GenuineFrames
  OBVIOUS
<1> DEFINE p == Tail(q)
<1>2. Tail(q) = <<>> <=> Len(q) = 1
  <2>1. p \in Seq(GenuineFrames) /\ Len(p) = Len(q) - 1 BY <1>1
  <2> HIDE DEF p
  <2>2. p = <<>> <=> Len(p) = 0 BY <2>1, NoneLeft
  <2> QED BY <1>1, <2>1, <2>2 DEF p
<1> HIDE DEF p
<1>3. Unbroken(p)
  <2>1. /\ Len(p) = Len(q) - 1 /\ \A i \in 1..(Len(q) - 1) : p[i] = q[i + 1]
    BY <1>1 DEF p
  <2>2. \A i \in 1..Len(p) : ~p[i].bad BY <1>1, <2>1 DEF Unbroken
  <2>3. ASSUME NEW i \in 1..Len(p), i > 1 PROVE Follows(p[i - 1], p[i])
    <3>1. p[i] = q[i + 1] /\ p[i - 1] = q[i] BY <1>1, <2>1, <2>3
    <3>2. i + 1 \in 1..Len(q) /\ i + 1 > 1 /\ (i + 1) - 1 = i BY <1>1, <2>1, <2>3
    <3>3. Follows(q[(i + 1) - 1], q[i + 1]) BY <3>2 DEF Unbroken
    <3> QED BY <3>1, <3>2, <3>3
  <2> QED BY <2>2, <2>3 DEF Unbroken
<1>4. ASSUME Tail(q) # <<>> PROVE Tail(q)[1] = q[2] /\ Follows(q[1], q[2]) /\ p[Len(p)] = q[Len(q)]
  <2>1. 2 \in 1..Len(q) /\ 1 \in 1..(Len(q) - 1) BY <1>1, <1>2, <1>4
  <2>2. Follows(q[2 - 1], q[2]) BY <2>1 DEF Unbroken
  <2>3. p[Len(p)] = q[Len(q)]
    <3>1. Len(p) = Len(q) - 1 /\ Len(p) \in 1..(Len(q) - 1) /\ p[Len(p)] = q[Len(p) + 1]
      BY <1>1, <2>1 DEF p
    <3> QED BY <1>1, <3>1
  <2> QED BY <1>1, <2>1, <2>2, <2>3
<1>5. ~q[1].bad BY <1>1 DEF Unbroken
<1> QED BY <1>1, <1>2, <1>3, <1>4, <1>5 DEF p

-----------------------------------------------------------------------------
(* Rows and batches that find nothing.                                       *)

\* What is newer than an id, of frames that follow one another, goes on to the last of them.
LEMMA AlignUnbroken ==
    ASSUME mode = "rest", NEW q \in Seq(GenuineFrames), Unbroken(q), NEW id \in Int
    PROVE  /\ Align(q, id) \in Seq(GenuineFrames) /\ Unbroken(Align(q, id))
           /\ Align(q, id) # <<>> => /\ q # <<>>
                                     /\ Align(q, id)[Len(Align(q, id))] = q[Len(q)]
<1> DEFINE n == Len(q)
<1>0. n \in Nat /\ (q = <<>> <=> n = 0) /\ \A i \in 1..n : q[i] \in GenuineFrames /\ ~q[i].bad
  BY DEF Unbroken
<1>1. PICK f : /\ Align(q, id) = f[n] /\ f[0] = <<>>
               /\ \A i \in 1..n : f[i] = IF q[i].id > id THEN Append(f[i - 1], q[i]) ELSE f[i - 1]
  BY <1>0, AlignIsKept
<1> DEFINE Fine(i) == /\ f[i] \in Seq(GenuineFrames) /\ Unbroken(f[i])
                      /\ f[i] # <<>> => i > 0 /\ f[i][Len(f[i])] = q[i] /\ q[i].id > id
           Bad == {i \in 0..n : ~Fine(i)}
<1>2. SUFFICES Bad = {}
  <2>1. n \in 0..n BY <1>0
  <2>2. Fine(n) BY <1>2, <2>1
  <2> QED BY <1>0, <1>1, <2>2
<1>3. SUFFICES ASSUME Bad # {} PROVE FALSE OBVIOUS
<1>4. PICK i \in Bad : \A k \in Bad : i <= k
  <2>1. Bad \in SUBSET Nat OBVIOUS
  <2> HIDE DEF Bad
  <2> QED BY <1>3, <2>1, LeastNat
<1>5. i # 0
  <2>1. <<>> \in Seq(GenuineFrames) /\ Unbroken(<<>>)
    <3>1. <<>> \in Seq(GenuineFrames) /\ Len(<<>>) = 0 OBVIOUS
    <3> QED BY <3>1 DEF Unbroken
  <2>2. Fine(0) BY <1>1, <2>1
  <2> QED BY <1>4, <2>2
<1>6. i \in 1..n /\ i - 1 \in 0..n /\ i - 1 \notin Bad BY <1>0, <1>4, <1>5
<1>7. Fine(i - 1) BY <1>6
<1>8. q[i] \in GenuineFrames /\ ~q[i].bad /\ q[i].id \in Int
  BY <1>0, <1>6 DEF GenuineFrames, Frames
<1>9. i > 1 => /\ Follows(q[i - 1], q[i]) /\ q[i - 1].id \in Int
               /\ q[i - 1].id <= q[i].id
  <2>1. ASSUME i > 1 PROVE q[i - 1].id \in Int
    <3>1. i - 1 \in 1..n BY <1>6, <2>1
    <3> QED BY <1>0, <3>1 DEF GenuineFrames, Frames
  <2>2. ASSUME i > 1 PROVE Follows(q[i - 1], q[i]) BY <1>6, <2>2 DEF Unbroken
  <2> QED BY <2>1, <2>2 DEF Follows
<1>10. Fine(i)
  <2>1. CASE q[i].id > id
    <3>1. f[i] = Append(f[i - 1], q[i]) BY <1>1, <1>6, <2>1
    <3> DEFINE x == f[i - 1]
    <3>2. x \in Seq(GenuineFrames) /\ Unbroken(x) /\ (x # <<>> => Follows(x[Len(x)], q[i]))
      <4>1. x # <<>> => i > 1 BY <1>6, <1>7
      <4> QED BY <1>7, <1>9, <4>1
    <3> HIDE DEF x
    <3>3. /\ Append(x, q[i]) \in Seq(GenuineFrames) /\ Unbroken(Append(x, q[i]))
          /\ Append(x, q[i])[Len(Append(x, q[i]))] = q[i]
      BY <1>8, <3>2, UnbrokenMore
    <3> QED BY <1>6, <2>1, <3>1, <3>3 DEF x
  <2>2. CASE ~(q[i].id > id)
    <3>1. f[i] = f[i - 1] BY <1>1, <1>6, <2>2
    <3>2. f[i - 1] = <<>>
      <4> SUFFICES ASSUME f[i - 1] # <<>> PROVE FALSE OBVIOUS
      <4>1. i > 1 /\ q[i - 1].id > id BY <1>6, <1>7
      <4> QED BY <1>8, <1>9, <2>2, <4>1
    <3> QED BY <1>7, <3>1, <3>2
  <2> QED BY <2>1, <2>2
<1> QED BY <1>4, <1>10

-----------------------------------------------------------------------------
(* Rows in which there is nothing to find.                                   *)

LEMMA RestQuiet ==
    ASSUME PastInv, mode = "rest", NEW f, Genuine(f), ~f.bad, NEW base \in Int,
           NEW s \in Scores, s.findings = {},
           s.anchored => f.prev <= s.prev /\ s.prev < f.id,
           ~s.anchored => f.prev <= base /\ base < f.id
    PROVE  LET t == Recorded(s, f, base)
           IN  t.findings = {} /\ t.anchored /\ t.prev = f.id /\ t.events
<1> DEFINE r == Row(f)
           u == RestScored(s, r, base)
           t == Recorded(s, f, base)
           curated == ApplyLevels(u.curated, f.levels)
           diverged == u.diverged \/ Diverges(u, f, base)
           book == ApplyLevels(s.book, r.levels)
           found == IF ~s.anchored
                    THEN IF r.first > base + 1 THEN {"snapshot_anchor_gap"} ELSE {}
                    ELSE IF r.final <= s.prev THEN {"reordered_or_duplicate_updates"}
                    ELSE IF r.first > s.prev + 1 THEN {"gaps_detected"} ELSE {}
<1>1. f \in Frames /\ f.prev \in Int /\ f.id \in Int BY DEF Genuine, Frames
<1>2. r.first = f.prev + 1 /\ r.final = f.id BY <1>1, RowOfFrame DEF AllModes
<1>3. s.prev \in Int BY DEF Scores
<1>4. found = {} BY <1>1, <1>2, <1>3
<1>5. u = [s EXCEPT !.events = TRUE, !.anchored = TRUE, !.prev = f.id,
                    !.findings = {}, !.book = book]
  <2>1. ~(~s.anchored /\ r.final <= base) BY <1>1, <1>2
  <2>2. (IF s.anchored /\ r.final <= s.prev THEN s.prev ELSE r.final) = f.id BY <1>1, <1>2, <1>3
  <2>3. s.findings \cup found = {} BY <1>4
  <2>4. u = [s EXCEPT !.events = TRUE, !.anchored = TRUE,
                      !.prev = IF s.anchored /\ r.final <= s.prev THEN s.prev ELSE r.final,
                      !.findings = s.findings \cup found, !.book = book]
    BY <2>1 DEF RestScored
  <2> HIDE DEF r, u, book, found
  <2> QED BY <2>2, <2>3, <2>4
<1>6. t = [u EXCEPT !.curated = curated, !.diverged = diverged] BY DEF Recorded, Accepted
<1> HIDE DEF r, u, book, found, t, curated, diverged
<1>7. DOMAIN u = DOMAIN s /\ u.events /\ u.anchored /\ u.prev = f.id /\ u.findings = {}
  BY <1>5 DEF Scores
<1>8. t.events /\ t.anchored /\ t.prev = f.id /\ t.findings = {} BY <1>5, <1>6, <1>7 DEF Scores
<1> QED BY <1>8 DEF t

LEMMA BatchQuiet ==
    ASSUME PastInv, mode = "rest", NEW batch \in Seq(GenuineFrames), Unbroken(batch),
           NEW n \in 1..Len(batch), NEW base, base \in DOMAIN past,
           NEW s, Holding(s, base), s.events, s.findings = {},
           s.anchored => batch[1].prev <= s.prev /\ s.prev < batch[1].id,
           ~s.anchored => batch[1].prev <= base /\ base < batch[1].id
    PROVE  LET t == ScoreAfter(batch, n, s, base)
           IN  t.events /\ t.findings = {} /\ t.anchored /\ t.prev = batch[n].id
<1>1. PICK f : /\ ScoreAfter(batch, n, s, base) = f[n] /\ f[0] = s
               /\ \A i \in 1..n : f[i] = Recorded(f[i - 1], batch[i], base)
  <2>1. n \in Nat OBVIOUS
  <2> QED BY <2>1, ScoreIsScored
<1>2. \A i \in 1..n : Genuine(batch[i]) /\ ~batch[i].bad /\ i \in 1..Len(batch)
  <2> SUFFICES ASSUME NEW i \in 1..n PROVE Genuine(batch[i]) /\ ~batch[i].bad /\ i \in 1..Len(batch)
    OBVIOUS
  <2>1. i \in 1..Len(batch) OBVIOUS
  <2>2. batch[i] \in GenuineFrames BY <2>1
  <2> QED BY <2>1, <2>2 DEF Unbroken, GenuineFrames
<1>3. base \in Int BY DEF PastInv
<1> DEFINE Quiet(i) == f[i].findings = {} /\ f[i].anchored /\ f[i].prev = batch[i].id
           Fine(i) == Holding(f[i], base) /\ f[i].events /\ (i > 0 => Quiet(i))
           Bad == {i \in 0..n : ~Fine(i)}
<1>4. SUFFICES Bad = {}
  <2>1. n \in 0..n /\ n > 0 OBVIOUS
  <2>2. Fine(n) BY <1>4, <2>1
  <2> QED BY <1>1, <2>1, <2>2
<1>5. SUFFICES ASSUME Bad # {} PROVE FALSE OBVIOUS
<1>6. PICK i \in Bad : \A k \in Bad : i <= k
  <2>1. Bad \in SUBSET Nat OBVIOUS
  <2> HIDE DEF Bad
  <2> QED BY <1>5, <2>1, LeastNat
<1>7. i # 0 BY <1>1, <1>6
<1>8. i \in 1..n /\ i - 1 \in 0..n /\ i - 1 \notin Bad BY <1>6, <1>7
<1>9. /\ Fine(i - 1) /\ f[i] = Recorded(f[i - 1], batch[i], base)
      /\ Genuine(batch[i]) /\ ~batch[i].bad /\ batch[i].id \in Int
  BY <1>1, <1>2, <1>8 DEF Genuine, Frames
<1>10. Holding(f[i], base) /\ f[i].events BY <1>9, RecordedHolds
<1>11. f[i - 1] \in Scores BY <1>9 DEF Holding
<1>12. CASE i = 1
  <2>1. f[i - 1] = s BY <1>1, <1>12
  <2>2. Quiet(i) BY <1>3, <1>9, <1>11, <1>12, <2>1, RestQuiet
  <2> QED BY <1>6, <1>10, <2>2
<1>13. CASE i # 1
  <2>1. i - 1 > 0 /\ i > 1 /\ i \in 1..Len(batch) /\ i - 1 \in 1..n BY <1>2, <1>8, <1>13
  <2>2. Quiet(i - 1) BY <1>9, <2>1
  <2>3. Follows(batch[i - 1], batch[i]) BY <2>1 DEF Unbroken
  <2>4. batch[i].kind = "delta" /\ batch[i].prev < batch[i].id BY <1>9 DEF Genuine
  <2>5. batch[i].prev = batch[i - 1].id BY <2>3, <2>4 DEF Follows
  <2>6. batch[i].prev \in Int BY <1>9 DEF Genuine, Frames
  <2>7. f[i - 1].anchored /\ f[i - 1].findings = {} /\ f[i - 1].prev = batch[i].prev BY <2>2, <2>5
  <2>8. Quiet(i) BY <1>3, <1>9, <1>11, <2>4, <2>6, <2>7, RestQuiet
  <2> QED BY <1>6, <1>10, <2>8
<1> QED BY <1>12, <1>13

\* A row that has a time has the id of its frame.
LEMMA TimeOfRow ==
    ASSUME NEW f \in Frames, mode \in AllModes PROVE Row(f).time \in {None, f.id}
<1> DEFINE p == PlainRow(f)
<1>2. p = [snap |-> f.kind = "snapshot", first |-> None, final |-> None, uid |-> None,
           time |-> f.id, crc |-> EmptyBook, levels |-> f.levels]
  BY DEF PlainRow
<1> HIDE DEF p
<1>3. CASE mode = "rest"
  <2>1. Row(f) = [p EXCEPT !.first = f.prev + 1, !.final = f.id]
    BY <1>3 DEF Row, BinanceRow, p
  <2> QED BY <1>2, <2>1
<1>4. CASE mode = "dense"
  <2>1. Row(f) = [p EXCEPT !.uid = f.id] BY <1>4 DEF Row, BybitRow, p
  <2> QED BY <1>2, <2>1
<1>5. CASE mode = "chain"
  <2>1. Row(f) = [p EXCEPT !.first = f.prev, !.final = f.id] BY <1>5 DEF Row, OkxRow, p
  <2> QED BY <1>2, <2>1
<1>6. CASE mode = "checksum"
  <2>1. Row(f) = Untimed([p EXCEPT !.crc = f.top]) BY <1>6 DEF Row, KrakenRow, p
  <2> QED BY <1>2, <2>1 DEF Untimed
<1>7. CASE mode = "full"
  <2>1. Row(f) = p BY <1>7 DEF Row, MexcRow, p
  <2> QED BY <1>2, <2>1
<1>8. CASE mode = "none"
  <2>1. Row(f) = Untimed(p) BY <1>8 DEF Row, CoinbaseRow, p
  <2> QED BY <1>2, <2>1 DEF Untimed
<1> QED BY <1>3, <1>4, <1>5, <1>6, <1>7, <1>8 DEF AllModes

\* The row of the frame a stream run waits for raises no finding.
LEMMA StreamQuiet ==
    ASSUME PastInv, mode # "rest", NEW f, Genuine(f), ~f.bad, NEW base,
           NEW s \in Scores, s.findings = {}, s.events => s.opens,
           \/ f.kind = "snapshot" /\ s.time <= f.id
           \/ f.kind = "delta" /\ Reached(s, f.prev)
    PROVE  LET t == Recorded(s, f, base)
           IN  t.findings = {} /\ t.opens /\ Reached(t, f.id)
<1> DEFINE r == Row(f)
           u == StreamScored(s, r)
           t == Recorded(s, f, base)
           diverged == u.diverged \/ Diverges(u, f, base)
           book == StreamBook(s, r)
           id == CASE mode = "dense" -> r.uid [] mode = "chain" -> r.final [] OTHER -> None
           found == CASE mode = "dense" -> DenseFindings(s, r)
                      [] mode = "chain" -> ChainFindings(s, r)
                      [] mode = "checksum" -> ChecksumFindings(book, r)
                      [] OTHER -> {}
           opens == IF s.events THEN s.opens ELSE r.snap
           time == IF r.time = None \/ r.time < s.time THEN s.time ELSE r.time
           all == s.findings \cup found \cup TimeFindings(s, r)
<1>1. /\ f \in Frames /\ f.prev \in Int /\ f.id \in Int /\ f.levels \in Changes
      /\ f.kind \in {"delta", "snapshot"} /\ f.id \in DOMAIN past /\ f.id \in Nat
      /\ f.top = Visible(past[f.id]) /\ past[f.id] \in Book /\ mode \in AllModes
  BY DEF Genuine, Frames, PastInv
<1>2. /\ r.levels = f.levels /\ (r.snap <=> f.kind = "snapshot") /\ r.snap \in BOOLEAN
      /\ r.time \in Int /\ r.uid \in Int /\ r.final \in Int /\ r.time \in {None, f.id}
      /\ mode = "dense" => r.uid = f.id
      /\ mode = "chain" => r.first = f.prev /\ r.final = f.id
      /\ mode = "checksum" => r.crc = f.top
  BY <1>1, RowOfFrame, TimeOfRow
<1>3. s.time \in Int /\ s.prev \in Int /\ s.book \in Book /\ s.events \in BOOLEAN /\ s.opens \in BOOLEAN
  BY DEF Scores
<1>4. f.kind = "delta" =>
        /\ Adjacent(f.prev, f.id) /\ f.prev <= f.id /\ f.prev \in DOMAIN past
        /\ f.levels = Changed(past[f.prev], past[f.id]) /\ past[f.prev] \in Book /\ f.prev \in Nat
        /\ mode = "dense" => f.id = f.prev + 1
  BY DEF Genuine, Adjacent, PastInv
<1>5. s.time <= f.id /\ (f.kind = "delta" => s.events)
  BY <1>1, <1>3, <1>4 DEF Reached
<1>6. TimeFindings(s, r) = {}
  <2>1. ~(r.time # None /\ r.time < s.time) BY <1>1, <1>2, <1>3, <1>5
  <2> HIDE DEF r
  <2> QED BY <2>1 DEF TimeFindings
<1>7. time <= f.id /\ time \in Int BY <1>1, <1>2, <1>3, <1>5
<1>8. mode \in {"dense", "chain"} => id = f.id BY <1>2
<1>9. mode = "checksum" => book = Visible(past[f.id])
  <2> SUFFICES ASSUME mode = "checksum" PROVE book = Visible(past[f.id]) OBVIOUS
  <2>1. CASE f.kind = "snapshot"
    <3>1. f.levels = f.top BY <2>1 DEF Genuine
    <3>2. Visible(past[f.id]) = TrimBook(past[f.id], Published) /\ Visible(past[f.id]) \in Book
      BY <1>1, VisibleIsBook DEF Visible
    <3>3. ApplyLevels(EmptyBook, f.levels) = Visible(past[f.id])
      BY <1>1, <3>1, <3>2, EmptyIsBook, BooksApply
    <3>4. book = TrimBook(ApplyLevels(EmptyBook, f.levels), Published)
      <4> HIDE DEF r
      <4> QED BY <1>2, <2>1 DEF StreamBook, BookFromSnapshot, Bounded
    <3> QED BY <1>1, <3>2, <3>3, <3>4, TrimTwice
  <2>2. CASE f.kind = "delta"
    <3>1. s.book = Visible(past[f.prev]) BY <2>2 DEF Reached
    <3>2. book = TrimBook(ApplyLevels(s.book, f.levels), Published)
      <4> HIDE DEF r
      <4> QED BY <1>2, <2>2 DEF StreamBook, Bounded
    <3> QED BY <1>1, <1>4, <2>2, <3>1, <3>2, CutOfChanges
  <2> QED BY <1>1, <2>1, <2>2
<1>10. found = {}
  <2>1. CASE mode = "dense"
    <3>1. DenseFindings(s, r) = {}
      <4>1. r.snap \/ s.prev = f.prev BY <1>1, <1>2, <2>1 DEF Reached
      <4>2. r.snap \/ (r.uid = s.prev + 1 /\ f.kind = "delta") BY <1>1, <1>2, <1>4, <2>1, <4>1
      <4> HIDE DEF r
      <4> QED BY <1>2, <1>3, <4>2 DEF DenseFindings
    <3> QED BY <2>1, <3>1
  <2>2. CASE mode = "chain"
    <3>1. ChainFindings(s, r) = {}
      <4>1. r.snap \/ (s.prev = f.prev /\ f.prev <= f.id) BY <1>1, <1>2, <1>4, <2>2 DEF Reached
      <4> HIDE DEF r
      <4> QED BY <1>1, <1>2, <1>3, <2>2, <4>1 DEF ChainFindings
    <3> QED BY <2>2, <3>1
  <2>3. CASE mode = "checksum"
    <3>1. TrimBook(book, Published) = r.crc
      <4>1. Visible(past[f.id]) = TrimBook(past[f.id], Published) BY <2>3 DEF Visible
      <4>2. r.crc = Visible(past[f.id]) BY <1>1, <1>2, <2>3
      <4> HIDE DEF book, r
      <4> QED BY <1>1, <1>9, <2>3, <4>1, <4>2, TrimTwice
    <3>2. ChecksumFindings(book, r) = {}
      <4> HIDE DEF book, r
      <4> QED BY <3>1 DEF ChecksumFindings
    <3> QED BY <2>3, <3>2
  <2>4. CASE mode \notin {"dense", "chain", "checksum"} BY <2>4
  <2> HIDE DEF found
  <2> QED BY <2>1, <2>2, <2>3, <2>4
<1>11. all = {}
  <2> HIDE DEF found
  <2> QED BY <1>6, <1>10
<1>12. opens = TRUE BY <1>1, <1>2, <1>3, <1>5
<1>13. u = [s EXCEPT !.events = TRUE, !.opens = opens, !.prev = id, !.time = time,
                     !.findings = all, !.book = book]
  BY DEF StreamScored
<1>14. t = [u EXCEPT !.curated = u.curated, !.diverged = diverged] BY DEF Recorded, Accepted
<1> HIDE DEF r, u, t, diverged, book, id, found, opens, time, all
<1>15. /\ DOMAIN u = DOMAIN s /\ u.events /\ u.opens /\ u.prev = id /\ u.time = time
       /\ u.findings = {} /\ u.book = book
  BY <1>11, <1>12, <1>13 DEF Scores
<1>16. t.events /\ t.opens /\ t.prev = id /\ t.time = time /\ t.findings = {} /\ t.book = book
  BY <1>13, <1>14, <1>15 DEF Scores
<1> QED BY <1>7, <1>8, <1>9, <1>16 DEF Reached, t

-----------------------------------------------------------------------------
(* The steps keep the bounds, the wire and the runs.                         *)

Seen == {None} \cup 0..MaxUpdates

LEMMA IdsAreBounded ==
    ASSUME PastInv, venue.id <= MaxUpdates
    PROVE  DOMAIN past \subseteq 0..MaxUpdates /\ DOMAIN past \subseteq Seen
<1>1. venue.id \in Nat /\ MaxUpdates \in Nat BY DepthLaneAssumption DEF PastInv, IsShot
<1>2. \A i \in DOMAIN past : i \in Nat /\ i <= venue.id BY DEF PastInv
<1>3. DOMAIN past \subseteq 0..MaxUpdates BY <1>1, <1>2
<1> QED BY <1>3 DEF Seen

LEMMA ProcessBounds ==
    ASSUME PastInv, venue.id <= MaxUpdates, NEW batch \in Seq(GenuineFrames), NEW s, NEW base,
           NEW seen \in Seen, Process(batch, s, base, seen)
    PROVE  lastSeen' \in Seen /\ phase' \in {"streaming", "done"}
<1>1. PICK n \in 0..Len(batch) : /\ lastSeen' = Max({seen} \cup {batch[i].id : i \in 1..n})
                                 /\ phase' \in {"streaming", "done"}
  BY DEF Process
<1> DEFINE S == {seen} \cup {batch[i].id : i \in 1..n}
<1>2. \A i \in 1..n : batch[i].id \in Seen
  <2> SUFFICES ASSUME NEW i \in 1..n PROVE batch[i].id \in Seen OBVIOUS
  <2>1. batch[i] \in GenuineFrames OBVIOUS
  <2>2. batch[i].id \in DOMAIN past BY <2>1 DEF GenuineFrames, Genuine
  <2> QED BY <2>2, IdsAreBounded
<1>3. S \in SUBSET Seen /\ S # {} BY <1>2
<1>4. S \in SUBSET Int /\ MaxUpdates \in Int /\ \A x \in S : x <= MaxUpdates
  BY <1>3, DepthLaneAssumption DEF Seen, None
<1> HIDE DEF S
<1>5. Max(S) \in S BY <1>3, <1>4, MaxIsIn
<1> QED BY <1>1, <1>3, <1>5 DEF S

LEMMA FaultLength ==
    ASSUME wire \in Seq(GenuineFrames), Fault PROVE Len(wire') \in Nat /\ Len(wire') <= Len(wire) + 1
<1>1. wire # <<>> /\ Len(wire) \in Nat /\ Head(wire) \in GenuineFrames /\ wire[1] \in GenuineFrames
      /\ Len(wire) > 0
  BY DEF Fault
<1>2. CASE wire' = Tail(wire) BY <1>1, <1>2
<1>3. CASE wire' = <<Head(wire)>> \o wire
  <2>1. <<Head(wire)>> \in Seq(GenuineFrames) /\ Len(<<Head(wire)>>) = 1 BY <1>1
  <2>2. Len(wire') = 1 + Len(wire) BY <1>3, <2>1, ConcatProperties
  <2> QED BY <1>1, <2>2
<1>4. CASE Len(wire) > 1 /\ wire' = <<wire[2], wire[1]>> \o SubSeq(wire, 3, Len(wire))
  <2>1. wire[2] \in GenuineFrames /\ wire[1] \in GenuineFrames BY <1>1, <1>4
  <2>2. <<wire[2], wire[1]>> \in Seq(GenuineFrames) /\ Len(<<wire[2], wire[1]>>) = 2 BY <2>1
  <2>3. \A i \in 3..Len(wire) : wire[i] \in GenuineFrames BY <1>1
  <2>4. /\ SubSeq(wire, 3, Len(wire)) \in Seq(GenuineFrames)
        /\ Len(SubSeq(wire, 3, Len(wire))) = IF 3 <= Len(wire) THEN Len(wire) - 3 + 1 ELSE 0
    BY <1>1, <2>3, SubSeqProperties
  <2>5. Len(wire') = 2 + Len(SubSeq(wire, 3, Len(wire))) BY <1>4, <2>2, <2>4, ConcatProperties
  <2> QED BY <1>1, <1>4, <2>4, <2>5
<1>5. CASE wire' = [wire EXCEPT ![1].bad = TRUE]
  <2>1. Len(wire') = Len(wire)
    <3>1. wire \in [1..Len(wire) -> GenuineFrames] BY <1>1
    <3>2. DOMAIN wire' = 1..Len(wire) BY <1>5, <3>1
    <3>3. wire' \in Seq(GenuineFrames) BY FaultKeepsWire
    <3>4. Len(wire') \in Nat /\ DOMAIN wire' = 1..Len(wire') BY <3>3
    <3> QED BY <1>1, <3>2, <3>4
  <2> QED BY <1>1, <2>1
<1> QED BY <1>2, <1>3, <1>4, <1>5 DEF Fault

LEMMA BoundsKept ==
    ASSUME PastInv, WireInv, ScoreInv, BoundsInv, PastInv', Next PROVE BoundsInv'
<1>0. /\ MaxAttempts \in Nat /\ MaxAttempts > 0 /\ MaxFetches \in Nat /\ MaxFetches > 0
      /\ MaxUpdates \in Nat /\ MaxFaults \in Nat /\ MaxInFlight \in Nat /\ MaxInFlight > 0
  BY DepthLaneAssumption
<1>1. /\ wire \in Seq(GenuineFrames) /\ Len(wire) \in Nat /\ buffer \in Seq(GenuineFrames)
      /\ venue.id <= MaxUpdates /\ lastSeen \in Seen
      /\ wire # <<>> => /\ Len(Tail(wire)) \in Nat /\ Len(Tail(wire)) <= Len(wire)
                        /\ Head(wire) \in GenuineFrames
      /\ Len(<<>>) = 0
  BY <1>0 DEF WireInv, BoundsInv, Seen
<1>2. CASE VenueUpdate
  <2>1. UNCHANGED <<mode, sock, phase, fetches, attempts, lastSeen, faults, blind>>
    BY <1>2 DEF VenueUpdate, collector, history
  <2>2. venue'.id \in 0..MaxUpdates
    <3>1. venue'.id \in Nat BY DEF PastInv, IsShot
    <3>2. venue'.id <= MaxUpdates BY <1>2 DEF VenueUpdate
    <3> QED BY <1>0, <3>1, <3>2
  <2>3. Len(wire') <= MaxInFlight + faults
    <3>1. CASE wire' = wire BY <3>1 DEF BoundsInv
    <3>2. CASE \E f : Len(wire) < MaxInFlight /\ wire' = Append(wire, f)
      <4>1. PICK f : Len(wire) < MaxInFlight /\ wire' = Append(wire, f) BY <3>2
      <4>2. Len(wire') = Len(wire) + 1 BY <1>1, <4>1
      <4>3. faults \in Nat BY DEF BoundsInv
      <4> QED BY <1>0, <1>1, <4>1, <4>2, <4>3
    <3> QED BY <1>2, <3>1, <3>2 DEF VenueUpdate
  <2> QED BY <2>1, <2>2, <2>3 DEF BoundsInv
<1>3. CASE Fault
  <2>1. UNCHANGED <<mode, venue, sock, phase, fetches, attempts, lastSeen, blind>>
        /\ faults < MaxFaults /\ faults' = faults + 1
    BY <1>3 DEF Fault, collector, history
  <2>2. Len(wire') \in Nat /\ Len(wire') <= Len(wire) + 1 BY <1>1, <1>3, FaultLength
  <2> QED BY <1>0, <1>1, <2>1, <2>2 DEF BoundsInv
<1>4. CASE OpenSocket BY <1>0, <1>4 DEF OpenSocket, BoundsInv, history
<1>5. CASE ReadIntoBuffer BY <1>0, <1>1, <1>5 DEF ReadIntoBuffer, BoundsInv, history
<1>6. CASE SnapshotServed BY <1>6 DEF SnapshotServed, BoundsInv, history
<1>7. CASE AdoptSnapshot BY <1>7 DEF AdoptSnapshot, BoundsInv, history
<1>8. CASE RefetchSnapshot BY <1>0, <1>8 DEF RefetchSnapshot, BoundsInv, history
<1>9. CASE Begin
  <2>1. PICK s : Process(Align(buffer, snapshot.id), s, snapshot.id, snapshot.id) BY <1>9 DEF Begin
  <2>2. snapshot.id \in Seen BY <1>1, <1>9, IdsAreBounded DEF Begin, WireInv, IsShot
  <2>3. Align(buffer, snapshot.id) \in Seq(GenuineFrames) BY <1>1, AlignIsGenuine
  <2>4. lastSeen' \in Seen /\ phase' \in {"streaming", "done"} BY <1>1, <2>1, <2>2, <2>3, ProcessBounds
  <2> QED BY <1>0, <1>9, <2>4 DEF Begin, BoundsInv, Seen
<1>10. CASE OpenFails BY <1>0, <1>1, <1>10 DEF OpenFails, BoundsInv, history
<1>11. CASE Stream
  <2>1. <<Head(wire)>> \in Seq(GenuineFrames) BY <1>1, <1>11 DEF Stream
  <2>2. lastSeen' \in Seen /\ phase' \in {"streaming", "done"}
    BY <1>1, <1>11, <2>1, ProcessBounds DEF Stream
  <2>3. Len(wire') <= Len(wire) /\ Len(wire') \in Nat BY <1>1, <1>11 DEF Stream
  <2>4. attempts' \in {0, attempts} /\ phase # "dead" BY <1>11 DEF Stream
  <2>5. UNCHANGED <<mode, venue, sock, fetches, faults, blind>> BY <1>11 DEF Stream, history
  <2> QED BY <1>0, <1>1, <2>2, <2>3, <2>4, <2>5 DEF BoundsInv, Seen
<1>12. CASE SocketBreaks BY <1>0, <1>1, <1>12 DEF SocketBreaks, BoundsInv, history
<1>13. CASE Resubscribe
  <2>1. Len(wire') = 1 BY <1>13 DEF Resubscribe
  <2> QED BY <1>0, <1>1, <1>13, <2>1 DEF Resubscribe, BoundsInv, history
<1>14. CASE Reopen BY <1>14 DEF Reopen, BoundsInv, history
<1>15. CASE ReopenFails BY <1>0, <1>1, <1>15 DEF ReopenFails, BoundsInv, history
<1>16. CASE StreamOfNoSocket BY <1>16 DEF StreamOfNoSocket, BoundsInv, history
<1>17. CASE WindowEnds
  <2>1. Align(buffer, lastSeen) \in Seq(GenuineFrames) BY <1>1, AlignIsGenuine
  <2>2. lastSeen' \in Seen /\ phase' \in {"streaming", "done"}
    <3>1. CASE Process(Align(buffer, lastSeen), score, snapshot.id, lastSeen)
      BY <1>1, <2>1, <3>1, ProcessBounds
    <3>2. CASE phase' = "done" /\ lastSeen' = lastSeen BY <1>1, <3>2
    <3> QED BY <1>17, <3>1, <3>2 DEF WindowEnds
  <2>3. sock' \in {"up", "down"} /\ blind' \in BOOLEAN BY <1>17 DEF WindowEnds, BoundsInv
  <2>4. Len(wire') <= MaxInFlight + faults
    <3>1. wire' = wire \/ wire' = <<>> BY <1>17 DEF WindowEnds
    <3>2. faults \in Nat BY DEF BoundsInv
    <3> QED BY <1>0, <1>1, <3>1, <3>2 DEF BoundsInv
  <2>5. attempts' = 0 /\ UNCHANGED <<mode, venue, fetches, faults>> BY <1>17 DEF WindowEnds
  <2> QED BY <1>0, <2>2, <2>3, <2>4, <2>5 DEF BoundsInv, Seen
<1> QED
  BY <1>2, <1>3, <1>4, <1>5, <1>6, <1>7, <1>8, <1>9, <1>10, <1>11, <1>12, <1>13, <1>14, <1>15,
     <1>16, <1>17 DEF Next

LEMMA NoFrames == Unbroken(<<>>) /\ \A id : EndsAt(<<>>, id)
<1>1. Len(<<>>) = 0 OBVIOUS
<1> QED BY <1>1 DEF Unbroken, EndsAt

LEMMA OneFrame == ASSUME NEW f, ~f.bad PROVE Unbroken(<<f>>) /\ EndsAt(<<f>>, f.id)
<1>1. Len(<<f>>) = 1 /\ <<f>>[1] = f OBVIOUS
<1> QED BY <1>1 DEF Unbroken, EndsAt

LEMMA IdsAscend ==
    ASSUME NEW q \in Seq(GenuineFrames), Unbroken(q), NEW n \in 1..Len(q), NEW i \in 1..n
    PROVE  q[i].id <= q[n].id
<1> DEFINE Bad == {m \in 1..Len(q) : \E j \in 1..m : ~(q[j].id <= q[m].id)}
<1>1. \A j \in 1..Len(q) : q[j].id \in Int
  <2> SUFFICES ASSUME NEW j \in 1..Len(q) PROVE q[j].id \in Int OBVIOUS
  <2>1. q[j] \in GenuineFrames OBVIOUS
  <2> QED BY <2>1 DEF GenuineFrames, Frames
<1>2. SUFFICES ASSUME Bad # {} PROVE FALSE OBVIOUS
<1>3. PICK m \in Bad : \A k \in Bad : m <= k
  <2>1. Bad \in SUBSET Nat OBVIOUS
  <2> HIDE DEF Bad
  <2> QED BY <1>2, <2>1, LeastNat
<1>4. PICK j \in 1..m : ~(q[j].id <= q[m].id) BY <1>3
<1>5. m \in 1..Len(q) BY <1>3
<1>6. j # m BY <1>1, <1>4, <1>5
<1>7. m > 1 /\ m - 1 \in 1..Len(q) /\ j \in 1..(m - 1) BY <1>4, <1>5, <1>6
<1>8. m - 1 \notin Bad BY <1>3, <1>7
<1>9. q[j].id <= q[m - 1].id BY <1>7, <1>8
<1>10. q[m - 1].id <= q[m].id BY <1>5, <1>7 DEF Unbroken, Follows
<1>11. j \in 1..Len(q) BY <1>5, <1>7
<1> QED BY <1>1, <1>4, <1>5, <1>7, <1>9, <1>10, <1>11

\* What the venue sends next.
LEMMA VenueSends ==
    ASSUME PastInv, WireInv, VenueUpdate, sock = "up"
    PROVE  /\ venue'.id \in Int /\ venue.id <= venue'.id
           /\ \E f : /\ wire' = Append(wire, f) /\ ~f.bad /\ f.id = venue'.id
                     /\ IF mode = "full" THEN f.kind = "snapshot"
                        ELSE f.kind = "delta" /\ f.prev = venue.id
<1>1. PICK k \in Steps, l \in Levels, size \in {0, 1} :
        LET new == [id |-> venue.id + k,
                    book |-> IF k = 0 THEN venue.book ELSE [venue.book EXCEPT ![l] = size]]
        IN /\ new.id <= MaxUpdates
           /\ k > 0 => size # venue.book[l]
           /\ k = 0 => l = 1 /\ size = 0 /\ sock = "up"
           /\ venue' = new
           /\ past' = [i \in {new.id} \cup DOMAIN past |->
                           IF i = new.id THEN new.book ELSE past[i]]
           /\ IF sock = "up"
              THEN /\ Len(wire) < MaxInFlight
                   /\ wire' = Append(wire, IF mode = "full" THEN SnapshotFrame(new)
                                           ELSE Delta(venue, new))
              ELSE wire' = wire
  BY Zenon DEF VenueUpdate
<1>2. k \in Nat
  BY DEF Steps
<1>3. venue.id \in Nat BY DEF PastInv, IsShot
<1>4. venue'.id = venue.id + k BY <1>1
<1>5. wire' = Append(wire, IF mode = "full" THEN SnapshotFrame(venue') ELSE Delta(venue, venue'))
  BY <1>1
<1>6. CASE mode = "full"
  <2>1. PICK f : f = SnapshotFrame(venue') OBVIOUS
  <2>2. ~f.bad /\ f.id = venue'.id /\ f.kind = "snapshot" BY <2>1 DEF SnapshotFrame
  <2> QED BY <1>2, <1>3, <1>4, <1>5, <1>6, <2>1, <2>2
<1>7. CASE mode # "full"
  <2>1. PICK f : f = Delta(venue, venue') OBVIOUS
  <2>2. ~f.bad /\ f.id = venue'.id /\ f.kind = "delta" /\ f.prev = venue.id BY <2>1 DEF Delta
  <2> QED BY <1>2, <1>3, <1>4, <1>5, <1>7, <2>1, <2>2
<1> QED BY <1>6, <1>7

\* A wire that goes on: its end is the venue's, and its beginning stays.
LEMMA VenueUnbroken ==
    ASSUME PastInv, WireInv, QuietWire, VenueUpdate
    PROVE  /\ sock = "up" =>
                /\ Unbroken(wire') /\ wire' # <<>> /\ EndsAt(wire', venue'.id)
                /\ wire # <<>> => wire'[1] = wire[1]
                /\ wire = <<>> => /\ venue.id <= wire'[1].id
                                  /\ IF mode = "full" THEN wire'[1].kind = "snapshot"
                                     ELSE wire'[1].kind = "delta" /\ wire'[1].prev = venue.id
           /\ sock # "up" => wire' = wire
<1>1. sock # "up" => wire' = wire BY DEF VenueUpdate
<1>2. SUFFICES ASSUME sock = "up"
               PROVE  /\ Unbroken(wire') /\ wire' # <<>> /\ EndsAt(wire', venue'.id)
                      /\ wire # <<>> => wire'[1] = wire[1]
                      /\ wire = <<>> => /\ venue.id <= wire'[1].id
                                        /\ IF mode = "full" THEN wire'[1].kind = "snapshot"
                                           ELSE wire'[1].kind = "delta" /\ wire'[1].prev = venue.id
  BY <1>1
<1>3. PICK f : /\ wire' = Append(wire, f) /\ ~f.bad /\ f.id = venue'.id
               /\ IF mode = "full" THEN f.kind = "snapshot"
                  ELSE f.kind = "delta" /\ f.prev = venue.id
  BY <1>2, VenueSends
<1>4. venue.id <= venue'.id BY <1>2, VenueSends
<1> DEFINE S == GenuineFrames \cup {f}
<1>5. wire \in Seq(S) /\ f \in S
  <2>1. GenuineFrames \subseteq S /\ f \in S /\ wire \in Seq(GenuineFrames) BY DEF WireInv
  <2> HIDE DEF S
  <2> QED BY <2>1, SeqOfMore
<1> HIDE DEF S
<1>6. wire # <<>> => Follows(wire[Len(wire)], f)
  <2>1. wire # <<>> => wire[Len(wire)].id = venue.id BY DEF QuietWire, EndsAt
  <2>2. f.kind = "delta" => f.prev = venue.id BY <1>3
  <2> QED BY <1>3, <1>4, <2>1, <2>2 DEF Follows
<1>7. Unbroken(wire) BY DEF QuietWire
<1>8. /\ Unbroken(wire') /\ wire' # <<>> /\ wire'[Len(wire')] = f
      /\ wire'[1] = IF wire = <<>> THEN f ELSE wire[1]
  <2>1. /\ Unbroken(Append(wire, f)) /\ Append(wire, f) # <<>>
        /\ Append(wire, f)[Len(Append(wire, f))] = f
        /\ Append(wire, f)[1] = IF wire = <<>> THEN f ELSE wire[1]
    BY <1>3, <1>5, <1>6, <1>7, UnbrokenMore
  <2> QED BY <1>3, <2>1
<1> QED BY <1>3, <1>4, <1>8 DEF EndsAt

\* No step but a fault breaks the order of the frames.
LEMMA QuietWireKept ==
    ASSUME PastInv, WireInv, QuietWire, sock \in {"up", "down"}, Next, ~Fault PROVE QuietWire'
<1>1. CASE VenueUpdate
  <2>1. UNCHANGED <<mode, sock, phase, buffer>> BY <1>1 DEF VenueUpdate, collector
  <2>2. CASE sock = "up"
    <3>1. /\ Unbroken(wire') /\ wire' # <<>> /\ EndsAt(wire', venue'.id)
          /\ wire # <<>> => wire'[1] = wire[1]
          /\ wire = <<>> => /\ venue.id <= wire'[1].id
                            /\ IF mode = "full" THEN wire'[1].kind = "snapshot"
                               ELSE wire'[1].kind = "delta" /\ wire'[1].prev = venue.id
      BY <1>1, <2>2, VenueUnbroken
    <3>2. mode # "full" => Upto(wire)' = Upto(wire) BY <3>1 DEF Upto
    <3>3. EndsAt(buffer, Upto(wire))'
      <4>1. CASE mode = "full" BY <2>1, <4>1 DEF QuietWire, EndsAt
      <4>2. CASE mode # "full" BY <2>1, <3>2, <4>2 DEF QuietWire, EndsAt
      <4> QED BY <4>1, <4>2
    <3> QED BY <2>1, <2>2, <3>1, <3>3 DEF QuietWire, EndsAt, Unbroken
  <2>3. CASE sock # "up"
    <3>1. wire' = wire BY <1>1, <2>3, VenueUnbroken
    <3>2. wire = <<>> /\ buffer = <<>> BY <1>1, <2>3 DEF QuietWire, VenueUpdate
    <3> QED BY <2>1, <3>1, <3>2, NoFrames DEF QuietWire
  <2> QED BY <2>2, <2>3
<1>2. ASSUME UNCHANGED <<mode, venue>>, wire' = wire, buffer' = <<>>, sock' = "down" => wire = <<>>
      PROVE  QuietWire'
  BY <1>2, NoFrames DEF QuietWire, EndsAt, Unbroken
<1>3. ASSUME UNCHANGED mode, wire' = <<>>, buffer' = <<>> PROVE QuietWire'
  BY <1>3, NoFrames DEF QuietWire
<1>4. ASSUME UNCHANGED <<mode, venue, wire, buffer, sock>>, phase' = phase \/ buffer = <<>>
      PROVE  QuietWire'
  <2>1. Upto(wire)' = Upto(wire) BY <1>4 DEF Upto
  <2> QED BY <1>4, <2>1 DEF QuietWire, EndsAt, Unbroken
<1>5. CASE OpenSocket BY <1>2, <1>5 DEF OpenSocket, QuietWire
<1>6. CASE ReadIntoBuffer
  <2> DEFINE h == wire[1]
             more == Append(buffer, h)
  <2>1. /\ mode = "rest" /\ sock = "up" /\ wire # <<>> /\ wire \in Seq(GenuineFrames)
        /\ buffer \in Seq(GenuineFrames) /\ Unbroken(wire) /\ Unbroken(buffer)
        /\ UNCHANGED <<mode, venue, sock, phase>> /\ phase \in {"opening", "reopening"}
        /\ EndsAt(buffer, Upto(wire)) /\ EndsAt(wire, venue.id)
    BY <1>6 DEF ReadIntoBuffer, QuietWire, WireInv
  <2>2. /\ Tail(wire) \in Seq(GenuineFrames) /\ Unbroken(Tail(wire))
        /\ Tail(wire) # <<>> => /\ Tail(wire)[1] = wire[2] /\ Follows(h, wire[2])
                                /\ Tail(wire)[Len(Tail(wire))] = wire[Len(wire)]
        /\ Tail(wire) = <<>> => h = wire[Len(wire)]
        /\ Head(wire) = h /\ h \in GenuineFrames /\ ~h.bad
    BY <2>1, UnbrokenLess
  <2>3. wire' = Tail(wire) /\ buffer' = more BY <1>6, <2>2 DEF ReadIntoBuffer
  <2>4. h.kind = "delta" /\ h.prev < h.id /\ h.prev \in Int /\ h.id \in Int
    BY <2>1, <2>2 DEF GenuineFrames, Genuine, Frames
  <2>5. buffer # <<>> => Follows(buffer[Len(buffer)], h)
    <3>1. buffer # <<>> => buffer[Len(buffer)].id = h.prev BY <2>1 DEF EndsAt, Upto
    <3> QED BY <2>4, <3>1 DEF Follows
  <2> HIDE DEF h
  <2>6. Unbroken(more) /\ more # <<>> /\ more[Len(more)] = h
    BY <2>1, <2>2, <2>5, UnbrokenMore
  <2>7. EndsAt(Tail(wire), venue.id) BY <2>1, <2>2 DEF EndsAt
  <2>8. h.id = IF Tail(wire) = <<>> THEN venue.id ELSE Tail(wire)[1].prev
    <3>1. CASE Tail(wire) = <<>> BY <2>1, <2>2, <3>1 DEF EndsAt
    <3>2. CASE Tail(wire) # <<>>
      <4>1. Tail(wire)[1] \in GenuineFrames BY <2>2, <3>2
      <4>2. Tail(wire)[1].kind = "delta" BY <2>1, <4>1 DEF GenuineFrames, Genuine
      <4> QED BY <2>2, <3>2, <4>2 DEF Follows
    <3> QED BY <3>1, <3>2
  <2>9. Upto(wire)' = h.id BY <2>1, <2>3, <2>8 DEF Upto
  <2>10. EndsAt(buffer', Upto(wire)') BY <2>3, <2>6, <2>9 DEF EndsAt
  <2>11. Unbroken(buffer') /\ Unbroken(wire') /\ EndsAt(wire', venue.id) BY <2>2, <2>3, <2>6, <2>7
  <2> QED BY <2>1, <2>10, <2>11 DEF QuietWire, EndsAt, Unbroken
<1>7. CASE SnapshotServed BY <1>4, <1>7 DEF SnapshotServed
<1>8. CASE AdoptSnapshot BY <1>4, <1>8 DEF AdoptSnapshot
<1>9. CASE RefetchSnapshot BY <1>4, <1>9 DEF RefetchSnapshot
<1>10. CASE Begin BY <1>2, <1>10 DEF Begin, QuietWire
<1>11. CASE OpenFails BY <1>3, <1>11 DEF OpenFails
<1>12. CASE Stream
  <2>1. /\ wire # <<>> /\ wire \in Seq(GenuineFrames) /\ Unbroken(wire) /\ buffer = <<>>
        /\ UNCHANGED <<mode, venue, sock, buffer>> /\ EndsAt(wire, venue.id) /\ sock = "up"
        /\ wire' = Tail(wire)
    BY <1>12 DEF Stream, QuietWire, WireInv
  <2>2. /\ Unbroken(Tail(wire))
        /\ Tail(wire) # <<>> => Tail(wire)[Len(Tail(wire))] = wire[Len(wire)]
    BY <2>1, UnbrokenLess
  <2>3. EndsAt(Tail(wire), venue.id) BY <2>1, <2>2 DEF EndsAt
  <2> QED BY <2>1, <2>2, <2>3, NoFrames DEF QuietWire, EndsAt, Unbroken
<1>13. CASE SocketBreaks BY <1>3, <1>13 DEF SocketBreaks, QuietWire
<1>14. CASE Resubscribe
  <2>1. PICK f : f = SnapshotFrame(venue) OBVIOUS
  <2>2. ~f.bad /\ f.id = venue.id BY <2>1 DEF SnapshotFrame
  <2>3. Unbroken(<<f>>) /\ EndsAt(<<f>>, venue.id) BY <2>2, OneFrame
  <2>4. /\ wire' = <<f>> /\ sock' = "up" /\ buffer' = buffer /\ buffer = <<>>
        /\ UNCHANGED <<mode, venue>>
    BY <1>14, <2>1 DEF Resubscribe, QuietWire
  <2>5. Unbroken(wire') /\ EndsAt(wire', venue.id) BY <2>3, <2>4
  <2> QED BY <2>4, <2>5, NoFrames DEF QuietWire, EndsAt, Unbroken
<1>15. CASE Reopen BY <1>2, <1>15 DEF Reopen, QuietWire
<1>16. CASE ReopenFails BY <1>3, <1>16 DEF ReopenFails
<1>17. CASE StreamOfNoSocket BY <1>4, <1>17 DEF StreamOfNoSocket, QuietWire
<1>18. CASE WindowEnds
  <2>1. UNCHANGED <<mode, venue>> /\ buffer' = <<>> /\ wire' = IF sock' = "up" THEN wire ELSE <<>>
    BY <1>18 DEF WindowEnds
  <2> QED BY <1>2, <1>3, <2>1
<1> QED
  BY <1>1, <1>5, <1>6, <1>7, <1>8, <1>9, <1>10, <1>11, <1>12, <1>13, <1>14, <1>15, <1>16, <1>17,
     <1>18 DEF Next

\* A batch that goes on from where the run is.
LEMMA ProcessQuiet ==
    ASSUME PastInv, mode = "rest", NEW batch \in Seq(GenuineFrames), Unbroken(batch), batch # <<>>,
           NEW base, base \in DOMAIN past, NEW s, Holding(s, base), s.events, s.findings = {},
           s.anchored => batch[1].prev <= s.prev /\ s.prev < batch[1].id,
           ~s.anchored => batch[1].prev <= base /\ base < batch[1].id,
           NEW seen \in Int, seen < batch[1].id, Process(batch, s, base, seen)
    PROVE  /\ score'.events /\ score'.findings = {} /\ score'.anchored /\ score'.prev = lastSeen'
           /\ phase' = "streaming" => lastSeen' = batch[Len(batch)].id
<1>1. PICK n \in 0..Len(batch) :
        /\ n = 0 => batch = <<>>
        /\ score' = ScoreAfter(batch, n, s, base)
        /\ lastSeen' = Max({seen} \cup {batch[i].id : i \in 1..n})
        /\ \/ n = Len(batch) /\ phase' = "streaming"
           \/ n > 0 /\ phase' = "done"
  BY DEF Process
<1>2. n \in 1..Len(batch) /\ (phase' = "streaming" => n = Len(batch)) BY <1>1
<1>3. score'.events /\ score'.findings = {} /\ score'.anchored /\ score'.prev = batch[n].id
  BY <1>1, <1>2, BatchQuiet
<1>4. lastSeen' = batch[n].id
  <2> DEFINE S == {seen} \cup {batch[i].id : i \in 1..n}
  <2>1. \A i \in 1..n : batch[i].id \in Int /\ batch[i].id <= batch[n].id
    <3> SUFFICES ASSUME NEW i \in 1..n PROVE batch[i].id \in Int /\ batch[i].id <= batch[n].id
      OBVIOUS
    <3>1. i \in 1..Len(batch) BY <1>2
    <3>2. batch[i] \in GenuineFrames BY <3>1
    <3>3. batch[i].id <= batch[n].id BY <1>2, IdsAscend
    <3> QED BY <3>2, <3>3 DEF GenuineFrames, Frames
  <2>2. 1 \in 1..n /\ n \in 1..n BY <1>2
  <2>3. S \in SUBSET Int /\ batch[n].id \in S /\ \A x \in S : x <= batch[n].id
    BY <2>1, <2>2
  <2> HIDE DEF S
  <2>4. Max(S) = batch[n].id BY <2>3, MaxIs
  <2> QED BY <1>1, <2>4 DEF S
<1> QED BY <1>2, <1>3, <1>4

\* No step makes a REST run lose its place in the stream.
LEMMA QuietRestKept ==
    ASSUME PastInv, WireInv, ScoreInv, sock \in {"up", "down"}, lastSeen \in Int, blind \in BOOLEAN,
           QuietWire, mode = "rest", QuietRest, Next, ~Fault
    PROVE  QuietRest'
<1> DEFINE Quiet == score.events /\ score.findings = {} /\ score.anchored /\ score.prev = lastSeen
<1>1. /\ wire \in Seq(GenuineFrames) /\ buffer \in Seq(GenuineFrames) /\ score \in Scores
      /\ Unbroken(wire) /\ Unbroken(buffer) /\ bridged \in BOOLEAN
      /\ EndsAt(wire, venue.id) /\ EndsAt(buffer, Upto(wire))
  BY DEF WireInv, ScoreInv, QuietWire
<1>2. ASSUME UNCHANGED <<score, bridged, blind, lastSeen>>,
             ~(phase' = "streaming" /\ sock' = "up")
      PROVE  QuietRest'
  BY <1>2 DEF QuietRest
<1>3. ASSUME bridged' /\ ~blind' => /\ score'.events /\ score'.findings = {} /\ score'.anchored
                                    /\ score'.prev = lastSeen'
                                    /\ phase' = "streaming" /\ sock' = "up" => lastSeen' = Upto(wire)'
      PROVE  QuietRest'
  BY <1>3 DEF QuietRest
<1>4. CASE VenueUpdate
  <2>1. UNCHANGED <<score, bridged, blind, lastSeen, phase, sock>>
    BY <1>4 DEF VenueUpdate, collector, history
  <2>2. CASE sock = "up"
    <3>1. /\ wire' # <<>>
          /\ wire # <<>> => wire'[1] = wire[1]
          /\ wire = <<>> => wire'[1].prev = venue.id
      BY <1>4, <2>2, VenueUnbroken
    <3>2. Upto(wire)' = Upto(wire) BY <3>1 DEF Upto
    <3> QED BY <2>1, <3>2 DEF QuietRest
  <2>3. CASE sock # "up" BY <1>2, <2>1, <2>3
  <2> QED BY <2>2, <2>3
<1>5. CASE OpenSocket BY <1>2, <1>5 DEF OpenSocket, history
<1>6. CASE ReadIntoBuffer BY <1>2, <1>6 DEF ReadIntoBuffer, history
<1>7. CASE SnapshotServed BY <1>2, <1>7 DEF SnapshotServed, history
<1>8. CASE AdoptSnapshot BY <1>2, <1>8 DEF AdoptSnapshot, history
<1>9. CASE RefetchSnapshot BY <1>2, <1>9 DEF RefetchSnapshot, history
<1>10. CASE Begin
  <2>1. CASE ~bridged' BY <1>3, <2>1
  <2>2. CASE bridged'
    <3> DEFINE s == [NoScore EXCEPT !.events = TRUE, !.book = snapshot.book, !.curated = snapshot.book]
               batch == Align(buffer, snapshot.id)
    <3>1. /\ snapshot.id # None /\ snapshot \in Shots /\ IsShot(snapshot) /\ snapshot.id \in Int
          /\ UNCHANGED <<venue, wire, sock, blind>>
      BY <1>10 DEF Begin, WireInv, Shots
    <3>2. /\ batch \in Seq(GenuineFrames) /\ Unbroken(batch)
          /\ batch # <<>> => buffer # <<>> /\ batch[Len(batch)] = buffer[Len(buffer)]
      BY <1>1, <3>1, AlignUnbroken
    <3>3. \A i \in 1..Len(batch) : batch[i].id > snapshot.id BY <1>1, <3>1, AlignIsGenuine
    <3>4. s.events /\ s.findings = {} /\ ~s.anchored /\ Holding(s, snapshot.id)
      <4>1. PICK n : n = NoScore OBVIOUS
      <4>2. n = [events |-> FALSE, opens |-> FALSE, anchored |-> FALSE, prev |-> None, time |-> None,
                 book |-> EmptyBook, curated |-> EmptyBook, findings |-> {}, diverged |-> FALSE]
        BY <4>1 DEF NoScore
      <4>3. n \in Scores /\ n.findings = {} /\ ~n.anchored /\ ~n.diverged
        BY <4>2, EmptyIsBook DEF Scores, None
      <4>4. s = [n EXCEPT !.events = TRUE, !.book = snapshot.book, !.curated = snapshot.book]
        BY <4>1
      <4>5. snapshot.book \in Book BY <3>1 DEF Shots
      <4> HIDE DEF s
      <4>6. /\ s \in Scores /\ s.events /\ s.findings = {} /\ ~s.anchored /\ ~s.diverged
            /\ s.book = snapshot.book
        BY <4>3, <4>4, <4>5 DEF Scores
      <4> QED BY <3>1, <4>6 DEF Holding, RestHolds, IsShot
    <3>5. Process(batch, s, snapshot.id, snapshot.id) BY <1>10 DEF Begin
    <3>6. batch # <<>> /\ batch[1].prev <= snapshot.id
      <4>1. Bridges = "yes" BY <1>10, <2>2 DEF Begin
      <4> QED BY <4>1 DEF Bridges, Holds
    <3> HIDE DEF s, batch
    <3>7. batch[1].id > snapshot.id BY <3>2, <3>3, <3>6
    <3>8. snapshot.id < batch[1].id
      <4>1. batch[1].id \in Int BY <3>2, <3>6 DEF GenuineFrames, Frames
      <4> QED BY <3>1, <3>7, <4>1
    <3>9. /\ score'.events /\ score'.findings = {} /\ score'.anchored /\ score'.prev = lastSeen'
          /\ phase' = "streaming" => lastSeen' = batch[Len(batch)].id
      BY <3>1, <3>2, <3>4, <3>5, <3>6, <3>8, ProcessQuiet DEF IsShot
    <3>10. batch[Len(batch)].id = Upto(wire)
      BY <1>1, <3>2, <3>6 DEF EndsAt
    <3>11. Upto(wire)' = Upto(wire) BY <3>1 DEF Upto
    <3> QED BY <1>3, <3>9, <3>10, <3>11
  <2> QED BY <2>1, <2>2
<1>11. CASE OpenFails BY <1>2, <1>11 DEF OpenFails, history
<1>12. CASE Stream
  <2>1. CASE ~(bridged /\ ~blind)
    <3>1. UNCHANGED <<bridged, blind>> BY <1>12 DEF Stream, history
    <3> QED BY <1>3, <2>1, <3>1
  <2>2. CASE bridged /\ ~blind
    <3> DEFINE h == wire[1]
               batch == <<h>>
    <3>1. /\ wire # <<>> /\ wire' = Tail(wire) /\ venue' = venue /\ phase = "streaming" /\ sock = "up"
          /\ Process(<<Head(wire)>>, score, snapshot.id, lastSeen)
      BY <1>12 DEF Stream
    <3>2. /\ Tail(wire) \in Seq(GenuineFrames)
          /\ Tail(wire) # <<>> => Tail(wire)[1] = wire[2] /\ Follows(h, wire[2])
          /\ Tail(wire) = <<>> => h = wire[Len(wire)]
          /\ Head(wire) = h /\ h \in GenuineFrames /\ ~h.bad
      BY <1>1, <3>1, UnbrokenLess
    <3>3. h.kind = "delta" /\ h.prev < h.id /\ h.prev \in Int /\ h.id \in Int
      BY <3>2 DEF GenuineFrames, Genuine, Frames
    <3>4. /\ score.events /\ score.findings = {} /\ score.anchored /\ score.prev = lastSeen
          /\ lastSeen = h.prev
      BY <2>2, <3>1 DEF QuietRest, Upto
    <3>5. snapshot.id \in DOMAIN past /\ Holding(score, snapshot.id)
      BY <1>1, <3>4 DEF ScoreInv, WireInv, IsShot, Holding
    <3>6. batch \in Seq(GenuineFrames) /\ Unbroken(batch) /\ batch # <<>> /\ Len(batch) = 1
          /\ batch[1] = h
      BY <3>2, OneFrame
    <3>7. Process(batch, score, snapshot.id, lastSeen) BY <3>1, <3>2
    <3> HIDE DEF batch, h
    <3>8. /\ score'.events /\ score'.findings = {} /\ score'.anchored /\ score'.prev = lastSeen'
          /\ phase' = "streaming" => lastSeen' = h.id
      BY <3>3, <3>4, <3>5, <3>6, <3>7, ProcessQuiet
    <3>9. h.id = Upto(wire)'
      <4>1. CASE Tail(wire) = <<>> BY <1>1, <3>1, <3>2, <4>1 DEF EndsAt, Upto
      <4>2. CASE Tail(wire) # <<>>
        <5>1. Tail(wire)[1] \in GenuineFrames BY <3>2, <4>2
        <5>2. Tail(wire)[1].kind = "delta" BY <5>1 DEF GenuineFrames, Genuine
        <5> QED BY <3>1, <3>2, <4>2, <5>2 DEF Follows, Upto
      <4> QED BY <4>1, <4>2
    <3> QED BY <1>3, <3>8, <3>9
  <2> QED BY <2>1, <2>2
<1>13. CASE SocketBreaks BY <1>2, <1>13 DEF SocketBreaks, history
<1>14. CASE Resubscribe BY <1>14 DEF Resubscribe
<1>15. CASE Reopen BY <1>2, <1>15 DEF Reopen, history
<1>16. CASE ReopenFails BY <1>2, <1>16 DEF ReopenFails, history
<1>17. CASE StreamOfNoSocket BY <1>2, <1>17 DEF StreamOfNoSocket, history
<1>18. CASE WindowEnds
  <2> DEFINE batch == Align(buffer, lastSeen)
  <2>1. /\ blind' = (blind \/ batch = <<>>) /\ bridged' = bridged /\ venue' = venue
        /\ wire' = IF sock' = "up" THEN wire ELSE <<>>
        /\ IF Holds(batch, lastSeen)
           THEN Process(batch, score, snapshot.id, lastSeen) /\ sock' = sock
           ELSE phase' = "done" /\ sock' = "down" /\ UNCHANGED <<score, lastSeen>>
    BY <1>18 DEF WindowEnds
  <2>2. CASE ~(bridged' /\ ~blind') BY <1>3, <2>2
  <2>3. CASE bridged' /\ ~blind'
    <3>1. /\ bridged /\ ~blind /\ batch # <<>>
          /\ score.events /\ score.findings = {} /\ score.anchored /\ score.prev = lastSeen
      BY <2>1, <2>3 DEF QuietRest
    <3>2. CASE ~Holds(batch, lastSeen) BY <1>3, <2>1, <3>1, <3>2
    <3>3. CASE Holds(batch, lastSeen)
      <4>1. /\ batch \in Seq(GenuineFrames) /\ Unbroken(batch)
            /\ batch # <<>> => buffer # <<>> /\ batch[Len(batch)] = buffer[Len(buffer)]
        BY <1>1, AlignUnbroken
      <4>2. \A i \in 1..Len(batch) : batch[i].id > lastSeen BY <1>1, AlignIsGenuine
      <4>3. snapshot.id \in DOMAIN past /\ Holding(score, snapshot.id)
        BY <1>1, <3>1 DEF ScoreInv, WireInv, IsShot, Holding
      <4>4. batch[1].prev <= lastSeen BY <3>1, <3>3 DEF Holds
      <4>5. Process(batch, score, snapshot.id, lastSeen) /\ sock' = sock BY <2>1, <3>3
      <4> HIDE DEF batch
      <4>6. lastSeen < batch[1].id
        <5>1. batch[1] \in GenuineFrames /\ 1 \in 1..Len(batch) BY <3>1, <4>1
        <5>2. batch[1].id \in Int /\ batch[1].id > lastSeen BY <4>2, <5>1 DEF GenuineFrames, Frames
        <5> QED BY <5>2
      <4>7. /\ score'.events /\ score'.findings = {} /\ score'.anchored /\ score'.prev = lastSeen'
            /\ phase' = "streaming" => lastSeen' = batch[Len(batch)].id
        BY <3>1, <4>1, <4>3, <4>4, <4>5, <4>6, ProcessQuiet
      <4>8. batch[Len(batch)].id = Upto(wire) BY <1>1, <3>1, <4>1 DEF EndsAt
      <4>9. sock' = "up" => Upto(wire)' = Upto(wire) BY <2>1 DEF Upto
      <4> QED BY <1>3, <4>7, <4>8, <4>9
    <3> QED BY <3>2, <3>3
  <2> QED BY <2>2, <2>3
<1> QED
  BY <1>4, <1>5, <1>6, <1>7, <1>8, <1>9, <1>10, <1>11, <1>12, <1>13, <1>14, <1>15, <1>16, <1>17,
     <1>18 DEF Next

\* A venue's id never goes back.
LEMMA VenueAscends ==
    ASSUME PastInv, VenueUpdate PROVE venue.id \in Int /\ venue'.id \in Int /\ venue.id <= venue'.id
<1>1. venue.id \in DOMAIN past /\ venue.id \in Int BY DEF PastInv, IsShot
<1>2. PastInv' /\ venue.id \in DOMAIN past' BY <1>1, PastGrows
<1>3. \A i \in DOMAIN past' : i \in Nat /\ i <= venue'.id BY <1>2 DEF PastInv
<1>4. venue'.id \in DOMAIN past' BY <1>2 DEF PastInv, IsShot
<1> QED BY <1>1, <1>2, <1>3, <1>4

\* No step makes a stream run lose its place in the stream.
LEMMA QuietStreamKept ==
    ASSUME PastInv, WireInv, ScoreInv, QuietWire, mode # "rest", QuietStream, Next, ~Fault
    PROVE  QuietStream'
<1>1. /\ wire \in Seq(GenuineFrames) /\ score \in Scores /\ score.time \in Int
      /\ Unbroken(wire) /\ EndsAt(wire, venue.id) /\ venue.id \in Int /\ venue.id \in DOMAIN past
      /\ wire # <<>> => wire[1] \in GenuineFrames
  BY DEF WireInv, ScoreInv, QuietWire, Scores, PastInv, IsShot
<1>2. score.findings = {} /\ (score.events => score.opens) /\ score.time <= venue.id
  BY DEF QuietStream
<1>3. ASSUME UNCHANGED <<score, venue>>, ~(phase' = "streaming" /\ sock' = "up") PROVE QuietStream'
  BY <1>2, <1>3 DEF QuietStream
<1>4. CASE VenueUpdate
  <2>1. UNCHANGED <<score, phase, sock, mode>> BY <1>4 DEF VenueUpdate, collector, history
  <2>2. score'.time <= venue'.id BY <1>1, <1>2, <1>4, <2>1, VenueAscends
  <2>3. ASSUME phase = "streaming", sock = "up" PROVE Expects(score, wire)'
    <3>1. /\ wire' # <<>>
          /\ wire # <<>> => wire'[1] = wire[1]
          /\ wire = <<>> => /\ venue.id <= wire'[1].id
                            /\ IF mode = "full" THEN wire'[1].kind = "snapshot"
                               ELSE wire'[1].kind = "delta" /\ wire'[1].prev = venue.id
      BY <1>4, <2>3, VenueUnbroken
    <3>2. Expects(score, wire) BY <2>3 DEF QuietStream
    <3>3. CASE wire'[1].kind = "snapshot"
      <4>1. score.time <= wire'[1].id
        <5>1. CASE wire # <<>>
          <6>1. wire'[1] = wire[1] BY <3>1, <5>1
          <6> QED BY <3>2, <3>3, <5>1, <6>1 DEF Expects
        <5>2. CASE wire = <<>>
          <6>1. wire'[1].id \in Int
            <7>1. wire' \in Seq(GenuineFrames') BY <1>1, <1>4, PastGrows
            <7>2. wire'[1] \in GenuineFrames' BY <3>1, <7>1
            <7> QED BY <7>2 DEF GenuineFrames, Frames
          <6> QED BY <1>1, <1>2, <3>1, <5>2, <6>1
        <5> QED BY <5>1, <5>2
      <4> QED BY <2>1, <3>1, <3>3, <4>1 DEF Expects
    <3>4. CASE wire'[1].kind # "snapshot"
      <4>1. PICK p : p = Upto(wire) OBVIOUS
      <4>2. wire'[1].kind = "delta" /\ wire'[1].prev = p
        <5>1. CASE wire = <<>> BY <3>1, <3>4, <4>1, <5>1 DEF Upto
        <5>2. CASE wire # <<>> BY <3>1, <3>2, <3>4, <4>1, <5>2 DEF Expects, Upto
        <5> QED BY <5>1, <5>2
      <4>3. Upto(wire)' = p BY <3>1, <4>2 DEF Upto
      <4>4. Reached(score, p) BY <3>1, <3>2, <3>4, <4>1 DEF Expects
      <4>5. p \in DOMAIN past
        <5>1. CASE wire = <<>> BY <1>1, <4>1, <5>1 DEF Upto
        <5>2. CASE wire # <<>>
          <6>1. wire[1].kind = "delta" BY <3>1, <4>2, <5>2
          <6> QED BY <1>1, <4>1, <5>2, <6>1 DEF Upto, GenuineFrames, Genuine, Adjacent
        <5> QED BY <5>1, <5>2
      <4>6. past'[p] = past[p] /\ mode' = mode BY <1>4, <4>5, PastGrows
      <4>7. Reached(score, Upto(wire))'
        BY <2>1, <4>3, <4>4, <4>6 DEF Reached, Visible
      <4> QED BY <4>2, <4>7 DEF Expects
    <3> QED BY <3>3, <3>4
  <2> QED BY <1>2, <2>1, <2>2, <2>3 DEF QuietStream
<1>5. CASE Stream /\ ~VenueUpdate
  <2> DEFINE h == wire[1]
             t == Recorded(score, h, snapshot.id)
  <2>1. /\ wire # <<>> /\ wire' = Tail(wire) /\ UNCHANGED <<mode, venue, past, sock>>
        /\ phase = "streaming" /\ sock = "up"
        /\ Process(<<Head(wire)>>, score, snapshot.id, lastSeen)
    BY <1>5 DEF Stream
  <2>2. /\ Tail(wire) \in Seq(GenuineFrames)
        /\ Tail(wire) # <<>> => Tail(wire)[1] = wire[2] /\ Follows(h, wire[2])
        /\ Tail(wire) = <<>> => h = wire[Len(wire)]
        /\ Head(wire) = h /\ h \in GenuineFrames /\ ~h.bad
    BY <1>1, <2>1, UnbrokenLess
  <2>3. Genuine(h) /\ h.id \in Int /\ h.id <= venue.id
    BY <2>2 DEF GenuineFrames, Genuine, Frames, PastInv
  <2>4. \/ h.kind = "snapshot" /\ score.time <= h.id
        \/ h.kind = "delta" /\ Reached(score, h.prev)
    BY <2>1 DEF QuietStream, Expects, Upto
  <2>5. score' = t
    <3>1. PICK n \in 0..Len(<<h>>) : /\ n = 0 => <<h>> = <<>>
                                     /\ score' = ScoreAfter(<<h>>, n, score, snapshot.id)
      BY <2>1, <2>2 DEF Process
    <3>2. n = 1 BY <3>1
    <3>3. PICK f : /\ ScoreAfter(<<h>>, n, score, snapshot.id) = f[n] /\ f[0] = score
                   /\ \A i \in 1..n : f[i] = Recorded(f[i - 1], <<h>>[i], snapshot.id)
      BY <3>2, ScoreIsScored
    <3>4. f[1] = Recorded(f[0], h, snapshot.id) BY <3>2, <3>3
    <3> QED BY <3>1, <3>2, <3>3, <3>4
  <2> HIDE DEF t, h
  <2>6. t.findings = {} /\ t.opens /\ Reached(t, h.id)
    BY <1>1, <1>2, <2>2, <2>3, <2>4, StreamQuiet DEF t
  <2>7. PICK id : id = h.id OBVIOUS
  <2>8. PICK u : u = t OBVIOUS
  <2>9. u.time \in Int
    <3>1. PastInv' BY <2>1, PastStays
    <3>2. ScoreInv' BY <1>5, OthersKeepScore
    <3> QED BY <2>5, <2>8, <3>2 DEF ScoreInv, Scores
  <2>10. Reached(u, id) /\ u.time <= id BY <2>6, <2>7, <2>8 DEF Reached
  <2>11. Expects(score, wire)'
    <3>1. CASE Tail(wire) = <<>>
      <4>1. Upto(wire)' = id
        <5>1. h.id = venue.id BY <1>1, <2>1, <2>2, <3>1 DEF EndsAt
        <5> QED BY <2>1, <2>7, <3>1, <5>1 DEF Upto
      <4>2. Reached(score, Upto(wire))'
        BY <2>1, <2>5, <2>8, <2>10, <4>1 DEF Reached, Visible
      <4> QED BY <2>1, <3>1, <4>2 DEF Expects
    <3>2. CASE Tail(wire) # <<>>
      <4>1. /\ wire' # <<>> /\ wire'[1] = wire[2] /\ Follows(h, wire[2])
            /\ wire[2] \in GenuineFrames
        BY <2>1, <2>2, <3>2
      <4>2. wire[2].kind \in {"delta", "snapshot"} /\ wire[2].id \in Int
        BY <4>1 DEF GenuineFrames, Frames
      <4>3. CASE wire[2].kind = "snapshot"
        <5>1. u.time <= wire[2].id BY <2>3, <2>7, <2>9, <2>10, <4>1, <4>2 DEF Follows
        <5> QED BY <2>5, <2>8, <4>1, <4>3, <5>1 DEF Expects
      <4>4. CASE wire[2].kind = "delta"
        <5>1. Upto(wire)' = id BY <2>7, <4>1, <4>4 DEF Follows, Upto
        <5>2. Reached(score, Upto(wire))'
          BY <2>1, <2>5, <2>8, <2>10, <5>1 DEF Reached, Visible
        <5> QED BY <4>1, <4>4, <5>2 DEF Expects
      <4> QED BY <4>2, <4>3, <4>4
    <3> QED BY <3>1, <3>2
  <2>12. score'.time <= venue'.id
    BY <1>1, <2>1, <2>3, <2>5, <2>7, <2>8, <2>9, <2>10
  <2> QED BY <2>5, <2>6, <2>11, <2>12 DEF QuietStream
<1>6. CASE SocketBreaks BY <1>3, <1>6 DEF SocketBreaks
<1>7. CASE StreamOfNoSocket BY <1>3, <1>7 DEF StreamOfNoSocket
<1>8. CASE Resubscribe
  <2>1. PICK f : f = SnapshotFrame(venue) OBVIOUS
  <2>2. f.kind = "snapshot" /\ f.id = venue.id BY <2>1 DEF SnapshotFrame
  <2>3. wire' = <<f>> /\ UNCHANGED <<score, venue>> BY <1>8, <2>1 DEF Resubscribe
  <2>4. wire' # <<>> /\ wire'[1] = f BY <2>3
  <2>5. Expects(score, wire)' BY <1>2, <2>2, <2>3, <2>4 DEF Expects
  <2> QED BY <1>2, <2>3, <2>5 DEF QuietStream
<1>9. ~SnapshotServed /\ ~AdoptSnapshot BY DEF WireInv, SnapshotServed, AdoptSnapshot, Asked
<1>10. ~RefetchSnapshot /\ ~Begin BY DEF WireInv, RefetchSnapshot, Begin
<1>11. ~(OpenSocket \/ ReadIntoBuffer \/ OpenFails \/ Reopen \/ ReopenFails \/ WindowEnds)
  BY DEF OpenSocket, ReadIntoBuffer, OpenFails, Reopen, ReopenFails, WindowEnds
<1> QED BY <1>4, <1>5, <1>6, <1>7, <1>8, <1>9, <1>10, <1>11 DEF Next

LEMMA QuietInvAtFirst == Init => QuietInv
<1> SUFFICES ASSUME Init PROVE QuietInv OBVIOUS
<1>1. PICK book \in Book : venue = [id |-> 0, book |-> book] /\ past = [i \in {0} |-> book]
  BY DEF Init
<1>2. /\ mode \in Modes /\ sock = "down" /\ wire = <<>> /\ phase = "opening" /\ buffer = <<>>
      /\ fetches = 0 /\ lastSeen = None /\ attempts = 0 /\ score = NoScore
      /\ bridged = FALSE /\ blind = FALSE /\ faults = 0 /\ venue.id = 0
  BY <1>1 DEF Init
<1>3. BoundsInv
  <2>1. Len(wire) = 0
    <3>1. Len(<<>>) = 0 OBVIOUS
    <3> QED BY <1>2, <3>1
  <2>2. 0 \in 0..MaxUpdates /\ 0 \in 0..MaxFetches /\ 0 \in 0..MaxAttempts /\ 0 \in 0..MaxFaults
        /\ 0 < MaxAttempts /\ 0 <= MaxInFlight
    BY DepthLaneAssumption
  <2>3. Len(wire) <= MaxInFlight + faults BY <1>2, <2>1, <2>2, DepthLaneAssumption
  <2> QED BY <1>2, <2>2, <2>3 DEF BoundsInv
<1>4. QuietWire BY <1>2, NoFrames DEF QuietWire
<1>5. QuietRest BY <1>2 DEF QuietRest
<1>6. QuietStream
  <2>1. PICK n : n = NoScore OBVIOUS
  <2>2. n = [events |-> FALSE, opens |-> FALSE, anchored |-> FALSE, prev |-> None, time |-> None,
             book |-> EmptyBook, curated |-> EmptyBook, findings |-> {}, diverged |-> FALSE]
    BY <2>1 DEF NoScore
  <2>3. ~score.events /\ score.findings = {} /\ score.time = None BY <1>2, <2>1, <2>2
  <2> QED BY <1>2, <2>3 DEF QuietStream, None
<1> QED BY <1>3, <1>4, <1>5, <1>6 DEF QuietInv

LEMMA QuietInvKept == ProofInv /\ QuietInv /\ [Next]_vars => QuietInv'
<1> SUFFICES ASSUME ProofInv, QuietInv, [Next]_vars PROVE QuietInv' OBVIOUS
<1>1. /\ PastInv /\ WireInv /\ ScoreInv /\ BoundsInv /\ PastInv'
      /\ sock \in {"up", "down"} /\ blind \in BOOLEAN /\ faults \in Nat /\ lastSeen \in Int
  BY ProofInvKept, DepthLaneAssumption DEF ProofInv, QuietInv, BoundsInv, None
<1>2. CASE Next
  <2>1. BoundsInv' BY <1>1, <1>2, BoundsKept
  <2>2. mode' = mode
    <3>1. CASE VenueUpdate BY <1>1, <3>1, PastGrows
    <3>2. CASE ~VenueUpdate BY <1>1, <1>2, <3>2, OthersKeepWire
    <3> QED BY <3>1, <3>2
  <2>3. ASSUME faults' = 0 PROVE faults = 0 /\ ~Fault
    <3>1. Fault => faults' = faults + 1 BY DEF Fault
    <3>2. ~Fault => faults' = faults
      BY <1>2 DEF Next, VenueUpdate, OpenSocket, ReadIntoBuffer, SnapshotServed, AdoptSnapshot,
           RefetchSnapshot, Begin, OpenFails, Stream, SocketBreaks, Resubscribe, Reopen, ReopenFails,
           StreamOfNoSocket, WindowEnds
    <3> QED BY <1>1, <2>3, <3>1, <3>2
  <2>4. ASSUME faults' = 0 PROVE QuietWire' /\ IF mode' = "rest" THEN QuietRest' ELSE QuietStream'
    <3>1. ~Fault /\ QuietWire /\ IF mode = "rest" THEN QuietRest ELSE QuietStream
      BY <2>3, <2>4 DEF QuietInv
    <3>2. QuietWire' BY <1>1, <1>2, <3>1, QuietWireKept
    <3>3. CASE mode = "rest"
      <4>1. QuietRest' BY <1>1, <1>2, <3>1, <3>3, QuietRestKept
      <4> QED BY <2>2, <3>2, <3>3, <4>1
    <3>4. CASE mode # "rest"
      <4>1. QuietStream' BY <1>1, <1>2, <3>1, <3>4, QuietStreamKept
      <4> QED BY <2>2, <3>2, <3>4, <4>1
    <3> QED BY <3>3, <3>4
  <2> QED BY <2>1, <2>4 DEF QuietInv
<1>3. CASE UNCHANGED vars
  <2>1. UNCHANGED <<mode, venue, past, sock, wire, phase, buffer, fetches, lastSeen, attempts, score,
                    bridged, blind, faults>>
    BY <1>3 DEF vars, collector, history
  <2>2. BoundsInv' BY <1>1, <2>1 DEF BoundsInv
  <2>3. Upto(wire)' = Upto(wire) BY <2>1 DEF Upto
  <2>4. QuietWire => QuietWire' BY <2>1, <2>3 DEF QuietWire
  <2>5. QuietRest => QuietRest' BY <2>1, <2>3 DEF QuietRest
  <2>6. Expects(score, wire) => Expects(score, wire)'
    <3>1. Reached(score, Upto(wire)) => Reached(score, Upto(wire))'
      BY <2>1, <2>3 DEF Reached, Visible
    <3> QED BY <2>1, <3>1 DEF Expects
  <2>7. QuietStream => QuietStream' BY <2>1, <2>6 DEF QuietStream
  <2> QED BY <2>1, <2>2, <2>4, <2>5, <2>7 DEF QuietInv
<1> QED BY <1>2, <1>3

\* A run nothing went wrong with on the wire is never refused, whatever the bounds:
\* a stream lane however often it was cut and resubscribed, a REST lane that began on
\* a bridged snapshot and saw the first frame of every reopening (and the state keeps
\* its types).  replay_depth_run and replay_depth_stream_run raise no finding of their
\* own.
THEOREM NoDepthRunFailsForNothing == Spec => []NoFalseAlarm
<1>1. Init => ProofInv /\ QuietInv BY ProofInvAtFirst, QuietInvAtFirst
<1>2. ProofInv /\ QuietInv /\ [Next]_vars => (ProofInv /\ QuietInv)' BY ProofInvKept, QuietInvKept
<1>3. ProofInv /\ QuietInv => NoFalseAlarm
  <2> SUFFICES ASSUME ProofInv, QuietInv PROVE NoFalseAlarm OBVIOUS
  <2>1. PastInv /\ WireInv /\ ScoreInv /\ BoundsInv BY DEF ProofInv, QuietInv
  <2>2. TypeOK
    <3>1. snapshot.id \in {None} \cup 0..MaxUpdates
      BY <2>1, IdsAreBounded DEF WireInv, IsShot, BoundsInv
    <3>2. Len(wire) <= MaxInFlight + MaxFaults
      <4>1. Len(wire) \in Nat /\ faults \in Nat /\ faults <= MaxFaults /\ Len(wire) <= MaxInFlight + faults
        BY <2>1, DepthLaneAssumption DEF WireInv, BoundsInv
      <4> QED BY <4>1, DepthLaneAssumption
    <3>3. score.book \in Book /\ score.curated \in Book /\ score.findings \subseteq Gating
      BY <2>1 DEF ScoreInv, Scores
    <3>4. venue.book \in Book BY <2>1 DEF PastInv, Shots
    <3> QED BY <2>1, <3>1, <3>2, <3>3, <3>4 DEF TypeOK, BoundsInv
  <2>3. ASSUME faults = 0, score.events, mode = "rest" => bridged /\ ~blind PROVE Replayable
    <3>1. IF mode = "rest" THEN QuietRest ELSE QuietStream BY <2>3 DEF QuietInv
    <3>2. CASE mode = "rest"
      <4>1. score.events /\ score.findings = {} BY <2>3, <3>1, <3>2 DEF QuietRest
      <4> QED BY <3>2, <4>1 DEF Replayable, RestReplayable
    <3>3. CASE mode # "rest"
      <4>1. score.events /\ score.findings = {} /\ score.opens BY <2>3, <3>1, <3>3 DEF QuietStream
      <4> QED BY <3>3, <4>1 DEF Replayable, StreamReplayable
    <3> QED BY <3>2, <3>3
  <2> QED BY <2>2, <2>3 DEF NoFalseAlarm
<1> QED BY <1>1, <1>2, <1>3, PTL DEF Spec
=============================================================================
