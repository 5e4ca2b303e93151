--------------------------- MODULE TapeLaneProofs ---------------------------
(* Proofs about a lane of prints (market_normalizers.py, quality.py and the  *)
(* scorers of replay.py), for any bounds: what a verdict stands for, that no *)
(* print is clean twice, and that a run which lost nothing is replayable.    *)
EXTENDS TapeLane, SequenceTheorems, FiniteSetTheorems, WellFoundedInduction, TLAPS

-----------------------------------------------------------------------------
(* What a scorer makes of a file, row by row.                                *)

LEMMA LeastNat ==
    ASSUME NEW T \in SUBSET Nat, T # {}
    PROVE  \E x \in T : \A y \in T : x <= y
<1> DEFINE R == {ss \in Nat \X Nat : ss[1] < ss[2]}
<1>1. IsWellFoundedOn(R, Nat) BY NatLessThanWellFounded DEF OpToRel
<1>2. PICK x \in T : \A y \in T : ~(<<y, x>> \in R)
  <2> HIDE DEF R
  <2> QED BY <1>1, WFMin
<1>3. \A y \in T : ~(y < x) BY <1>2
<1> QED BY <1>3

\* The equation of the recursion in Score: it has a solution up to any length, and one only.
ReadBy(scorer, q, f, n) ==
    f = [i \in 0..n |-> IF i = 0 THEN Start(scorer) ELSE Reads(scorer, f[i - 1], q[i])]

LEMMA ReadExists ==
    ASSUME NEW scorer, NEW q, NEW m \in Nat PROVE \E f : ReadBy(scorer, q, f, m)
<1> DEFINE Bad == {n \in Nat : ~\E f : ReadBy(scorer, q, f, n)}
<1>1. SUFFICES ASSUME Bad # {} PROVE FALSE OBVIOUS
<1>2. PICK n \in Bad : \A k \in Bad : n <= k
  <2>1. Bad \in SUBSET Nat OBVIOUS
  <2> HIDE DEF Bad
  <2> QED BY <1>1, <2>1, LeastNat
<1>3. n # 0
  <2> DEFINE z == [i \in 0..0 |-> Start(scorer)]
  <2>1. z = [i \in 0..0 |-> IF i = 0 THEN Start(scorer) ELSE Reads(scorer, z[i - 1], q[i])]
    OBVIOUS
  <2>2. ReadBy(scorer, q, z, 0) BY <2>1 DEF ReadBy
  <2> QED BY <1>2, <2>2
<1>4. n - 1 \in Nat /\ n - 1 \notin Bad /\ n \in Nat BY <1>2, <1>3
<1>5. PICK f : ReadBy(scorer, q, f, n - 1) BY <1>4
<1> DEFINE g == [i \in 0..n |-> IF i < n THEN f[i] ELSE Reads(scorer, f[i - 1], q[i])]
<1>6. f = [i \in 0..(n - 1) |-> IF i = 0 THEN Start(scorer) ELSE Reads(scorer, f[i - 1], q[i])]
  BY <1>5 DEF ReadBy
<1>7. ASSUME NEW i \in 0..n
      PROVE  g[i] = IF i = 0 THEN Start(scorer) ELSE Reads(scorer, g[i - 1], q[i])
  <2>1. CASE i = n
    <3>1. g[i] = Reads(scorer, f[i - 1], q[i]) BY <2>1, <1>4
    <3>2. g[i - 1] = f[i - 1] BY <2>1, <1>4
    <3> QED BY <2>1, <1>3, <3>1, <3>2
  <2>2. CASE i < n
    <3>1. i \in 0..(n-1) /\ g[i] = f[i] BY <2>2, <1>4
    <3>2. i # 0 => i - 1 \in 0..n /\ i - 1 < n BY <2>2, <1>4
    <3>3. i # 0 => g[i - 1] = f[i - 1] BY <3>2
    <3>4. f[i] = IF i = 0 THEN Start(scorer) ELSE Reads(scorer, f[i - 1], q[i]) BY <3>1, <1>6
    <3> HIDE DEF g
    <3> QED BY <3>1, <3>3, <3>4
  <2> QED BY <2>1, <2>2, <1>4
<1>8. ReadBy(scorer, q, g, n)
  <2>1. g = [i \in 0..n |-> g[i]] OBVIOUS
  <2> HIDE DEF g
  <2> QED BY <1>7, <2>1 DEF ReadBy
<1> QED BY <1>2, <1>8

LEMMA ReadIsUnique ==
    ASSUME NEW scorer, NEW m \in Nat, NEW p, NEW q, \A i \in 1..m : p[i] = q[i],
           NEW f, ReadBy(scorer, p, f, m), NEW g, ReadBy(scorer, q, g, m + 1)
    PROVE  f[m] = g[m]
<1> DEFINE Bad == {i \in 0..m : f[i] # g[i]}
<1>1. SUFFICES ASSUME Bad # {} PROVE FALSE
  <2>1. m \in 0..m OBVIOUS
  <2> QED BY <2>1
<1>2. PICK i \in Bad : \A k \in Bad : i <= k
  <2>1. Bad \in SUBSET Nat OBVIOUS
  <2> HIDE DEF Bad
  <2> QED BY <1>1, <2>1, LeastNat
<1>3. /\ f[i] = IF i = 0 THEN Start(scorer) ELSE Reads(scorer, f[i - 1], p[i])
      /\ g[i] = IF i = 0 THEN Start(scorer) ELSE Reads(scorer, g[i - 1], q[i])
  <2>1. i \in 0..m /\ i \in 0..(m + 1) BY <1>2
  <2>2. f = [k \in 0..m |-> IF k = 0 THEN Start(scorer) ELSE Reads(scorer, f[k - 1], p[k])]
    BY DEF ReadBy
  <2>3. g = [k \in 0..(m + 1) |-> IF k = 0 THEN Start(scorer) ELSE Reads(scorer, g[k - 1], q[k])]
    BY DEF ReadBy
  <2>4. f[i] = IF i = 0 THEN Start(scorer) ELSE Reads(scorer, f[i - 1], p[i]) BY <2>1, <2>2
  <2>5. g[i] = IF i = 0 THEN Start(scorer) ELSE Reads(scorer, g[i - 1], q[i]) BY <2>1, <2>3
  <2> QED BY <2>4, <2>5
<1>4. i # 0 BY <1>2, <1>3
<1>5. i \in 1..m /\ i - 1 \in 0..m /\ i - 1 \notin Bad BY <1>2, <1>4
<1>6. f[i - 1] = g[i - 1] /\ p[i] = q[i] BY <1>5
<1> QED BY <1>2, <1>3, <1>4, <1>6

LEMMA ScoreReads ==
    ASSUME NEW scorer, NEW X, NEW q \in Seq(X)
    PROVE  \E f : ReadBy(scorer, q, f, Len(q)) /\ Score(scorer, q) = f[Len(q)]
<1> DEFINE read == CHOOSE read : read = [i \in 0..Len(q) |->
                        IF i = 0 THEN Start(scorer) ELSE Reads(scorer, read[i - 1], q[i])]
<1>1. ReadBy(scorer, q, read, Len(q))
  <2>1. \E f : ReadBy(scorer, q, f, Len(q))
    <3>1. Len(q) \in Nat OBVIOUS
    <3> QED BY <3>1, ReadExists
  <2> QED BY <2>1 DEF ReadBy
<1>2. Score(scorer, q) = read[Len(q)] BY DEF Score, read
<1> QED BY <1>1, <1>2

LEMMA ScoreEmpty == ASSUME NEW scorer PROVE Score(scorer, <<>>) = Start(scorer)
<1>1. <<>> \in Seq({}) /\ Len(<<>>) = 0 OBVIOUS
<1>2. PICK f : ReadBy(scorer, <<>>, f, 0) /\ Score(scorer, <<>>) = f[0] BY <1>1, ScoreReads
<1>3. f = [i \in 0..0 |-> IF i = 0 THEN Start(scorer) ELSE Reads(scorer, f[i - 1], <<>>[i])]
  BY <1>2 DEF ReadBy
<1>4. f[0] = Start(scorer) BY <1>3
<1> QED BY <1>2, <1>4

LEMMA ScoreAppend ==
    ASSUME NEW scorer, NEW X, NEW q \in Seq(X), NEW row \in X
    PROVE  Score(scorer, Append(q, row)) = Reads(scorer, Score(scorer, q), row)
<1> DEFINE p == Append(q, row)
           n == Len(q)
<1>1. /\ p \in Seq(X) /\ Len(p) = n + 1 /\ n \in Nat
      /\ \A i \in 1..n : q[i] = p[i]
      /\ p[n + 1] = row
  BY AppendProperties
<1>2. PICK f : ReadBy(scorer, q, f, n) /\ Score(scorer, q) = f[n] BY ScoreReads
<1>3. PICK g : ReadBy(scorer, p, g, Len(p)) /\ Score(scorer, p) = g[Len(p)]
  <2> HIDE DEF p
  <2> QED BY <1>1, ScoreReads
<1> HIDE DEF p, n
<1>4. f[n] = g[n]
  <2>1. n \in Nat /\ ReadBy(scorer, q, f, n) /\ ReadBy(scorer, p, g, n + 1) BY <1>1, <1>2, <1>3
  <2>2. \A i \in 1..n : q[i] = p[i] BY <1>1
  <2> QED BY <2>1, <2>2, ReadIsUnique
<1>5. g[n + 1] = Reads(scorer, g[n], p[n + 1])
  <2>1. g = [i \in 0..(n + 1) |-> IF i = 0 THEN Start(scorer) ELSE Reads(scorer, g[i - 1], p[i])]
    BY <1>1, <1>3 DEF ReadBy
  <2>2. n + 1 \in 0..(n + 1) /\ n + 1 # 0 /\ n + 1 - 1 = n BY <1>1
  <2> QED BY <2>1, <2>2
<1> QED BY <1>1, <1>2, <1>3, <1>4, <1>5 DEF p

-----------------------------------------------------------------------------
Frames == [replay : BOOLEAN, ids : Seq(Ids)]
Rows == [id : Ids, at : Nat, recv : Int, seq : {NoId} \cup Ids, good : BOOLEAN,
         channel : {"trades", "liquidations"}]

\* The types, with those of frames and rows.
StateInv ==
    /\ TapeTypeOK
    /\ feed \in Seq(Frames) /\ clean \in Seq(Rows)

\* The venue's prints are in order, unless it publishes late.
TapeInv ==
    /\ \A i \in 1..Len(tape) : tape[i].at <= now
    /\ ~lane.late => \A i, j \in 1..Len(tape) : i < j => tape[i].at <= tape[j].at

First(i) == feed[i].ids[1]
LastId(i) == feed[i].ids[1] + Len(feed[i].ids) - 1

\* A frame holds prints in a row, and later frames later ones; the first may be a replay.
\* Of a dense lane no print is missing, up to the last of the tape.
WireInv ==
    /\ ~up => feed = <<>>
    /\ \A i \in DOMAIN feed :
        /\ \A k \in DOMAIN feed[i].ids : feed[i].ids[k] = First(i) + k - 1
        /\ LastId(i) <= Len(tape)
        /\ feed[i].replay => i = 1 /\ fresh /\ lane.replay > 0
    /\ \A i, j \in DOMAIN feed : i < j => LastId(i) < First(j)
    /\ lane.dense /\ feed # <<>> => LastId(Len(feed)) = Len(tape)
    /\ lane.dense => \A i \in 1..(Len(feed) - 1) : First(i + 1) = LastId(i) + 1

\* A row is what its print is, and the gate has passed it.
Passed(row) ==
    /\ row.id <= Len(tape) /\ row.at = tape[row.id].at
    /\ row.seq = IF lane.dense /\ tape[row.id].odd # "id" THEN row.id ELSE NoId
    /\ row.good = (tape[row.id].odd # "value")
    /\ row.channel = lane.channel
    /\ row.channel = "trades" => row.good
    /\ row.recv - row.at <= MaxDelay /\ row.at - row.recv <= MaxFutureSkew
RowsInv == \A i \in DOMAIN clean : Passed(clean[i])

\* A print that is clean, or was in an earlier run, is behind every live frame, and not
\* above the cursor, once there is one.
Known(id) == cleaned[id] > 0 \/ \E i \in DOMAIN clean : clean[i].id = id
KnownInv ==
    \A id \in Ids : Known(id) =>
        /\ id <= Len(tape)
        /\ \A i \in DOMAIN feed : ~feed[i].replay => id < First(i)
        /\ lane.dense /\ cursor # NoId /\ tape[id].odd # "id" => id <= cursor

OnceInv == KnownInv /\ NoPrintTwice

Scored == Score(lane.scorer, clean)
LastClean == clean[Len(clean)].id

\* What the scorer remembers of the rows.
ScoreInv ==
    /\ lane.dense /\ Scored.findings = {} =>
        Scored.prev = IF clean = <<>> THEN NoId ELSE LastClean
    /\ lane.scorer = "stream" => Scored.prev \subseteq {clean[i].at : i \in DOMAIN clean}
    /\ lane.scorer = "liquidations" =>
        /\ Scored.prev \subseteq {clean[i].recv : i \in DOMAIN clean}
        /\ \A i \in DOMAIN clean : \E p \in Scored.prev : clean[i].recv <= p

VerdictInv == ScoreInv /\ VerdictStands

Upcoming == IF feed = <<>> THEN Len(tape) + 1 ELSE First(1)

\* Where nothing has gone wrong, the scorer has found nothing, and on a dense lane the
\* next print to come is not beyond the next one of the run.
CleanSoFar ==
    /\ Scored.findings = {}
    /\ lane.dense => cursor = IF clean = <<>> THEN NoId ELSE LastClean
    /\ lane.dense /\ up /\ clean # <<>> => Upcoming <= LastClean + 1
AlarmInv ==
    /\ "clocks" \notin blamed =>
        \A i \in DOMAIN clean : now + host >= clean[i].recv - StepTolerance
    /\ blamed = {} => CleanSoFar

TapeLaneInv ==
    StateInv /\ TapeInv /\ WireInv /\ RowsInv /\ OnceInv /\ VerdictInv /\ AlarmInv
-----------------------------------------------------------------------------
(* The types.                                                                *)

LaneType ==
    [channel : {"trades", "liquidations"}, dense : BOOLEAN, replay : Nat,
     tag : {"frame", "place"}, wantsId : BOOLEAN, conflates : BOOLEAN, late : BOOLEAN,
     scorer : {"trades", "stream", "liquidations"}]
Has(l, scorer, replay, tag, wantsId) ==
    /\ l \in LaneType
    /\ l.scorer = scorer /\ l.dense = (scorer = "trades")
    /\ l.channel = IF scorer = "liquidations" THEN scorer ELSE "trades"
    /\ l.replay = replay /\ l.tag = tag /\ l.wantsId = wantsId
    /\ scorer = "trades" => ~l.conflates
    /\ scorer # "liquidations" => ~l.late

\* What the lanes have in common, scorer by scorer.
LEMMA LaneFacts ==
    ASSUME NEW l \in AllLanes
    PROVE  /\ l \in LaneType
           /\ l.dense <=> l.scorer = "trades"
           /\ l.dense => ~l.conflates /\ l.tag = "frame" /\ ~l.wantsId
           /\ l.scorer = "liquidations" =>
                l.channel = "liquidations" /\ l.replay = 0 /\ l.tag = "frame"
           /\ l.scorer # "liquidations" => l.channel = "trades" /\ ~l.late
           /\ l.replay > 0 /\ ~l.dense => l.tag = "place"
<1>1. Replayed \in Nat BY TapeLaneAssumption
<1>2. Has(Tape, "trades", 0, "frame", FALSE) BY DEF Tape, Has, LaneType
<1>3. Has(TradeStream, "stream", 0, "frame", FALSE) /\ ~TradeStream.conflates
  BY <1>2 DEF Tape, TradeStream, Has, LaneType
<1>4. Has(Liquidations, "liquidations", 0, "frame", FALSE) BY <1>3 DEF Liquidations, Has, LaneType
<1>5. /\ Has(BinanceTrades, "trades", 0, "frame", FALSE)
      /\ Has(CoinbaseTrades, "trades", 1, "frame", FALSE)
      /\ Has(KrakenTrades, "trades", Replayed, "frame", FALSE)
  BY <1>1, <1>2 DEF BinanceTrades, CoinbaseTrades, KrakenTrades, Has, LaneType
<1>6. /\ Has(BybitTrades, "stream", 0, "frame", FALSE)
      /\ Has(MexcTrades, "stream", 0, "frame", FALSE)
      /\ Has(OkxTrades, "stream", 0, "frame", FALSE)
  BY <1>3 DEF BybitTrades, MexcTrades, OkxTrades, Has, LaneType
<1>7. Has(HyperliquidTrades, "stream", Replayed, "place", TRUE)
  BY <1>1, <1>3 DEF HyperliquidTrades, Has, LaneType
<1>8. /\ Has(BybitLiquidations, "liquidations", 0, "frame", FALSE)
      /\ Has(BinanceLiquidations, "liquidations", 0, "frame", FALSE)
      /\ Has(OkxLiquidations, "liquidations", 0, "frame", FALSE)
  BY <1>4 DEF BybitLiquidations, BinanceLiquidations, OkxLiquidations, Has, LaneType
<1>9. \/ \E n \in Nat : Has(l, "trades", n, "frame", FALSE)
      \/ Has(l, "stream", 0, "frame", FALSE) \/ Has(l, "stream", Replayed, "place", TRUE)
      \/ Has(l, "liquidations", 0, "frame", FALSE)
  <2>1. CASE l \in {BinanceTrades, CoinbaseTrades, KrakenTrades} BY <1>1, <1>5, <2>1
  <2>2. CASE l \in {BybitTrades, MexcTrades, OkxTrades} BY <1>6, <2>2
  <2>3. CASE l = HyperliquidTrades BY <1>7, <2>3
  <2>4. CASE l \in {BybitLiquidations, BinanceLiquidations, OkxLiquidations} BY <1>8, <2>4
  <2> QED BY <2>1, <2>2, <2>3, <2>4 DEF AllLanes
<1>10. CASE \E n \in Nat : Has(l, "trades", n, "frame", FALSE)
  <2>1. PICK n \in Nat : Has(l, "trades", n, "frame", FALSE) BY <1>10
  <2> QED BY <2>1 DEF Has, LaneType
<1>11. CASE Has(l, "stream", 0, "frame", FALSE) BY <1>11 DEF Has, LaneType
<1>12. CASE Has(l, "stream", Replayed, "place", TRUE) BY <1>1, <1>12 DEF Has, LaneType
<1>13. CASE Has(l, "liquidations", 0, "frame", FALSE) BY <1>13 DEF Has, LaneType
<1> QED BY <1>9, <1>10, <1>11, <1>12, <1>13

\* What follows from the types for every step.
LEMMA Basics ==
    ASSUME StateInv
    PROVE  /\ lane \in AllLanes /\ lane \in LaneType /\ MaxClockSkew \in Nat /\ StepTolerance \in Nat
           /\ MaxDelay \in Nat /\ MaxFutureSkew \in Nat /\ MaxPrints \in Nat /\ MaxTime \in Nat
           /\ MaxRuns \in Nat /\ MaxTroubles \in Nat
           /\ now \in Nat /\ host \in Int /\ cursor \in Nat /\ run \in Nat
           /\ Len(tape) \in Nat /\ Len(tape) <= MaxPrints /\ DOMAIN tape = 1..Len(tape)
           /\ \A i \in 1..Len(tape) : tape[i] \in [at : 0..MaxTime, odd : Oddities]
           /\ Len(feed) \in Nat /\ DOMAIN feed = 1..Len(feed)
           /\ \A i \in 1..Len(feed) :
                /\ feed[i] \in Frames /\ feed[i].ids # <<>>
                /\ Len(feed[i].ids) \in Nat \ {0} /\ DOMAIN feed[i].ids = 1..Len(feed[i].ids)
                /\ \A k \in 1..Len(feed[i].ids) : feed[i].ids[k] \in Nat
           /\ Len(clean) \in Nat /\ DOMAIN clean = 1..Len(clean)
           /\ \A i \in 1..Len(clean) : clean[i] \in Rows
<1> USE DEF StateInv, TapeTypeOK
<1>1. /\ lane \in AllLanes /\ lane \in LaneType /\ MaxClockSkew \in Nat /\ StepTolerance \in Nat
      /\ MaxDelay \in Nat /\ MaxFutureSkew \in Nat /\ MaxPrints \in Nat /\ MaxTime \in Nat
      /\ MaxRuns \in Nat /\ MaxTroubles \in Nat
  BY VerdictsAssumption, TapeLaneAssumption, LanesAssumption, LaneFacts
<1>2. now \in Nat /\ host \in Int /\ cursor \in Nat /\ run \in Nat BY <1>1 DEF Ids, NoId
<1>3. /\ Len(tape) \in Nat /\ Len(tape) <= MaxPrints /\ DOMAIN tape = 1..Len(tape)
      /\ \A i \in 1..Len(tape) : tape[i] \in [at : 0..MaxTime, odd : Oddities]
  <2>1. tape \in Seq([at : 0..MaxTime, odd : Oddities]) /\ Len(tape) <= MaxPrints OBVIOUS
  <2>2. \A i \in 1..Len(tape) : tape[i] \in [at : 0..MaxTime, odd : Oddities] BY <2>1, ElementOfSeq
  <2> QED BY <2>1, <2>2
<1>4. /\ Len(feed) \in Nat /\ DOMAIN feed = 1..Len(feed)
      /\ \A i \in 1..Len(feed) : feed[i] \in Frames /\ feed[i].ids # <<>>
  BY ElementOfSeq
<1>5. ASSUME NEW i \in 1..Len(feed)
      PROVE  /\ Len(feed[i].ids) \in Nat \ {0} /\ DOMAIN feed[i].ids = 1..Len(feed[i].ids)
             /\ \A k \in 1..Len(feed[i].ids) : feed[i].ids[k] \in Nat
  <2>1. feed[i].ids \in Seq(Ids) /\ feed[i].ids # <<>> BY <1>4 DEF Frames
  <2>2. \A k \in 1..Len(feed[i].ids) : feed[i].ids[k] \in Ids BY <2>1, ElementOfSeq
  <2>3. /\ Len(feed[i].ids) \in Nat /\ DOMAIN feed[i].ids = 1..Len(feed[i].ids)
        /\ Len(feed[i].ids) # 0
    BY <2>1, EmptySeq
  <2>4. \A x \in Ids : x \in Nat BY DEF Ids
  <2> HIDE DEF StateInv, TapeTypeOK
  <2> QED BY <2>2, <2>3, <2>4
<1>6. /\ Len(clean) \in Nat /\ DOMAIN clean = 1..Len(clean)
      /\ \A i \in 1..Len(clean) : clean[i] \in Rows
  BY ElementOfSeq
<1> QED BY <1>1, <1>2, <1>3, <1>4, <1>5, <1>6

LEMMA RecentPrints ==
    ASSUME StateInv, NEW n \in Nat
    PROVE  LET m == IF n < Len(tape) THEN n ELSE Len(tape)
               q == MostRecent(n)
           IN  /\ m \in Nat /\ q \in Seq(Ids) /\ Len(q) = m
               /\ \A k \in 1..m : q[k] = Len(tape) - m + k
               /\ n > 0 /\ tape # <<>> => m > 0 /\ q # <<>>
<1> DEFINE m == IF n < Len(tape) THEN n ELSE Len(tape)
           q == [i \in 1..m |-> Len(tape) - m + i]
<1>1. Len(tape) \in Nat /\ Len(tape) <= MaxPrints /\ MaxPrints \in Nat BY Basics
<1>2. m \in Nat /\ m <= Len(tape) BY <1>1
<1>3. MostRecent(n) = q BY DEF MostRecent
<1> HIDE DEF m
<1>4. q \in Seq(Ids) /\ Len(q) = m /\ DOMAIN q = 1..m
  <2>1. \A i \in 1..m : Len(tape) - m + i \in Ids BY <1>1, <1>2 DEF Ids
  <2>2. q \in [1..m -> Ids] BY <2>1
  <2> HIDE DEF q
  <2>3. DOMAIN q = 1..m BY <2>2
  <2>4. q \in Seq(Ids) BY <1>2, <2>2
  <2> QED BY <1>2, <2>3, <2>4
<1>5. n > 0 /\ tape # <<>> => m > 0
  <2>1. tape # <<>> => Len(tape) > 0 BY <1>1, EmptySeq DEF StateInv, TapeTypeOK
  <2> QED BY <2>1 DEF m
<1>6. m > 0 => q # <<>>
  <2> HIDE DEF q
  <2> QED BY <1>4, EmptySeq
<1> QED BY <1>2, <1>3, <1>4, <1>5, <1>6 DEF m

\* How often a print is among the rows.
LEMMA TimesCount ==
    ASSUME StateInv, NEW id
    PROVE  /\ IsFiniteSet({i \in DOMAIN clean : clean[i].id = id})
           /\ Times(id) \in Nat
           /\ Times(id) > 0 <=> \E i \in DOMAIN clean : clean[i].id = id
<1> DEFINE here == {i \in DOMAIN clean : clean[i].id = id}
<1>1. IsFiniteSet(here)
  <2>1. IsFiniteSet(1..Len(clean))
    <3>1. Len(clean) \in Nat BY Basics
    <3> QED BY <3>1, FS_Interval
  <2>2. here \subseteq 1..Len(clean) BY Basics
  <2> QED BY <2>1, <2>2, FS_Subset
<1>2. Cardinality(here) \in Nat /\ (Cardinality(here) = 0 <=> here = {})
  <2> HIDE DEF here
  <2> QED BY <1>1, FS_CardinalityType, FS_EmptySet
<1> QED BY <1>1, <1>2 DEF Times

\* The print that is received next, as a row.
X == Head(Head(feed).ids)

LEMMA HeadPrint ==
    ASSUME StateInv, WireInv, feed # <<>>
    PROVE  /\ Len(feed) \in Nat \ {0} /\ Head(feed) = feed[1] /\ feed[1] \in Frames
           /\ X = First(1) /\ X \in Ids /\ X \in 1..Len(tape) /\ X <= LastId(1)
           /\ tape[X] \in [at : 0..MaxTime, odd : Oddities]
           /\ PrintRow(X) \in Rows /\ PrintRow(X).id = X /\ PrintRow(X).at = tape[X].at
           /\ PrintRow(X).recv = now + host
           /\ PrintRow(X).seq = IF lane.dense /\ tape[X].odd # "id" THEN X ELSE NoId
           /\ PrintRow(X).good = (tape[X].odd # "value") /\ PrintRow(X).channel = lane.channel
<1>1. Len(feed) \in Nat \ {0} /\ Head(feed) = feed[1] /\ DOMAIN feed = 1..Len(feed)
  BY EmptySeq DEF StateInv
<1>2. /\ 1 \in DOMAIN feed /\ feed[1] \in Frames /\ feed[1].ids # <<>>
      /\ Len(feed[1].ids) \in Nat \ {0} /\ feed[1].ids \in Seq(Ids)
  BY <1>1, Basics DEF Frames
<1>3. X = First(1) /\ X \in Ids
  <2>1. Head(feed[1].ids) = feed[1].ids[1] /\ feed[1].ids[1] \in Ids BY <1>2, ElementOfSeq
  <2> QED BY <1>1, <2>1 DEF X, First
<1>4. X <= LastId(1) /\ LastId(1) <= Len(tape)
  <2>1. X \in Nat BY <1>3, Basics DEF Ids
  <2>2. LastId(1) = X + Len(feed[1].ids) - 1 BY <1>3 DEF LastId, First
  <2>3. LastId(1) <= Len(tape) BY <1>2 DEF WireInv
  <2> QED BY <1>2, <2>1, <2>2, <2>3
<1>5. X \in Nat /\ X \in 1..Len(tape) /\ Len(tape) \in Nat
  <2>1. X \in Nat /\ X >= 1 /\ Len(tape) \in Nat BY <1>3, Basics DEF Ids
  <2>2. LastId(1) = X + Len(feed[1].ids) - 1 BY <1>3 DEF LastId, First
  <2> QED BY <1>2, <1>4, <2>1, <2>2
<1>6. tape[X] \in [at : 0..MaxTime, odd : Oddities] BY <1>5, Basics
<1>7. /\ PrintRow(X).id = X /\ PrintRow(X).at = tape[X].at
      /\ PrintRow(X).recv = now + host
      /\ PrintRow(X).seq = IF lane.dense /\ tape[X].odd # "id" THEN X ELSE NoId
      /\ PrintRow(X).good = (tape[X].odd # "value") /\ PrintRow(X).channel = lane.channel
  BY DEF PrintRow
<1>8. PrintRow(X) \in Rows
  <2>1. now + host \in Int /\ lane.channel \in {"trades", "liquidations"} /\ MaxTime \in Nat
    BY Basics DEF LaneType
  <2>2. tape[X].at \in Nat BY <1>6, <2>1
  <2> QED BY <1>3, <2>1, <2>2 DEF PrintRow, Rows
<1> QED BY <1>1, <1>2, <1>3, <1>4, <1>5, <1>6, <1>7, <1>8

\* What is on its way once that print has been read.
LEMMA RestOfWire ==
    ASSUME StateInv, WireInv, Receive
    PROVE  /\ feed' \in Seq(Frames) /\ \A i \in DOMAIN feed' : feed'[i].ids # <<>>
           /\ \/ /\ Len(feed[1].ids) = 1 /\ ~fresh'
                 /\ Len(feed') = Len(feed) - 1
                 /\ \A i \in 1..Len(feed') : feed'[i] = feed[i + 1]
              \/ /\ Len(feed[1].ids) > 1 /\ fresh' = fresh
                 /\ Len(feed') = Len(feed)
                 /\ feed'[1].replay = feed[1].replay
                 /\ Len(feed'[1].ids) = Len(feed[1].ids) - 1
                 /\ \A k \in 1..(Len(feed[1].ids) - 1) : feed'[1].ids[k] = feed[1].ids[k + 1]
                 /\ \A i \in 2..Len(feed') : feed'[i] = feed[i]
<1> DEFINE frame == feed[1]
           rest == Tail(frame.ids)
           part == [frame EXCEPT !.ids = rest]
<1>1. /\ feed # <<>>
      /\ feed' = (IF rest = <<>> THEN <<>> ELSE <<part>>) \o Tail(feed)
      /\ fresh' = (fresh /\ rest # <<>>)
  BY HeadPrint DEF Receive
<1>2. /\ Len(feed) \in Nat \ {0} /\ frame \in Frames /\ feed \in Seq(Frames)
      /\ frame.ids \in Seq(Ids) /\ frame.ids # <<>> /\ Len(frame.ids) \in Nat \ {0}
      /\ \A i \in 1..Len(feed) : feed[i].ids # <<>>
  <2>1. Len(feed) \in Nat \ {0} BY <1>1, HeadPrint
  <2>2. 1 \in 1..Len(feed) BY <2>1
  <2>3. frame \in Frames /\ frame.ids # <<>> /\ Len(frame.ids) \in Nat \ {0} BY <2>2, Basics
  <2> QED BY <2>1, <2>3, Basics DEF Frames, StateInv
<1> HIDE DEF frame
<1>3. /\ rest \in Seq(Ids) /\ Len(rest) = Len(frame.ids) - 1
      /\ \A k \in 1..Len(rest) : rest[k] = frame.ids[k + 1]
      /\ rest = <<>> <=> Len(frame.ids) = 1
  <2>1. /\ rest \in Seq(Ids) /\ Len(rest) = Len(frame.ids) - 1
        /\ \A k \in 1..Len(rest) : rest[k] = frame.ids[k + 1]
    BY <1>2, HeadTailProperties
  <2> HIDE DEF rest
  <2>2. Len(rest) = 0 <=> rest = <<>> BY <2>1, EmptySeq
  <2>3. Len(rest) = 0 <=> Len(frame.ids) = 1 BY <1>2, <2>1
  <2> QED BY <2>1, <2>2, <2>3
<1>4. /\ Tail(feed) \in Seq(Frames) /\ Len(Tail(feed)) = Len(feed) - 1
      /\ \A i \in 1..(Len(feed) - 1) : Tail(feed)[i] = feed[i + 1]
  BY <1>1, <1>2, HeadTailProperties
<1> HIDE DEF rest
<1>5. part \in Frames /\ part.replay = frame.replay /\ part.ids = rest BY <1>2, <1>3 DEF Frames
<1> HIDE DEF part
<1>6. CASE rest = <<>>
  <2>1. feed' = Tail(feed) BY <1>1, <1>4, <1>6
  <2>2. \A i \in 1..Len(feed') : feed'[i] = feed[i + 1] /\ feed[i + 1].ids # <<>>
    BY <1>2, <1>4, <2>1
  <2>3. DOMAIN feed' = 1..Len(feed') BY <1>4, <2>1
  <2> QED BY <1>1, <1>3, <1>4, <1>6, <2>1, <2>2, <2>3 DEF frame
<1>7. CASE rest # <<>>
  <2>1. feed' = <<part>> \o Tail(feed) BY <1>1, <1>7
  <2>2. <<part>> \in Seq(Frames) /\ Len(<<part>>) = 1 /\ <<part>>[1] = part BY <1>5
  <2>3. /\ feed' \in Seq(Frames) /\ Len(feed') = 1 + (Len(feed) - 1)
        /\ \A i \in 1..(1 + (Len(feed) - 1)) :
            feed'[i] = IF i <= 1 THEN <<part>>[i] ELSE Tail(feed)[i - 1]
    BY <1>4, <2>1, <2>2, ConcatProperties
  <2>4. Len(feed') = Len(feed) /\ feed'[1] = part BY <1>2, <2>2, <2>3
  <2>5. \A i \in 2..Len(feed') : feed'[i] = feed[i]
    <3> TAKE i \in 2..Len(feed')
    <3>1. i - 1 \in 1..(Len(feed) - 1) /\ i - 1 + 1 = i /\ i \in 1..(1 + (Len(feed) - 1)) /\ ~(i <= 1)
      BY <1>2, <2>4
    <3>2. feed'[i] = Tail(feed)[i - 1] BY <2>3, <3>1
    <3>3. Tail(feed)[i - 1] = feed[i - 1 + 1] BY <1>4, <3>1
    <3> QED BY <3>1, <3>2, <3>3
  <2>6. \A i \in DOMAIN feed' : feed'[i].ids # <<>>
    <3>1. DOMAIN feed' = 1..Len(feed') BY <2>3
    <3>2. \A i \in 1..Len(feed') : i = 1 \/ i \in 2..Len(feed') BY <1>2, <2>4
    <3>3. \A i \in 2..Len(feed') : feed'[i].ids # <<>> BY <1>2, <2>4, <2>5
    <3> QED BY <1>5, <1>7, <2>4, <3>1, <3>2, <3>3
  <2>7. Len(frame.ids) > 1 BY <1>2, <1>3, <1>7
  <2>8. \A k \in 1..(Len(frame.ids) - 1) : feed'[1].ids[k] = frame.ids[k + 1]
    BY <1>3, <1>5, <2>4
  <2>9. fresh' = fresh
    <3>1. fresh \in BOOLEAN BY DEF StateInv, TapeTypeOK
    <3> QED BY <1>1, <1>7, <3>1
  <2> QED BY <1>3, <1>5, <2>3, <2>4, <2>5, <2>6, <2>7, <2>8, <2>9 DEF frame
<1> QED BY <1>6, <1>7

LEMMA InitTyped == TapeInit => StateInv
<1> SUFFICES ASSUME TapeInit PROVE StateInv
  OBVIOUS
<1>1. MaxTime \in Nat /\ MaxRuns \in Nat /\ MaxTroubles \in Nat /\ MaxPrints \in Nat
  BY TapeLaneAssumption
<1>2. <<>> \in Seq(Frames) /\ <<>> \in Seq(Rows) /\ DOMAIN <<>> = {} /\ Len(<<>>) = 0 OBVIOUS
<1>3. <<>> \in Seq([at : 0..MaxTime, odd : Oddities]) OBVIOUS
<1>4. cleaned \in [Ids -> Nat] BY DEF TapeInit
<1>5. /\ tape \in Seq([at : 0..MaxTime, odd : Oddities]) /\ Len(tape) <= MaxPrints
      /\ feed \in Seq(Frames) /\ DOMAIN feed = {} /\ clean \in Seq(Rows) /\ DOMAIN clean = {}
  BY <1>1, <1>2, <1>3 DEF TapeInit
<1>6. /\ lane \in Lanes /\ now \in 0..MaxTime /\ host \in Int /\ up \in BOOLEAN /\ fresh \in BOOLEAN
      /\ blamed = {} /\ cursor = NoId /\ run \in 0..MaxRuns /\ troubles \in 0..MaxTroubles
  <2>1. /\ lane \in Lanes /\ now = 0 /\ host = 0 /\ up = FALSE /\ fresh = TRUE
        /\ blamed = {} /\ cursor = NoId /\ run = 0 /\ troubles = 0
    BY DEF TapeInit
  <2>2. 0 \in 0..MaxTime /\ 0 \in 0..MaxRuns /\ 0 \in 0..MaxTroubles /\ 0 \in Int BY <1>1
  <2> QED BY <2>1, <2>2, Zenon
<1> QED BY <1>4, <1>5, <1>6 DEF StateInv, TapeTypeOK

\* A venue that sends something more.
LEMMA FrameAppended ==
    ASSUME StateInv, NEW frame \in Frames, frame.ids # <<>>
    PROVE  /\ Append(feed, frame) \in Seq(Frames) /\ Len(Append(feed, frame)) = Len(feed) + 1
           /\ \A i \in 1..Len(feed) : Append(feed, frame)[i] = feed[i]
           /\ Append(feed, frame)[Len(feed) + 1] = frame
           /\ \A i \in DOMAIN Append(feed, frame) : Append(feed, frame)[i].ids # <<>>
<1> DEFINE q == Append(feed, frame)
<1>1. /\ q \in Seq(Frames) /\ Len(q) = Len(feed) + 1 /\ Len(feed) \in Nat
      /\ \A i \in 1..Len(feed) : q[i] = feed[i]
      /\ q[Len(feed) + 1] = frame
  BY AppendProperties DEF StateInv
<1> HIDE DEF q
<1>2. \A i \in DOMAIN q : i \in 1..Len(feed) \/ i = Len(feed) + 1 BY <1>1
<1>3. \A i \in 1..Len(feed) : feed[i].ids # <<>> BY Basics
<1>4. \A i \in DOMAIN q : q[i].ids # <<>> BY <1>1, <1>2, <1>3
<1> QED BY <1>1, <1>4 DEF q

LEMMA StepTyped == StateInv /\ WireInv /\ [TapeNext]_tvars => StateInv'
<1> SUFFICES ASSUME StateInv, WireInv, [TapeNext]_tvars PROVE StateInv'
  OBVIOUS
<1>b. /\ MaxDelay \in Nat /\ MaxPrints \in Nat /\ MaxTime \in Nat /\ MaxRuns \in Nat
      /\ MaxTroubles \in Nat /\ StepTolerance \in Nat /\ now \in Nat /\ host \in Int
      /\ Len(tape) \in Nat /\ Len(feed) \in Nat /\ lane \in LaneType
      /\ <<up, fresh>> \in BOOLEAN \X BOOLEAN /\ troubles \in 0..MaxTroubles
      /\ tape \in Seq([at : 0..MaxTime, odd : Oddities])
  BY Basics DEF StateInv, TapeTypeOK
<1>r. Trouble \/ NoTrouble => troubles' \in 0..MaxTroubles BY <1>b DEF Trouble, NoTrouble
\* The types of frames and rows are those of TapeTypeOK.
<1>w. ASSUME feed' \in Seq(Frames), \A i \in DOMAIN feed' : feed'[i].ids # <<>>
      PROVE  \A i \in DOMAIN feed' :
                feed'[i].replay \in BOOLEAN /\ feed'[i].ids \in Seq(Ids) \ {<<>>}
  <2>1. \A i \in DOMAIN feed' : feed'[i] \in Frames BY <1>w, ElementOfSeq
  <2> QED BY <1>w, <2>1 DEF Frames
<1>c. ASSUME clean' \in Seq(Rows), \A i \in DOMAIN clean' : clean'[i].seq \in {NoId, clean'[i].id}
      PROVE  \A i \in DOMAIN clean' :
                clean'[i].id \in Ids /\ clean'[i].seq \in {NoId, clean'[i].id}
  <2>1. \A i \in DOMAIN clean' : clean'[i] \in Rows BY <1>c, ElementOfSeq
  <2> QED BY <1>c, <2>1 DEF Rows
<1>e. <<>> \in Seq(Frames) /\ <<>> \in Seq(Rows) /\ DOMAIN <<>> = {} OBVIOUS
<1>1. CASE VenuePrints
  <2>1. PICK odd \in Oddities, at \in IF lane.late THEN 0..now ELSE {now} :
          /\ Trouble \/ NoTrouble
          /\ tape' = Append(tape, [at |-> at, odd |-> odd])
    BY <1>1 DEF VenuePrints
  <2>2. at \in 0..MaxTime BY <1>b DEF StateInv, TapeTypeOK
  <2>3. tape' \in Seq([at : 0..MaxTime, odd : Oddities]) /\ Len(tape') = Len(tape) + 1
    <3> DEFINE print == [at |-> at, odd |-> odd]
    <3>1. print \in [at : 0..MaxTime, odd : Oddities] BY <2>2
    <3> HIDE DEF print
    <3> QED BY <1>b, <2>1, <3>1, AppendProperties DEF print
  <2>4. Len(tape') <= MaxPrints BY <1>1, <1>b, <2>3 DEF VenuePrints
  <2>5. feed' \in Seq(Frames) /\ \A i \in DOMAIN feed' : feed'[i].ids # <<>>
    <3> DEFINE frame == [replay |-> FALSE, ids |-> <<Len(tape) + 1>>]
    <3>1. Len(tape) + 1 \in Ids BY <1>b, <2>3, <2>4 DEF Ids
    <3>2. frame \in Frames /\ frame.ids # <<>> BY <3>1 DEF Frames
    <3>3. feed' \in {feed, Append(feed, frame)} BY <1>1 DEF VenuePrints
    <3> HIDE DEF frame
    <3>4. CASE feed' = feed BY <3>4, Basics DEF StateInv
    <3>5. CASE feed' = Append(feed, frame) BY <3>2, <3>5, FrameAppended
    <3> QED BY <3>3, <3>4, <3>5
  <2> QED
    BY <1>1, <1>r, <1>w, <2>1, <2>3, <2>4, <2>5 DEF VenuePrints, StateInv, TapeTypeOK, runState
<1>2. CASE Subscribe
  <2>1. feed' \in Seq(Frames) /\ \A i \in DOMAIN feed' : feed'[i].ids # <<>>
    <3> DEFINE frame == [replay |-> TRUE, ids |-> MostRecent(lane.replay)]
    <3>1. CASE lane.replay > 0 /\ tape # <<>>
      <4>1. feed' = <<frame>> BY <1>2, <3>1 DEF Subscribe
      <4>2. lane.replay \in Nat BY <1>b DEF LaneType
      <4>3. frame \in Frames /\ frame.ids # <<>> BY <3>1, <4>2, RecentPrints DEF Frames
      <4> HIDE DEF frame
      <4> QED BY <4>1, <4>3
    <3>2. CASE ~(lane.replay > 0 /\ tape # <<>>)
      <4>1. feed' = <<>> BY <1>2, <3>2 DEF Subscribe
      <4> QED BY <1>e, <4>1
    <3> QED BY <3>1, <3>2
  <2>2. blamed' \subseteq {"hole", "value", "id", "late", "clocks"}
    BY <1>2 DEF Subscribe, Found, StateInv, TapeTypeOK
  <2> QED BY <1>2, <1>w, <2>1, <2>2 DEF Subscribe, StateInv, TapeTypeOK
<1>3. CASE ConnectionDrops
  BY <1>3, <1>e, <1>r DEF ConnectionDrops, StateInv, TapeTypeOK, runState
<1>4. CASE Receive
  <2> DEFINE row == PrintRow(X)
             tagged == Tagged(feed[1])
  <2>1. /\ feed # <<>> /\ up
        /\ clean' = IF Reasons(row, tagged) = {} THEN Append(clean, row) ELSE clean
        /\ cursor' = Moved(row, tagged)
        /\ blamed' = blamed \cup Blames(row, tagged)
    BY <1>4, HeadPrint DEF Receive, X
  <2>2. row \in Rows /\ row.seq \in {NoId, row.id} /\ row.id \in Ids /\ tape[row.id].odd \in Oddities
    BY <2>1, HeadPrint DEF Rows
  <2> HIDE DEF row, tagged
  <2>3. feed' \in Seq(Frames) /\ \A i \in DOMAIN feed' : feed'[i].ids # <<>>
    BY <1>4, RestOfWire
  <2>4. clean' \in Seq(Rows) /\ \A i \in DOMAIN clean' : clean'[i].seq \in {NoId, clean'[i].id}
    <3>1. clean \in Seq(Rows) /\ \A i \in DOMAIN clean : clean[i].seq \in {NoId, clean[i].id}
      BY DEF StateInv, TapeTypeOK
    <3>2. CASE clean' = clean BY <3>1, <3>2
    <3>3. CASE clean' = Append(clean, row)
      <4>1. /\ clean' \in Seq(Rows) /\ Len(clean') = Len(clean) + 1 /\ Len(clean) \in Nat
            /\ \A i \in 1..Len(clean) : clean'[i] = clean[i]
            /\ clean'[Len(clean) + 1] = row
        BY <2>2, <3>1, <3>3, AppendProperties
      <4>2. \A i \in DOMAIN clean' : i \in DOMAIN clean \/ i = Len(clean) + 1 BY <3>1, <4>1
      <4>3. DOMAIN clean = 1..Len(clean) BY <3>1
      <4> QED BY <2>2, <3>1, <4>1, <4>2, <4>3
    <3> QED BY <2>1, <3>2, <3>3
  <2>5. cursor' \in {NoId} \cup Ids BY <2>1, <2>2 DEF Moved, StateInv, TapeTypeOK
  <2>6. blamed' \subseteq {"hole", "value", "id", "late", "clocks"}
    BY <2>1, <2>2 DEF Blames, Found, Oddities, StateInv, TapeTypeOK
  <2>7. fresh' \in BOOLEAN BY <1>4 DEF Receive
  <2> QED BY <1>4, <1>b, <1>w, <1>c, <2>3, <2>4, <2>5, <2>6, <2>7 DEF Receive, StateInv, TapeTypeOK
<1>5. CASE FrameGarbled
  <2>1. feed \in Seq(Frames) /\ feed # <<>> /\ feed' = Tail(feed)
    BY <1>5 DEF FrameGarbled, StateInv
  <2>2. /\ feed' \in Seq(Frames) /\ Len(feed') = Len(feed) - 1
        /\ \A i \in 1..Len(feed') : feed'[i] = feed[i + 1]
    BY <2>1, HeadTailProperties
  <2>3. DOMAIN feed' = 1..Len(feed') /\ \A i \in 1..Len(feed') : i + 1 \in 1..Len(feed)
    BY <1>b, <2>2
  <2>4. \A i \in DOMAIN feed' : feed'[i].ids # <<>> BY <2>2, <2>3, Basics
  <2>5. blamed' \subseteq {"hole", "value", "id", "late", "clocks"}
    BY <1>5 DEF FrameGarbled, Found, StateInv, TapeTypeOK
  <2> QED BY <1>5, <1>r, <1>w, <2>2, <2>4, <2>5 DEF FrameGarbled, StateInv, TapeTypeOK
<1>6. CASE EndSegment
  <2>1. \A id \in Ids : Times(id) \in Nat BY TimesCount
  <2>2. cleaned' \in [Ids -> Nat]
    <3>1. cleaned \in [Ids -> Nat] /\ cleaned' = [id \in Ids |-> cleaned[id] + Times(id)]
      BY <1>6 DEF EndSegment, StateInv, TapeTypeOK
    <3>2. \A id \in Ids : cleaned[id] + Times(id) \in Nat BY <2>1, <3>1
    <3> QED BY <3>1, <3>2
  <2>3. run' \in 0..MaxRuns BY <1>6, <1>b DEF EndSegment, StateInv, TapeTypeOK
  <2>4. feed' \in Seq(Frames) /\ clean' \in Seq(Rows) /\ DOMAIN feed' = {} /\ DOMAIN clean' = {}
    BY <1>6, <1>e DEF EndSegment
  <2>5. up' \in BOOLEAN /\ fresh' \in BOOLEAN /\ blamed' = {} /\ cursor' = NoId
    BY <1>6 DEF EndSegment
  <2> QED BY <1>6, <2>2, <2>3, <2>4, <2>5 DEF EndSegment, StateInv, TapeTypeOK
<1>7. CASE Tick
  <2>1. now' \in 0..MaxTime BY <1>7, <1>b DEF Tick
  <2> QED BY <1>7, <2>1 DEF Tick, StateInv, TapeTypeOK, runState
<1>8. CASE ClockStep
  <2>1. host' \in Int BY <1>8, <1>b DEF ClockStep
  <2>2. blamed' \subseteq {"hole", "value", "id", "late", "clocks"}
    BY <1>8 DEF ClockStep, Found, StateInv, TapeTypeOK
  <2> QED BY <1>8, <1>r, <2>1, <2>2 DEF ClockStep, StateInv, TapeTypeOK
<1>9. CASE UNCHANGED tvars BY <1>9 DEF tvars, runState, StateInv, TapeTypeOK
<1> QED BY <1>1, <1>2, <1>3, <1>4, <1>5, <1>6, <1>7, <1>8, <1>9 DEF TapeNext

-----------------------------------------------------------------------------
(* What is on its way.                                                       *)

\* What a frame of the feed, and one behind another, give.
LEMMA FramesOfWire ==
    ASSUME StateInv, WireInv, NEW i \in 1..Len(feed)
    PROVE  /\ First(i) \in Nat /\ LastId(i) \in Nat /\ First(i) <= LastId(i)
           /\ LastId(i) = First(i) + Len(feed[i].ids) - 1 /\ LastId(i) <= Len(tape)
           /\ \A k \in 1..Len(feed[i].ids) : feed[i].ids[k] = First(i) + k - 1
           /\ feed[i].replay => i = 1 /\ fresh /\ lane.replay > 0
<1>1. /\ Len(feed[i].ids) \in Nat \ {0} /\ DOMAIN feed[i].ids = 1..Len(feed[i].ids)
      /\ feed[i].ids[1] \in Nat /\ DOMAIN feed = 1..Len(feed)
  <2>1. /\ Len(feed[i].ids) \in Nat \ {0} /\ DOMAIN feed[i].ids = 1..Len(feed[i].ids)
        /\ \A k \in 1..Len(feed[i].ids) : feed[i].ids[k] \in Nat /\ DOMAIN feed = 1..Len(feed)
    BY Basics
  <2>2. 1 \in 1..Len(feed[i].ids) BY <2>1
  <2> QED BY <2>1, <2>2
<1>2. First(i) \in Nat /\ LastId(i) = First(i) + Len(feed[i].ids) - 1 BY <1>1 DEF First, LastId
<1>3. /\ \A k \in 1..Len(feed[i].ids) : feed[i].ids[k] = First(i) + k - 1
      /\ LastId(i) <= Len(tape)
      /\ feed[i].replay => i = 1 /\ fresh /\ lane.replay > 0
  BY <1>1 DEF WireInv
<1> QED BY <1>1, <1>2, <1>3

\* The frame at the head has gone.
LEMMA WireShifts ==
    ASSUME StateInv, WireInv, feed # <<>>, up, up' = up, UNCHANGED <<lane, tape>>,
           feed' \in Seq(Frames), Len(feed') = Len(feed) - 1,
           \A i \in 1..Len(feed') : feed'[i] = feed[i + 1]
    PROVE  WireInv' /\ \A i \in 1..Len(feed') : ~feed'[i].replay
<1>1. Len(feed) \in Nat \ {0} /\ Len(tape) \in Nat /\ DOMAIN feed = 1..Len(feed)
  BY HeadPrint, Basics
<1>2. DOMAIN feed' = 1..Len(feed') /\ Len(feed') \in Nat OBVIOUS
<1>3. ASSUME NEW i \in 1..Len(feed')
      PROVE  /\ i + 1 \in 1..Len(feed) /\ First(i)' = First(i + 1) /\ LastId(i)' = LastId(i + 1)
             /\ \A k \in DOMAIN feed'[i].ids : feed'[i].ids[k] = First(i)' + k - 1
             /\ LastId(i)' <= Len(tape)' /\ ~feed'[i].replay
  <2>1. i + 1 \in 1..Len(feed) /\ i + 1 # 1 BY <1>1, <1>2
  <2>2. feed'[i] = feed[i + 1] OBVIOUS
  <2>3. First(i)' = First(i + 1) /\ LastId(i)' = LastId(i + 1) BY <2>2 DEF First, LastId
  <2>4. DOMAIN feed[i + 1].ids = 1..Len(feed[i + 1].ids) BY <2>1, Basics
  <2>5. /\ \A k \in 1..Len(feed[i + 1].ids) : feed[i + 1].ids[k] = First(i + 1) + k - 1
        /\ LastId(i + 1) <= Len(tape) /\ ~feed[i + 1].replay
    BY <2>1, FramesOfWire
  <2> QED BY <2>1, <2>2, <2>3, <2>4, <2>5
<1>4. \A i, j \in DOMAIN feed' : i < j => LastId(i)' < First(j)'
  <2> TAKE i, j \in DOMAIN feed'
  <2>1. i + 1 \in DOMAIN feed /\ j + 1 \in DOMAIN feed BY <1>1, <1>2, <1>3
  <2>2. i + 1 < j + 1 => LastId(i + 1) < First(j + 1) BY <2>1 DEF WireInv
  <2> QED BY <1>2, <1>3, <2>2
<1>5. lane.dense /\ feed' # <<>> => LastId(Len(feed))' = Len(tape)
  <2> SUFFICES ASSUME lane.dense, feed' # <<>> PROVE LastId(Len(feed))' = Len(tape)
    OBVIOUS
  <2>1. Len(feed') # 0 BY EmptySeq
  <2>2. Len(feed') \in 1..Len(feed') /\ Len(feed') + 1 = Len(feed) BY <1>1, <1>2, <2>1
  <2>3. LastId(Len(feed))' = LastId(Len(feed)) BY <1>3, <2>2
  <2>4. LastId(Len(feed)) = Len(tape) BY DEF WireInv
  <2> QED BY <2>3, <2>4
<1>6. lane.dense => \A i \in 1..(Len(feed') - 1) : First(i + 1)' = LastId(i)' + 1
  <2> SUFFICES ASSUME lane.dense, NEW i \in 1..(Len(feed') - 1)
               PROVE  First(i + 1)' = LastId(i)' + 1
    OBVIOUS
  <2>1. i \in 1..Len(feed') /\ i + 1 \in 1..Len(feed') /\ i + 1 \in 1..(Len(feed) - 1)
    BY <1>1, <1>2
  <2>2. First(i + 1)' = First(i + 1 + 1) /\ LastId(i)' = LastId(i + 1) BY <1>3, <2>1
  <2>3. First(i + 1 + 1) = LastId(i + 1) + 1 BY <2>1 DEF WireInv
  <2> QED BY <2>2, <2>3
<1> QED BY <1>2, <1>3, <1>4, <1>5, <1>6 DEF WireInv

\* Part of the frame at the head has gone.
LEMMA HeadShrinks ==
    ASSUME StateInv, WireInv, feed # <<>>, up, UNCHANGED <<lane, tape, up, fresh>>,
           feed' \in Seq(Frames), Len(feed') = Len(feed), Len(feed[1].ids) > 1,
           feed'[1].replay = feed[1].replay, Len(feed'[1].ids) = Len(feed[1].ids) - 1,
           \A k \in 1..(Len(feed[1].ids) - 1) : feed'[1].ids[k] = feed[1].ids[k + 1],
           \A i \in 2..Len(feed') : feed'[i] = feed[i]
    PROVE  /\ WireInv' /\ First(1)' = First(1) + 1 /\ LastId(1)' = LastId(1)
           /\ \A i \in 2..Len(feed') : First(i)' = First(i) /\ LastId(i)' = LastId(i)
<1>1. Len(feed) \in Nat \ {0} /\ Len(tape) \in Nat /\ DOMAIN feed = 1..Len(feed)
  BY HeadPrint, Basics
<1>2. DOMAIN feed' = 1..Len(feed') /\ Len(feed') \in Nat OBVIOUS
<1>3. /\ First(1) \in Nat /\ LastId(1) = First(1) + Len(feed[1].ids) - 1 /\ LastId(1) <= Len(tape)
      /\ \A k \in 1..Len(feed[1].ids) : feed[1].ids[k] = First(1) + k - 1
      /\ feed[1].replay => fresh /\ lane.replay > 0
      /\ Len(feed[1].ids) \in Nat
  <2>1. 1 \in 1..Len(feed) BY <1>1
  <2> QED BY <2>1, FramesOfWire, Basics
<1>4. /\ First(1)' = First(1) + 1 /\ LastId(1)' = LastId(1)
      /\ \A k \in DOMAIN feed'[1].ids : feed'[1].ids[k] = First(1)' + k - 1
  <2>1. feed'[1].ids \in Seq(Ids)
    <3>1. 1 \in 1..Len(feed') BY <1>1
    <3>2. feed'[1] \in Frames BY <3>1, ElementOfSeq
    <3> QED BY <3>2 DEF Frames
  <2>2. DOMAIN feed'[1].ids = 1..(Len(feed[1].ids) - 1) BY <2>1
  <2>3. feed'[1].ids[1] = feed[1].ids[1 + 1] /\ 2 \in 1..Len(feed[1].ids) BY <1>3
  <2>4. First(1)' = First(1) + 1 BY <1>3, <2>3 DEF First
  <2>5. LastId(1)' = LastId(1)
    <3>1. LastId(1)' = First(1)' + Len(feed'[1].ids) - 1 BY DEF LastId, First
    <3>2. Len(feed'[1].ids) = Len(feed[1].ids) - 1 OBVIOUS
    <3>3. LastId(1)' = (First(1) + 1) + (Len(feed[1].ids) - 1) - 1 BY <2>4, <3>1, <3>2
    <3>4. First(1) \in Nat /\ Len(feed[1].ids) \in Nat /\ LastId(1) = First(1) + Len(feed[1].ids) - 1
      BY <1>3
    <3>5. (First(1) + 1) + (Len(feed[1].ids) - 1) - 1 = First(1) + Len(feed[1].ids) - 1
      <4>1. \A a, n \in Nat : (a + 1) + (n - 1) - 1 = a + n - 1 OBVIOUS
      <4> QED BY ONLY <3>4, <4>1
    <3> QED BY <3>3, <3>4, <3>5, Zenon
  <2>6. \A k \in 1..(Len(feed[1].ids) - 1) : feed'[1].ids[k] = First(1)' + k - 1
    <3> TAKE k \in 1..(Len(feed[1].ids) - 1)
    <3>1. k + 1 \in 1..Len(feed[1].ids) BY <1>3
    <3>2. feed[1].ids[k + 1] = First(1) + (k + 1) - 1 BY <1>3, <3>1
    <3> QED BY <1>3, <2>4, <3>2
  <2> QED BY <2>2, <2>4, <2>5, <2>6
<1>5. ASSUME NEW i \in 2..Len(feed')
      PROVE  /\ i \in 1..Len(feed) /\ First(i)' = First(i) /\ LastId(i)' = LastId(i)
             /\ \A k \in DOMAIN feed'[i].ids : feed'[i].ids[k] = First(i)' + k - 1
             /\ LastId(i)' <= Len(tape) /\ ~feed'[i].replay
  <2>1. i \in 1..Len(feed) /\ i # 1 /\ feed'[i] = feed[i] BY <1>1
  <2>2. First(i)' = First(i) /\ LastId(i)' = LastId(i) BY <2>1 DEF First, LastId
  <2>3. DOMAIN feed[i].ids = 1..Len(feed[i].ids) BY <2>1, Basics
  <2>4. /\ \A k \in 1..Len(feed[i].ids) : feed[i].ids[k] = First(i) + k - 1
        /\ LastId(i) <= Len(tape) /\ ~feed[i].replay
    BY <2>1, FramesOfWire
  <2> QED BY <2>1, <2>2, <2>3, <2>4
<1>6. \A i \in 1..Len(feed') : i = 1 \/ i \in 2..Len(feed') BY <1>2
<1>7. \A i \in DOMAIN feed' :
        /\ \A k \in DOMAIN feed'[i].ids : feed'[i].ids[k] = First(i)' + k - 1
        /\ LastId(i)' <= Len(tape)
        /\ feed'[i].replay => i = 1 /\ fresh' /\ lane'.replay > 0
  BY <1>2, <1>3, <1>4, <1>5, <1>6
<1>8. \A i, j \in DOMAIN feed' : i < j => LastId(i)' < First(j)'
  <2> TAKE i, j \in DOMAIN feed'
  <2> SUFFICES ASSUME i < j PROVE LastId(i)' < First(j)'
    OBVIOUS
  <2>1. i \in DOMAIN feed /\ j \in DOMAIN feed /\ j \in 2..Len(feed') BY <1>1, <1>2
  <2>2. LastId(i) < First(j) BY <2>1 DEF WireInv
  <2>3. LastId(i)' = LastId(i) /\ First(j)' = First(j) BY <1>2, <1>4, <1>5, <1>6, <2>1
  <2> QED BY <2>2, <2>3
<1>9. lane.dense /\ feed' # <<>> => LastId(Len(feed))' = Len(tape)
  <2>1. Len(feed') \in 1..Len(feed') BY <1>1
  <2>2. LastId(Len(feed))' = LastId(Len(feed))
    <3>1. \A i \in 1..Len(feed') : LastId(i)' = LastId(i) BY <1>4, <1>5, <1>6
    <3>2. LastId(Len(feed))' = feed'[Len(feed)].ids[1] + Len(feed'[Len(feed)].ids) - 1 BY DEF LastId
    <3> QED BY <3>1, <3>2, <2>1 DEF LastId
  <2> QED BY <2>2 DEF WireInv
<1>10. lane.dense => \A i \in 1..(Len(feed') - 1) : First(i + 1)' = LastId(i)' + 1
  <2> SUFFICES ASSUME lane.dense, NEW i \in 1..(Len(feed') - 1)
               PROVE  First(i + 1)' = LastId(i)' + 1
    OBVIOUS
  <2>1. i \in 1..Len(feed') /\ i + 1 \in 2..Len(feed') /\ i \in 1..(Len(feed) - 1) BY <1>1, <1>2
  <2>2. First(i + 1)' = First(i + 1) /\ LastId(i)' = LastId(i) BY <1>4, <1>5, <1>6, <2>1
  <2>3. First(i + 1) = LastId(i) + 1 BY <2>1 DEF WireInv
  <2> QED BY <2>2, <2>3
<1> QED BY <1>4, <1>5, <1>7, <1>8, <1>9, <1>10 DEF WireInv

\* A feed that is empty, or as it was.
LEMMA EmptyWire == feed' = <<>> => WireInv'
<1>1. DOMAIN <<>> = {} /\ Len(<<>>) = 0 /\ \A i \in 1..(0 - 1) : FALSE OBVIOUS
<1> QED BY <1>1 DEF WireInv

LEMMA SameWire ==
    ASSUME WireInv, UNCHANGED <<feed, fresh, lane, up, tape>>
    PROVE  WireInv'
BY DEF WireInv, First, LastId

\* The venue sends the print it has made.
LEMMA PrintIsSent ==
    ASSUME StateInv, WireInv, up, UNCHANGED <<lane, up, fresh>>, Len(tape') = Len(tape) + 1,
           feed' = Append(feed, [replay |-> FALSE, ids |-> <<Len(tape) + 1>>]),
           Len(tape) + 1 \in Ids, NEW n \in Nat, n = Len(feed)
    PROVE  /\ WireInv' /\ Len(feed') = n + 1
           /\ First(n + 1)' = Len(tape) + 1 /\ feed'[n + 1].replay = FALSE
           /\ \A i \in 1..n : First(i)' = First(i) /\ feed'[i] = feed[i]
<1> DEFINE frame == [replay |-> FALSE, ids |-> <<Len(tape) + 1>>]
<1>1. n \in Nat /\ Len(tape) \in Nat /\ DOMAIN feed = 1..n BY Basics
<1>2. frame \in Frames /\ frame.ids # <<>> BY DEF Frames
<1>3. /\ feed' \in Seq(Frames) /\ Len(feed') = n + 1
      /\ \A i \in 1..n : feed'[i] = feed[i]
      /\ feed'[n + 1] = frame
  <2>1. feed' = Append(feed, frame) OBVIOUS
  <2> HIDE DEF frame
  <2> QED BY <1>2, <2>1, FrameAppended
<1>4. DOMAIN feed' = 1..(n + 1) /\ \A i \in 1..(n + 1) : i \in 1..n \/ i = n + 1 BY <1>1, <1>3
<1>5. /\ frame.ids[1] = Len(tape) + 1 /\ Len(frame.ids) = 1 /\ DOMAIN frame.ids = {1}
      /\ frame.replay = FALSE
  OBVIOUS
<1> HIDE DEF frame
<1>6. /\ First(n + 1)' = Len(tape) + 1 /\ LastId(n + 1)' = Len(tape) + 1
      /\ \A k \in DOMAIN feed'[n + 1].ids : feed'[n + 1].ids[k] = First(n + 1)' + k - 1
  <2>1. /\ feed'[n + 1].ids[1] = Len(tape) + 1 /\ Len(feed'[n + 1].ids) = 1
        /\ DOMAIN feed'[n + 1].ids = {1}
    BY <1>3, <1>5
  <2>2. First(n + 1)' = Len(tape) + 1 /\ LastId(n + 1)' = Len(tape) + 1
    <3>1. First(n + 1)' = feed'[n + 1].ids[1] BY DEF First
    <3>2. LastId(n + 1)' = feed'[n + 1].ids[1] + Len(feed'[n + 1].ids) - 1 BY DEF LastId
    <3> QED BY <1>1, <2>1, <3>1, <3>2
  <2> QED BY <1>1, <2>1, <2>2
<1>7. ASSUME NEW i \in 1..n
      PROVE  /\ First(i)' = First(i) /\ LastId(i)' = LastId(i)
             /\ \A k \in DOMAIN feed'[i].ids : feed'[i].ids[k] = First(i)' + k - 1
             /\ LastId(i)' <= Len(tape) /\ LastId(i)' \in Nat
             /\ feed'[i].replay => i = 1 /\ fresh /\ lane.replay > 0
  <2>1. i \in 1..Len(feed) OBVIOUS
  <2>2. First(i)' = First(i) /\ LastId(i)' = LastId(i) BY <1>3 DEF First, LastId
  <2>3. DOMAIN feed[i].ids = 1..Len(feed[i].ids) BY <2>1, Basics
  <2>4. /\ \A k \in 1..Len(feed[i].ids) : feed[i].ids[k] = First(i) + k - 1
        /\ LastId(i) <= Len(tape) /\ LastId(i) \in Nat
        /\ feed[i].replay => i = 1 /\ fresh /\ lane.replay > 0
    BY <2>1, FramesOfWire
  <2> QED BY <1>3, <2>2, <2>3, <2>4
<1>8. \A i \in DOMAIN feed' :
        /\ \A k \in DOMAIN feed'[i].ids : feed'[i].ids[k] = First(i)' + k - 1
        /\ LastId(i)' <= Len(tape)'
        /\ feed'[i].replay => i = 1 /\ fresh' /\ lane'.replay > 0
  <2> TAKE i \in DOMAIN feed'
  <2>1. CASE i \in 1..n BY <1>1, <1>7, <2>1
  <2>2. CASE i = n + 1 BY <1>1, <1>3, <1>5, <1>6, <2>2
  <2> QED BY <1>4, <2>1, <2>2
<1>9. \A i, j \in DOMAIN feed' : i < j => LastId(i)' < First(j)'
  <2> TAKE i, j \in DOMAIN feed'
  <2> SUFFICES ASSUME i < j PROVE LastId(i)' < First(j)'
    OBVIOUS
  <2>1. i \in 1..n BY <1>1, <1>4
  <2>2. CASE j \in 1..n
    <3>1. LastId(i) < First(j) BY <1>1, <2>1, <2>2 DEF WireInv
    <3> QED BY <1>7, <2>1, <2>2, <3>1
  <2>3. CASE j = n + 1 BY <1>1, <1>6, <1>7, <2>1, <2>3
  <2> QED BY <1>4, <2>2, <2>3
<1>10. lane.dense => \A i \in 1..n : First(i + 1)' = LastId(i)' + 1
  <2> SUFFICES ASSUME lane.dense, NEW i \in 1..n PROVE First(i + 1)' = LastId(i)' + 1
    OBVIOUS
  <2>1. CASE i = n
    <3>1. feed # <<>> BY <2>1, EmptySeq DEF StateInv
    <3>2. LastId(n) = Len(tape) BY <3>1 DEF WireInv
    <3> QED BY <1>1, <1>6, <1>7, <2>1, <3>2
  <2>2. CASE i # n
    <3>1. i + 1 \in 1..n /\ i \in 1..(Len(feed) - 1) BY <2>2
    <3>2. First(i + 1) = LastId(i) + 1 BY <3>1 DEF WireInv
    <3> QED BY <1>7, <3>1, <3>2
  <2> QED BY <2>1, <2>2
<1>11. LastId(n + 1)' = Len(tape') /\ Len(feed') - 1 = n BY <1>1, <1>3, <1>6
<1>12. LastId(Len(feed))' = LastId(n + 1)'
  <2>1. LastId(Len(feed))' = feed'[Len(feed')].ids[1] + Len(feed'[Len(feed')].ids) - 1 BY DEF LastId
  <2>2. LastId(n + 1)' = feed'[n + 1].ids[1] + Len(feed'[n + 1].ids) - 1
    BY <1>3, <1>5, <1>6, <1>1
  <2> QED BY <1>3, <2>1, <2>2
<1>13. lane'.dense => \A i \in 1..(Len(feed') - 1) : First(i + 1)' = LastId(i)' + 1 BY <1>10, <1>11
<1>14. WireInv' BY <1>8, <1>9, <1>11, <1>12, <1>13 DEF WireInv
<1> QED BY <1>3, <1>5, <1>6, <1>7, <1>14

\* A print that is not sent: the lane is down, or the venue conflates.
LEMMA PrintIsNotSent ==
    ASSUME StateInv, WireInv, UNCHANGED <<lane, up, fresh, feed>>, Len(tape') = Len(tape) + 1,
           ~up \/ lane.conflates
    PROVE  WireInv'
<1>1. Len(tape) \in Nat /\ DOMAIN feed = 1..Len(feed) /\ lane \in AllLanes BY Basics
<1>2. feed # <<>> => up /\ ~lane.dense BY <1>1, LaneFacts DEF WireInv
<1>3. CASE feed = <<>> BY <1>3, EmptyWire
<1>4. CASE feed # <<>>
  <2>1. \A i \in DOMAIN feed : First(i)' = First(i) /\ LastId(i)' = LastId(i)
    BY DEF First, LastId
  <2>2. \A i \in DOMAIN feed : LastId(i) \in Nat /\ LastId(i) <= Len(tape')
    BY <1>1, FramesOfWire
  <2>3. \A i \in DOMAIN feed' :
          /\ \A k \in DOMAIN feed'[i].ids : feed'[i].ids[k] = First(i)' + k - 1
          /\ LastId(i)' <= Len(tape')
          /\ feed'[i].replay => i = 1 /\ fresh' /\ lane'.replay > 0
    BY <2>1, <2>2 DEF WireInv
  <2>4. \A i, j \in DOMAIN feed' : i < j => LastId(i)' < First(j)' BY <2>1 DEF WireInv
  <2>5. ~lane'.dense /\ up' BY <1>2, <1>4
  <2> QED BY <2>3, <2>4, <2>5 DEF WireInv
<1> QED BY <1>3, <1>4

\* The replay of a subscribe is all there is on its way.
LEMMA WireOfReplay ==
    ASSUME StateInv, Subscribe
    PROVE  /\ WireInv'
           /\ \A i \in DOMAIN feed' : feed'[i].replay
           /\ lane.dense => \/ feed' = <<>> /\ (lane.replay = 0 \/ tape = <<>>)
                            \/ /\ feed' # <<>>
                               /\ First(1)' = IF lane.replay < Len(tape)
                                              THEN Len(tape) - lane.replay + 1 ELSE 1
<1>1. lane.replay \in Nat /\ Len(tape) \in Nat BY Basics DEF LaneType
<1>2. UNCHANGED <<lane, tape>> /\ up' = TRUE /\ fresh' = TRUE BY DEF Subscribe
<1>3. CASE lane.replay > 0 /\ tape # <<>>
  <2> DEFINE q == MostRecent(lane.replay)
  <2>1. PICK m \in Nat : m = IF lane.replay < Len(tape) THEN lane.replay ELSE Len(tape) BY <1>1
  <2>2. /\ q \in Seq(Ids) /\ Len(q) = m /\ q # <<>> /\ m > 0
        /\ \A k \in 1..m : q[k] = Len(tape) - m + k
    BY <1>1, <1>3, <2>1, RecentPrints
  <2>3. feed' = <<[replay |-> TRUE, ids |-> q]>> BY <1>3 DEF Subscribe
  <2> HIDE DEF q
  <2>4. /\ DOMAIN feed' = {1} /\ Len(feed') = 1 /\ feed'[1].replay = TRUE /\ feed'[1].ids = q
        /\ feed' # <<>>
    BY <2>3
  <2>5. DOMAIN q = 1..m BY <2>2
  <2>6. First(1)' = q[1] /\ q[1] = Len(tape) - m + 1
    <3>1. 1 \in 1..m BY <2>1, <2>2
    <3> QED BY <2>2, <2>4, <3>1 DEF First
  <2>7. LastId(1)' = Len(tape)
    <3>1. LastId(1)' = q[1] + Len(q) - 1 BY <2>4 DEF LastId
    <3>2. LastId(1)' = (Len(tape) - m + 1) + m - 1 BY <2>2, <2>6, <3>1, Zenon
    <3>3. \A a, b \in Nat : (a - b + 1) + b - 1 = a OBVIOUS
    <3> QED BY ONLY <1>1, <3>2, <3>3, m \in Nat
  <2>8. \A k \in DOMAIN feed'[1].ids : feed'[1].ids[k] = First(1)' + k - 1
    BY <1>1, <2>1, <2>2, <2>4, <2>5, <2>6
  <2>9. LastId(Len(feed))' = LastId(1)' BY <2>4 DEF LastId
  <2>10. WireInv'
    <3>1. \A i \in DOMAIN feed' :
            /\ \A k \in DOMAIN feed'[i].ids : feed'[i].ids[k] = First(i)' + k - 1
            /\ LastId(i)' <= Len(tape)'
            /\ feed'[i].replay => i = 1 /\ fresh' /\ lane'.replay > 0
      BY <1>1, <1>2, <1>3, <2>4, <2>7, <2>8
    <3>2. \A i, j \in DOMAIN feed' : i < j => LastId(i)' < First(j)' BY <2>4
    <3>3. \A i \in 1..(Len(feed') - 1) : FALSE BY <2>4
    <3> QED BY <1>2, <2>7, <2>9, <3>1, <3>2, <3>3 DEF WireInv
  <2>11. First(1)' = IF lane.replay < Len(tape) THEN Len(tape) - lane.replay + 1 ELSE 1
    BY <1>1, <2>1, <2>6
  <2> QED BY <2>4, <2>10, <2>11
<1>4. CASE ~(lane.replay > 0 /\ tape # <<>>)
  <2>1. feed' = <<>> BY <1>4 DEF Subscribe
  <2>2. DOMAIN feed' = {} BY <2>1
  <2> QED BY <1>1, <1>4, <2>1, <2>2, EmptyWire
<1> QED BY <1>3, <1>4

\* What a print leaves behind it: later ones, and on a dense lane the next one first.
LEMMA WireOfRest ==
    ASSUME StateInv, WireInv, Receive
    PROVE  /\ WireInv'
           /\ \A i \in 1..Len(feed') :
                /\ X < First(i)'
                /\ ~feed'[i].replay =>
                     \E j \in 1..Len(feed) : ~feed[j].replay /\ First(j) <= First(i)'
           /\ lane.dense => Upcoming' = X + 1
<1>0. /\ feed # <<>> /\ up /\ UNCHANGED <<lane, tape, up>>
      /\ Len(feed) \in Nat \ {0} /\ X = First(1) /\ X \in Nat /\ X <= LastId(1)
      /\ feed' \in Seq(Frames) /\ Len(tape) \in Nat
  <2>1. feed # <<>> /\ up /\ UNCHANGED <<lane, tape, up>> BY DEF Receive
  <2>2. Len(feed) \in Nat \ {0} /\ X = First(1) /\ X \in 1..Len(tape) /\ X <= LastId(1)
    BY <2>1, HeadPrint
  <2>3. feed' \in Seq(Frames) BY RestOfWire
  <2>4. Len(tape) \in Nat BY Basics
  <2> QED BY <2>1, <2>2, <2>3, <2>4
<1>1. 1 \in 1..Len(feed) /\ DOMAIN feed = 1..Len(feed) BY <1>0, Basics
<1>2. /\ LastId(1) = X + Len(feed[1].ids) - 1 /\ Len(feed[1].ids) \in Nat /\ LastId(1) \in Nat
  BY <1>0, <1>1, FramesOfWire, Basics
<1>3. CASE /\ Len(feed[1].ids) = 1 /\ ~fresh'
           /\ Len(feed') = Len(feed) - 1
           /\ \A i \in 1..Len(feed') : feed'[i] = feed[i + 1]
  <2>1. WireInv' /\ \A i \in 1..Len(feed') : ~feed'[i].replay BY <1>0, <1>3, WireShifts
  <2>2. ASSUME NEW i \in 1..Len(feed')
        PROVE  /\ i + 1 \in 1..Len(feed) /\ First(i)' = First(i + 1) /\ First(i + 1) \in Nat
               /\ X < First(i)' /\ feed'[i] = feed[i + 1]
    <3>1. i + 1 \in 1..Len(feed) /\ 1 < i + 1 BY <1>0, <1>3
    <3>2. LastId(1) < First(i + 1) BY <1>1, <3>1 DEF WireInv
    <3>3. First(i)' = First(i + 1) BY <1>3 DEF First
    <3>4. First(i + 1) \in Nat BY <3>1, FramesOfWire
    <3> QED BY <1>0, <1>2, <1>3, <3>1, <3>2, <3>3, <3>4
  <2>3. lane.dense => Upcoming' = X + 1
    <3> SUFFICES ASSUME lane.dense PROVE Upcoming' = X + 1
      OBVIOUS
    <3>0. LastId(1) = X BY <1>0, <1>2, <1>3
    <3>1. CASE feed' = <<>>
      <4>1. Len(feed) = 1 BY <1>0, <1>3, <3>1
      <4>2. X = Len(tape) BY <1>0, <3>0, <4>1 DEF WireInv
      <4> QED BY <1>0, <3>1, <4>2 DEF Upcoming
    <3>2. CASE feed' # <<>>
      <4>1. Len(feed') # 0 BY <1>0, <3>2, EmptySeq
      <4>2. 1 \in 1..Len(feed') /\ 1 \in 1..(Len(feed) - 1) BY <1>0, <1>3, <4>1
      <4>3. First(1)' = First(2) BY <2>2, <4>2
      <4>4. First(1 + 1) = LastId(1) + 1 BY <4>2 DEF WireInv
      <4> QED BY <1>0, <3>0, <3>2, <4>3, <4>4 DEF Upcoming
    <3> QED BY <3>1, <3>2
  <2>4. \A i \in 1..Len(feed') :
          \E j \in 1..Len(feed) : ~feed[j].replay /\ First(j) <= First(i)'
    <3> TAKE i \in 1..Len(feed')
    <3>1. i + 1 \in 1..Len(feed) /\ First(i + 1) <= First(i)' /\ ~feed[i + 1].replay BY <2>1, <2>2
    <3> QED BY <3>1
  <2> QED BY <2>1, <2>2, <2>3, <2>4
<1>4. CASE /\ Len(feed[1].ids) > 1 /\ fresh' = fresh
           /\ Len(feed') = Len(feed)
           /\ feed'[1].replay = feed[1].replay
           /\ Len(feed'[1].ids) = Len(feed[1].ids) - 1
           /\ \A k \in 1..(Len(feed[1].ids) - 1) : feed'[1].ids[k] = feed[1].ids[k + 1]
           /\ \A i \in 2..Len(feed') : feed'[i] = feed[i]
  <2>1. /\ WireInv' /\ First(1)' = First(1) + 1
        /\ \A i \in 2..Len(feed') : First(i)' = First(i)
    BY <1>0, <1>4, HeadShrinks
  <2>2. feed' # <<>> BY <1>0, <1>4, EmptySeq
  <2>3. ASSUME NEW i \in 1..Len(feed')
        PROVE  /\ X < First(i)'
               /\ ~feed'[i].replay =>
                     \E j \in 1..Len(feed) : ~feed[j].replay /\ First(j) <= First(i)'
    <3>1. CASE i = 1 BY <1>0, <1>1, <1>4, <2>1, <3>1
    <3>2. CASE i \in 2..Len(feed')
      <4>1. i \in 1..Len(feed) /\ 1 < i BY <1>0, <1>4, <3>2
      <4>2. LastId(1) < First(i) BY <1>1, <3>2, <4>1 DEF WireInv
      <4>3. First(i)' = First(i) /\ First(i) \in Nat BY <2>1, <3>2, <4>1, FramesOfWire
      <4> QED BY <1>0, <1>2, <1>4, <3>2, <4>1, <4>2, <4>3
    <3>3. i = 1 \/ i \in 2..Len(feed') BY <1>0, <1>4
    <3> QED BY <3>1, <3>2, <3>3
  <2>4. Upcoming' = X + 1 BY <1>0, <2>1, <2>2 DEF Upcoming
  <2> QED BY <2>1, <2>3, <2>4
<1> QED BY <1>3, <1>4, RestOfWire

\* A frame that is skipped.
LEMMA WireOfGarbled ==
    ASSUME StateInv, WireInv, FrameGarbled
    PROVE  /\ WireInv' /\ \A i \in 1..Len(feed') : ~feed'[i].replay
           /\ Len(feed) \in Nat /\ Len(feed') = Len(feed) - 1
           /\ \A i \in 1..Len(feed') : i + 1 \in 1..Len(feed) /\ First(i)' = First(i + 1)
<1>1. /\ feed # <<>> /\ up /\ up' = up /\ UNCHANGED <<lane, tape>> /\ feed' = Tail(feed)
      /\ feed \in Seq(Frames) /\ Len(feed) \in Nat
  BY Basics DEF FrameGarbled, StateInv
<1>2. /\ feed' \in Seq(Frames) /\ Len(feed') = Len(feed) - 1
      /\ \A i \in 1..Len(feed') : feed'[i] = feed[i + 1]
  BY <1>1, HeadTailProperties
<1>3. WireInv' /\ \A i \in 1..Len(feed') : ~feed'[i].replay BY <1>1, <1>2, WireShifts
<1>4. \A i \in 1..Len(feed') : i + 1 \in 1..Len(feed) BY <1>1, <1>2
<1>5. \A i \in 1..Len(feed') : First(i)' = First(i + 1) BY <1>2 DEF First
<1> QED BY <1>1, <1>2, <1>3, <1>4, <1>5

\* The print that the venue has made.
LEMMA TapeGrows ==
    ASSUME StateInv, VenuePrints
    PROVE  /\ Len(tape) \in Nat /\ Len(tape') = Len(tape) + 1 /\ Len(tape) + 1 \in Ids
           /\ \A i \in 1..Len(tape) : tape'[i] = tape[i]
           /\ tape'[Len(tape) + 1].at \in IF lane.late THEN 0..now ELSE {now}
           /\ UNCHANGED <<lane, now, host, up, fresh, cursor, clean, run, cleaned, blamed>>
           /\ \/ feed' = feed /\ (~up \/ lane.conflates)
              \/ up /\ feed' = Append(feed, [replay |-> FALSE, ids |-> <<Len(tape) + 1>>])
<1>1. /\ Len(tape) \in Nat /\ MaxPrints \in Nat /\ now \in Nat
      /\ tape \in Seq([at : 0..MaxTime, odd : Oddities])
  BY Basics DEF StateInv, TapeTypeOK
<1>2. PICK odd \in Oddities, at \in IF lane.late THEN 0..now ELSE {now} :
        tape' = Append(tape, [at |-> at, odd |-> odd])
  BY DEF VenuePrints
<1> DEFINE print == [at |-> at, odd |-> odd]
<1>3. at \in 0..MaxTime
  <2>1. now \in 0..MaxTime /\ MaxTime \in Nat BY Basics DEF StateInv, TapeTypeOK
  <2> QED BY <1>1, <2>1
<1>4. print \in [at : 0..MaxTime, odd : Oddities] /\ print.at = at BY <1>3
<1> HIDE DEF print
<1>5. /\ Len(tape') = Len(tape) + 1 /\ tape'[Len(tape) + 1] = print
      /\ \A i \in 1..Len(tape) : tape'[i] = tape[i]
  BY <1>1, <1>2, <1>4, AppendProperties DEF print
<1>6. Len(tape) + 1 \in Ids BY <1>1 DEF VenuePrints, Ids
<1>7. \/ feed' = feed /\ (~up \/ lane.conflates)
      \/ up /\ feed' = Append(feed, [replay |-> FALSE, ids |-> <<Len(tape) + 1>>])
  <2>1. lane.conflates \in BOOLEAN /\ up \in BOOLEAN BY Basics DEF LaneType, StateInv, TapeTypeOK
  <2>2. PICK sent \in IF lane.conflates THEN BOOLEAN ELSE {TRUE} :
          feed' = IF up /\ sent
                  THEN Append(feed, [replay |-> FALSE, ids |-> <<Len(tape) + 1>>]) ELSE feed
    BY DEF VenuePrints
  <2>3. sent \in BOOLEAN /\ (sent \/ lane.conflates) BY <2>1
  <2> QED BY <2>1, <2>2, <2>3
<1>8. UNCHANGED <<lane, now, host, up, fresh, cursor, clean, run, cleaned, blamed>>
  BY DEF VenuePrints, runState
<1> QED BY <1>1, <1>4, <1>5, <1>6, <1>7, <1>8

LEMMA StepWire == StateInv /\ WireInv /\ [TapeNext]_tvars => WireInv'
<1> SUFFICES ASSUME StateInv, WireInv, [TapeNext]_tvars PROVE WireInv'
  OBVIOUS
<1>1. CASE VenuePrints
  <2>1. CASE feed' = feed /\ (~up \/ lane.conflates) BY <1>1, <2>1, TapeGrows, PrintIsNotSent
  <2>2. CASE up /\ feed' = Append(feed, [replay |-> FALSE, ids |-> <<Len(tape) + 1>>])
    <3>1. Len(feed) \in Nat BY Basics
    <3> QED BY <1>1, <2>2, <3>1, TapeGrows, PrintIsSent
  <2> QED BY <1>1, <2>1, <2>2, TapeGrows
<1>2. CASE Subscribe BY <1>2, WireOfReplay
<1>3. CASE ConnectionDrops BY <1>3, EmptyWire DEF ConnectionDrops
<1>4. CASE Receive BY <1>4, WireOfRest
<1>5. CASE FrameGarbled BY <1>5, WireOfGarbled
<1>6. CASE EndSegment BY <1>6, EmptyWire DEF EndSegment
<1>7. CASE Tick BY <1>7, SameWire DEF Tick
<1>8. CASE ClockStep BY <1>8, SameWire DEF ClockStep
<1>9. CASE UNCHANGED tvars BY <1>9, SameWire DEF tvars
<1> QED BY <1>1, <1>2, <1>3, <1>4, <1>5, <1>6, <1>7, <1>8, <1>9 DEF TapeNext

-----------------------------------------------------------------------------
(* The tape and the rows.                                                    *)

LEMMA StepTape == StateInv /\ TapeInv /\ [TapeNext]_tvars => TapeInv'
<1> SUFFICES ASSUME StateInv, TapeInv, [TapeNext]_tvars PROVE TapeInv'
  OBVIOUS
<1>1. CASE VenuePrints
  <2>1. PICK n \in Nat : n = Len(tape) BY Basics
  <2>2. /\ Len(tape') = n + 1 /\ \A i \in 1..n : tape'[i] = tape[i]
        /\ tape'[n + 1].at \in IF lane.late THEN 0..now ELSE {now}
        /\ now' = now /\ lane' = lane /\ now \in Nat
    BY <1>1, <2>1, TapeGrows, Basics
  <2>3. \A i \in 1..(n + 1) : i \in 1..n \/ i = n + 1 OBVIOUS
  <2>4. tape'[n + 1].at <= now /\ (~lane.late => tape'[n + 1].at = now) BY <2>2
  <2>5. \A i \in 1..n : tape'[i].at <= now BY <2>1, <2>2 DEF TapeInv
  <2>6. \A i \in 1..Len(tape') : tape'[i].at <= now BY <2>2, <2>3, <2>4, <2>5
  <2>7. ~lane.late => \A i, j \in 1..Len(tape') : i < j => tape'[i].at <= tape'[j].at
    <3> SUFFICES ASSUME ~lane.late, NEW i \in 1..(n + 1), NEW j \in 1..(n + 1), i < j
                 PROVE  tape'[i].at <= tape'[j].at
      BY <2>2
    <3>1. i \in 1..n OBVIOUS
    <3>2. CASE j = n + 1 BY <2>4, <2>5, <3>1, <3>2
    <3>3. CASE j \in 1..n
      <4>1. tape[i].at <= tape[j].at BY <2>1, <3>1, <3>3 DEF TapeInv
      <4> QED BY <2>2, <3>1, <3>3, <4>1
    <3> QED BY <2>3, <3>2, <3>3
  <2> QED BY <2>2, <2>6, <2>7 DEF TapeInv
<1>2. CASE Tick
  <2>1. now' = now + 1 /\ UNCHANGED <<lane, tape>> /\ now \in Nat /\ MaxTime \in Nat
        /\ Len(tape) \in Nat /\ \A i \in 1..Len(tape) : tape[i] \in [at : 0..MaxTime, odd : Oddities]
    BY <1>2, Basics DEF Tick
  <2>2. \A i \in 1..Len(tape) : tape[i].at \in Nat /\ tape[i].at <= now BY <2>1 DEF TapeInv
  <2>3. \A i \in 1..Len(tape) : tape[i].at <= now + 1 BY <2>1, <2>2
  <2> QED BY <2>1, <2>3 DEF TapeInv
<1>3. CASE UNCHANGED <<lane, now, tape>> BY <1>3 DEF TapeInv
<1>4. Subscribe \/ ConnectionDrops \/ Receive \/ FrameGarbled \/ EndSegment \/ ClockStep
        \/ UNCHANGED tvars => UNCHANGED <<lane, now, tape>>
  BY DEF Subscribe, ConnectionDrops, Receive, FrameGarbled, EndSegment, ClockStep, tvars
<1> QED BY <1>1, <1>2, <1>3, <1>4 DEF TapeNext

\* What the gate says of the row that is read next, and what it does to the run.
LEMMA ReceivedRow ==
    ASSUME StateInv, WireInv, Receive
    PROVE  /\ feed # <<>> /\ up /\ UNCHANGED <<lane, now, host, tape, up, run, cleaned>>
           /\ cursor' = Moved(PrintRow(X), Tagged(feed[1]))
           /\ blamed' = blamed \cup Blames(PrintRow(X), Tagged(feed[1]))
           /\ \/ Reasons(PrintRow(X), Tagged(feed[1])) # {} /\ clean' = clean
              \/ /\ Reasons(PrintRow(X), Tagged(feed[1])) = {}
                 /\ clean' = Append(clean, PrintRow(X)) /\ clean' \in Seq(Rows)
                 /\ Len(clean') = Len(clean) + 1 /\ clean'[Len(clean) + 1] = PrintRow(X)
                 /\ \A i \in 1..Len(clean) : clean'[i] = clean[i]
<1>1. feed # <<>> /\ up /\ UNCHANGED <<lane, now, host, tape, up, run, cleaned>> BY DEF Receive
<1>2. Head(feed) = feed[1] /\ PrintRow(X) \in Rows BY <1>1, HeadPrint
<1>3. /\ cursor' = Moved(PrintRow(X), Tagged(feed[1]))
      /\ blamed' = blamed \cup Blames(PrintRow(X), Tagged(feed[1]))
      /\ clean' = IF Reasons(PrintRow(X), Tagged(feed[1])) = {} THEN Append(clean, PrintRow(X)) ELSE clean
  BY <1>2 DEF Receive, X
<1>4. clean \in Seq(Rows) BY DEF StateInv
<1>5. ASSUME clean' = Append(clean, PrintRow(X))
      PROVE  /\ clean' \in Seq(Rows)
             /\ Len(clean') = Len(clean) + 1 /\ clean'[Len(clean) + 1] = PrintRow(X)
             /\ \A i \in 1..Len(clean) : clean'[i] = clean[i]
  BY <1>2, <1>4, <1>5, AppendProperties
<1> QED BY <1>1, <1>3, <1>5

\* A row the gate passes.
LEMMA PassedRow ==
    ASSUME StateInv, WireInv, feed # <<>>, Reasons(PrintRow(X), Tagged(feed[1])) = {}
    PROVE  /\ Passed(PrintRow(X)) /\ ~ParseError(PrintRow(X))
           /\ Tagged(feed[1]) => News(PrintRow(X))
           /\ ~Tagged(feed[1]) => ~(PrintRow(X).seq # NoId /\ PrintRow(X).seq < cursor)
<1>1. /\ ~ParseError(PrintRow(X)) /\ ~OddValue(PrintRow(X)) /\ ~Stale(PrintRow(X))
      /\ ~(Tagged(feed[1]) /\ ~News(PrintRow(X)))
      /\ ~(~Tagged(feed[1]) /\ PrintRow(X).seq # NoId /\ PrintRow(X).seq < cursor)
  BY DEF Reasons, Found
<1>2. /\ PrintRow(X).id = X /\ PrintRow(X).at = tape[X].at /\ X \in 1..Len(tape)
      /\ PrintRow(X).seq = IF lane.dense /\ tape[X].odd # "id" THEN X ELSE NoId
      /\ PrintRow(X).good = (tape[X].odd # "value") /\ PrintRow(X).channel = lane.channel
      /\ PrintRow(X) \in Rows
  BY HeadPrint
<1>3. PrintRow(X).recv \in Int /\ PrintRow(X).at \in Int /\ MaxDelay \in Nat /\ MaxFutureSkew \in Nat
  BY <1>2, Basics DEF Rows
<1>4. PrintRow(X).recv - PrintRow(X).at <= MaxDelay /\ PrintRow(X).at - PrintRow(X).recv <= MaxFutureSkew
  BY <1>1, <1>3 DEF Stale
<1>5. PrintRow(X).channel = "trades" => PrintRow(X).good BY <1>1, <1>2 DEF OddValue
<1>6. X <= Len(tape) BY <1>2, Basics
<1> QED BY <1>1, <1>2, <1>4, <1>5, <1>6 DEF Passed

LEMMA StepRows == StateInv /\ WireInv /\ RowsInv /\ [TapeNext]_tvars => RowsInv'
<1> SUFFICES ASSUME StateInv, WireInv, RowsInv, [TapeNext]_tvars PROVE RowsInv'
  OBVIOUS
<1>0. Len(tape) \in Nat /\ DOMAIN clean = 1..Len(clean) /\ Len(clean) \in Nat
      /\ \A i \in 1..Len(clean) : clean[i] \in Rows
  BY Basics
<1>1. CASE VenuePrints
  <2>1. /\ Len(tape') = Len(tape) + 1 /\ \A i \in 1..Len(tape) : tape'[i] = tape[i]
        /\ clean' = clean /\ lane' = lane
    BY <1>1, TapeGrows
  <2>2. ASSUME NEW i \in DOMAIN clean PROVE Passed(clean[i])'
    <3>1. Passed(clean[i]) /\ clean[i].id \in Ids BY <1>0 DEF RowsInv, Rows
    <3>2. clean[i].id \in 1..Len(tape) /\ clean[i].id <= Len(tape')
      <4>1. clean[i].id \in Nat /\ clean[i].id > 0 BY <3>1 DEF Ids
      <4>2. clean[i].id <= Len(tape) BY <3>1 DEF Passed
      <4> QED BY <1>0, <2>1, <4>1, <4>2
    <3> QED BY <2>1, <3>1, <3>2 DEF Passed
  <2> QED BY <2>1, <2>2 DEF RowsInv
<1>2. CASE Receive
  <2>1. UNCHANGED <<lane, tape>> /\ feed # <<>> BY <1>2, ReceivedRow
  <2>2. CASE clean' = clean BY <2>1, <2>2 DEF RowsInv, Passed
  <2>3. CASE Reasons(PrintRow(X), Tagged(feed[1])) = {} /\ clean' # clean
    <3>1. /\ clean' \in Seq(Rows) /\ Len(clean') = Len(clean) + 1
          /\ clean'[Len(clean) + 1] = PrintRow(X) /\ \A i \in 1..Len(clean) : clean'[i] = clean[i]
      BY <1>2, <2>3, ReceivedRow
    <3>2. Passed(PrintRow(X)) BY <2>1, <2>3, PassedRow
    <3>3. \A i \in DOMAIN clean' : i \in 1..Len(clean) \/ i = Len(clean) + 1 BY <1>0, <3>1
    <3>4. \A i \in DOMAIN clean' : Passed(clean'[i])
      BY <1>0, <3>1, <3>2, <3>3 DEF RowsInv
    <3> QED BY <2>1, <3>4 DEF RowsInv, Passed
  <2> QED BY <1>2, <2>2, <2>3, ReceivedRow
<1>3. CASE EndSegment
  <2>1. clean' = <<>> BY <1>3 DEF EndSegment
  <2> QED BY <2>1 DEF RowsInv
<1>4. CASE UNCHANGED <<lane, tape, clean>> BY <1>4 DEF RowsInv, Passed
<1>5. Subscribe \/ ConnectionDrops \/ FrameGarbled \/ Tick \/ ClockStep \/ UNCHANGED tvars
        => UNCHANGED <<lane, tape, clean>>
  BY DEF Subscribe, ConnectionDrops, FrameGarbled, Tick, ClockStep, tvars, runState
<1> QED BY <1>1, <1>2, <1>3, <1>4, <1>5 DEF TapeNext

-----------------------------------------------------------------------------
(* No print is clean twice.                                                  *)

\* A print that the gate takes for a live one is one.
LEMMA LiveIsUntagged ==
    ASSUME StateInv, WireInv, feed # <<>>, ~Tagged(feed[1])
    PROVE  ~feed[1].replay
<1>1. 1 \in 1..Len(feed) /\ lane \in LaneType BY HeadPrint, Basics
<1>2. feed[1].replay => fresh /\ lane.replay > 0 BY <1>1, FramesOfWire
<1>3. lane.tag \in {"place", "frame"} BY <1>1 DEF LaneType
<1> QED BY <1>2, <1>3 DEF Tagged

\* A tagged print that is news is above the cursor of a dense lane.
LEMMA NewsIsDense ==
    ASSUME StateInv, WireInv, feed # <<>>, News(PrintRow(X))
    PROVE  /\ lane.dense /\ tape[X].odd # "id" /\ cursor # NoId /\ cursor < X
           /\ PrintRow(X).seq = X
BY HeadPrint DEF News

\* What becomes clean was not known.
LEMMA PassedIsUnknown ==
    ASSUME StateInv, WireInv, KnownInv, feed # <<>>, Reasons(PrintRow(X), Tagged(feed[1])) = {}
    PROVE  ~Known(X)
<1>1. /\ X \in Ids /\ X = First(1) /\ 1 \in DOMAIN feed /\ X \in Nat /\ cursor \in Nat
  <2>1. Len(feed) \in Nat \ {0} /\ X = First(1) /\ X \in Ids /\ X \in 1..Len(tape)
    BY HeadPrint
  <2>2. DOMAIN feed = 1..Len(feed) /\ Len(tape) \in Nat /\ cursor \in Nat BY Basics
  <2> QED BY <2>1, <2>2
<1>2. SUFFICES ASSUME Known(X) PROVE FALSE
  OBVIOUS
<1>3. CASE Tagged(feed[1])
  <2>1. News(PrintRow(X)) BY <1>3, PassedRow
  <2>2. lane.dense /\ tape[X].odd # "id" /\ cursor # NoId /\ cursor < X BY <2>1, NewsIsDense
  <2>3. X <= cursor BY <1>1, <1>2, <2>2 DEF KnownInv
  <2> QED BY <1>1, <2>2, <2>3
<1>4. CASE ~Tagged(feed[1])
  <2>1. ~feed[1].replay BY <1>4, LiveIsUntagged
  <2>2. X < First(1) BY <1>1, <1>2, <2>1 DEF KnownInv
  <2> QED BY <1>1, <2>2
<1> QED BY <1>3, <1>4

\* The cursor only moves on, and stands at a clean print with an id.
LEMMA CursorMoves ==
    ASSUME StateInv, WireInv, Receive
    PROVE  /\ cursor \in Nat /\ cursor' \in Nat /\ cursor <= cursor'
           /\ cursor' # cursor => /\ cursor' = X /\ lane.dense /\ tape[X].odd # "id"
                                  /\ cursor = NoId => ~Tagged(feed[1])
           /\ Reasons(PrintRow(X), Tagged(feed[1])) = {} /\ lane.dense /\ tape[X].odd # "id"
                => cursor' = X
<1>1. /\ feed # <<>> /\ cursor' = Moved(PrintRow(X), Tagged(feed[1])) BY ReceivedRow
<1>2. /\ X \in Nat /\ X > 0 /\ cursor \in Nat
      /\ PrintRow(X).seq = IF lane.dense /\ tape[X].odd # "id" THEN X ELSE NoId
  <2>1. X \in Ids /\ PrintRow(X).seq = IF lane.dense /\ tape[X].odd # "id" THEN X ELSE NoId
    BY <1>1, HeadPrint
  <2>2. MaxPrints \in Nat /\ cursor \in Nat BY Basics
  <2> QED BY <2>1, <2>2 DEF Ids
<1>3. PrintRow(X).seq > cursor => PrintRow(X).seq = X /\ lane.dense /\ tape[X].odd # "id"
  BY <1>2 DEF NoId
<1>4. CASE PrintRow(X).seq > cursor /\ (Tagged(feed[1]) => News(PrintRow(X)))
  <2>1. cursor' = X BY <1>1, <1>3, <1>4 DEF Moved
  <2>2. cursor = NoId => ~Tagged(feed[1]) BY <1>4 DEF News
  <2> QED BY <1>2, <1>3, <1>4, <2>1, <2>2
<1>5. CASE ~(PrintRow(X).seq > cursor /\ (Tagged(feed[1]) => News(PrintRow(X))))
  <2>1. cursor' = cursor BY <1>1, <1>5 DEF Moved
  <2>2. ASSUME Reasons(PrintRow(X), Tagged(feed[1])) = {}, lane.dense, tape[X].odd # "id"
        PROVE  cursor = X
    <3>1. Tagged(feed[1]) => News(PrintRow(X)) BY <1>1, <2>2, PassedRow
    <3>2. ~Tagged(feed[1]) => ~(PrintRow(X).seq < cursor) BY <1>1, <1>2, <2>2, PassedRow DEF NoId
    <3>3. ~(PrintRow(X).seq > cursor) /\ PrintRow(X).seq = X BY <1>2, <1>5, <2>2, <3>1
    <3>4. ~Tagged(feed[1]) BY <3>1, <3>3 DEF News
    <3> QED BY <1>2, <3>2, <3>3, <3>4
  <2> QED BY <1>2, <2>1, <2>2
<1> QED BY <1>4, <1>5

LEMMA StepKnown == StateInv /\ WireInv /\ KnownInv /\ [TapeNext]_tvars => KnownInv'
<1> SUFFICES ASSUME StateInv, WireInv, KnownInv, [TapeNext]_tvars, NEW id \in Ids, Known(id)'
             PROVE  /\ id <= Len(tape')
                    /\ \A i \in DOMAIN feed' : ~feed'[i].replay => id < First(i)'
                    /\ lane'.dense /\ cursor' # NoId /\ tape'[id].odd # "id" => id <= cursor'
  BY DEF KnownInv
<1>0. /\ Len(tape) \in Nat /\ Len(feed) \in Nat /\ DOMAIN feed = 1..Len(feed)
      /\ id \in Nat /\ id >= 1 /\ cursor \in Nat /\ DOMAIN clean = 1..Len(clean)
  BY Basics DEF Ids
<1>k. ASSUME Known(id)
      PROVE  /\ id <= Len(tape) /\ id \in 1..Len(tape)
             /\ \A i \in DOMAIN feed : ~feed[i].replay => id < First(i)
             /\ lane.dense /\ cursor # NoId /\ tape[id].odd # "id" => id <= cursor
  BY <1>0, <1>k DEF KnownInv
<1>1. CASE VenuePrints
  <2>1. PICK n \in Nat : n = Len(feed) BY <1>0
  <2>2. /\ Len(tape') = Len(tape) + 1 /\ \A i \in 1..Len(tape) : tape'[i] = tape[i]
        /\ UNCHANGED <<lane, cursor, clean, cleaned>>
    BY <1>1, TapeGrows
  <2>3. Known(id) BY <2>2 DEF Known
  <2>4. \A i \in DOMAIN feed' : ~feed'[i].replay => id < First(i)'
    <3>1. CASE feed' = feed BY <1>k, <2>3, <3>1 DEF First
    <3>2. CASE up /\ feed' = Append(feed, [replay |-> FALSE, ids |-> <<Len(tape) + 1>>])
      <4>1. /\ Len(feed') = n + 1 /\ First(n + 1)' = Len(tape) + 1
            /\ \A i \in 1..n : First(i)' = First(i) /\ feed'[i] = feed[i]
        BY <1>1, <2>1, <3>2, TapeGrows, PrintIsSent
      <4>2. feed' \in Seq(Frames) BY StepTyped DEF StateInv
      <4>3. \A i \in DOMAIN feed' : i \in 1..n \/ i = n + 1 BY <4>1, <4>2
      <4>4. \A i \in 1..n : ~feed'[i].replay => id < First(i)' BY <1>0, <1>k, <2>1, <2>3, <4>1
      <4>5. id < First(n + 1)' BY <1>0, <1>k, <2>3, <4>1
      <4> QED BY <4>3, <4>4, <4>5
    <3> QED BY <1>1, <3>1, <3>2, TapeGrows
  <2> QED BY <1>0, <1>k, <2>2, <2>3, <2>4
<1>2. CASE Subscribe
  <2>1. UNCHANGED <<lane, tape, cursor, clean, cleaned>> BY <1>2 DEF Subscribe
  <2>2. Known(id) BY <2>1 DEF Known
  <2> QED BY <1>2, <1>k, <2>1, <2>2, WireOfReplay
<1>3. CASE ConnectionDrops
  <2>1. UNCHANGED <<lane, tape, cursor, clean, cleaned>> /\ feed' = <<>>
    BY <1>3 DEF ConnectionDrops, runState
  <2>2. Known(id) BY <2>1 DEF Known
  <2> QED BY <1>k, <2>1, <2>2
<1>4. CASE Receive
  <2>1. /\ UNCHANGED <<lane, tape, cleaned>> /\ feed # <<>> /\ Len(clean) \in Nat
        /\ X \in Nat /\ X <= Len(tape) /\ X = First(1) /\ 1 \in DOMAIN feed
    <3>1. UNCHANGED <<lane, tape, cleaned>> /\ feed # <<>> BY <1>4, ReceivedRow
    <3>2. X \in 1..Len(tape) /\ X = First(1) /\ Len(feed) \in Nat \ {0} BY <3>1, HeadPrint
    <3>3. 1 \in 1..Len(feed) BY <3>2
    <3> QED BY <1>0, <3>1, <3>2, <3>3, Basics
  <2>2. \/ Known(id)
        \/ id = X /\ Reasons(PrintRow(X), Tagged(feed[1])) = {}
    <3>1. CASE clean' = clean BY <2>1, <3>1 DEF Known
    <3>2. CASE clean' # clean
      <4>1. /\ Reasons(PrintRow(X), Tagged(feed[1])) = {}
            /\ clean' \in Seq(Rows) /\ Len(clean') = Len(clean) + 1
            /\ clean'[Len(clean) + 1] = PrintRow(X) /\ \A i \in 1..Len(clean) : clean'[i] = clean[i]
        BY <1>4, <3>2, ReceivedRow
      <4>2. \A i \in DOMAIN clean' : i \in 1..Len(clean) \/ i = Len(clean) + 1 BY <2>1, <4>1
      <4>3. PrintRow(X).id = X BY <2>1, HeadPrint
      <4> QED BY <1>0, <2>1, <4>1, <4>2, <4>3 DEF Known
    <3> QED BY <3>1, <3>2
  <2>3. \A i \in DOMAIN feed' : ~feed'[i].replay => id < First(i)'
    <3> TAKE i \in DOMAIN feed'
    <3> SUFFICES ASSUME ~feed'[i].replay PROVE id < First(i)'
      OBVIOUS
    <3>1. StateInv' /\ WireInv' BY StepTyped, StepWire
    <3>2. i \in 1..Len(feed') BY <3>1 DEF StateInv
    <3>3. First(i)' \in Nat
      <4>1. feed'[i] \in Frames /\ feed'[i].ids # <<>>
        BY <1>4, <3>2, RestOfWire, ElementOfSeq
      <4>2. feed'[i].ids \in Seq(Ids) /\ Len(feed'[i].ids) # 0 BY <4>1, EmptySeq DEF Frames
      <4>3. 1 \in 1..Len(feed'[i].ids) BY <4>2
      <4>4. feed'[i].ids[1] \in Ids BY <4>2, <4>3, ElementOfSeq
      <4>5. \A x \in Ids : x \in Nat BY DEF Ids
      <4> QED BY <4>4, <4>5 DEF First
    <3>4. X < First(i)' /\ \E j \in 1..Len(feed) : ~feed[j].replay /\ First(j) <= First(i)'
      BY <1>4, <3>2, WireOfRest
    <3>5. CASE Known(id)
      <4>1. PICK j \in 1..Len(feed) : ~feed[j].replay /\ First(j) <= First(i)' BY <3>4
      <4>2. id < First(j) /\ First(j) \in Nat BY <1>0, <1>k, <3>5, <4>1, FramesOfWire
      <4> QED BY <1>0, <3>3, <4>1, <4>2
    <3>6. CASE id = X BY <3>4, <3>6
    <3> QED BY <2>2, <3>5, <3>6
  <2>4. id <= Len(tape') BY <1>k, <2>1, <2>2
  <2>5. ASSUME lane.dense, cursor' # NoId, tape[id].odd # "id" PROVE id <= cursor'
    <3>1. /\ cursor' \in Nat /\ cursor <= cursor'
          /\ cursor' # cursor => /\ cursor' = X /\ (cursor = NoId => ~Tagged(feed[1]))
          /\ Reasons(PrintRow(X), Tagged(feed[1])) = {} /\ tape[X].odd # "id" => cursor' = X
      BY <1>4, <2>5, CursorMoves
    <3>2. CASE Known(id)
      <4>1. CASE cursor # NoId BY <1>0, <1>k, <2>5, <3>1, <3>2, <4>1
      <4>2. CASE cursor = NoId
        <5>1. cursor' = X /\ ~Tagged(feed[1]) BY <2>5, <3>1, <4>2
        <5>2. ~feed[1].replay BY <2>1, <5>1, LiveIsUntagged
        <5>3. id < X BY <1>k, <2>1, <3>2, <5>2
        <5> QED BY <1>0, <2>1, <5>1, <5>3
      <4> QED BY <4>1, <4>2
    <3>3. CASE id = X /\ Reasons(PrintRow(X), Tagged(feed[1])) = {} BY <1>0, <2>5, <3>1, <3>3
    <3> QED BY <2>2, <3>2, <3>3
  <2> QED BY <2>1, <2>3, <2>4, <2>5
<1>5. CASE FrameGarbled
  <2>1. UNCHANGED <<lane, tape, cursor, clean, cleaned>> BY <1>5 DEF FrameGarbled
  <2>2. Known(id) BY <2>1 DEF Known
  <2>3. \A i \in DOMAIN feed' : id < First(i)'
    <3> TAKE i \in DOMAIN feed'
    <3>1. feed' \in Seq(Frames) BY StepTyped DEF StateInv
    <3>2. /\ i \in 1..Len(feed') /\ i \in Nat /\ i # 0 /\ i + 1 \in 1..Len(feed)
          /\ First(i)' = First(i + 1)
      BY <1>5, <3>1, WireOfGarbled
    <3>3. ~feed[i + 1].replay BY <3>2, FramesOfWire
    <3> QED BY <1>0, <1>k, <2>2, <3>2, <3>3
  <2> QED BY <1>k, <2>1, <2>2, <2>3
<1>6. CASE EndSegment
  <2>1. /\ lane' = lane /\ tape' = tape /\ feed' = <<>> /\ clean' = <<>> /\ cursor' = NoId
        /\ cleaned' = [i \in Ids |-> cleaned[i] + Times(i)]
    BY <1>6 DEF EndSegment
  <2>2. cleaned[id] + Times(id) > 0 BY <2>1 DEF Known
  <2>3. cleaned[id] \in Nat /\ Times(id) \in Nat BY TimesCount DEF StateInv, TapeTypeOK
  <2>4. cleaned[id] > 0 \/ Times(id) > 0 BY <2>2, <2>3
  <2>5. Known(id) BY <2>4, TimesCount DEF Known
  <2> QED BY <1>k, <2>1, <2>5
<1>7. CASE UNCHANGED <<lane, tape, feed, cursor, clean, cleaned>>
  <2>1. Known(id) BY <1>7 DEF Known
  <2> QED BY <1>7, <1>k, <2>1 DEF First
<1>8. Tick \/ ClockStep \/ UNCHANGED tvars => UNCHANGED <<lane, tape, feed, cursor, clean, cleaned>>
  BY DEF Tick, ClockStep, tvars, runState
<1> QED BY <1>1, <1>2, <1>3, <1>4, <1>5, <1>6, <1>7, <1>8 DEF TapeNext

LEMMA StepOnce ==
    StateInv /\ WireInv /\ OnceInv /\ [TapeNext]_tvars => NoPrintTwice'
<1> SUFFICES ASSUME StateInv, WireInv, OnceInv, [TapeNext]_tvars, NEW id \in Ids
             PROVE  cleaned'[id] + Times(id)' <= 1
  BY DEF NoPrintTwice
<1>0. /\ cleaned[id] + Times(id) <= 1 /\ cleaned[id] \in Nat /\ Times(id) \in Nat
      /\ Len(clean) \in Nat /\ DOMAIN clean = 1..Len(clean)
  BY TimesCount, Basics DEF OnceInv, NoPrintTwice, StateInv, TapeTypeOK
<1>1. CASE UNCHANGED <<cleaned, clean>> BY <1>0, <1>1 DEF Times
<1>2. CASE Receive
  <2>1. cleaned' = cleaned /\ feed # <<>> BY <1>2, ReceivedRow
  <2>2. CASE clean' # clean
    <3>1. /\ Reasons(PrintRow(X), Tagged(feed[1])) = {}
          /\ clean' \in Seq(Rows) /\ Len(clean') = Len(clean) + 1
          /\ clean'[Len(clean) + 1] = PrintRow(X) /\ \A i \in 1..Len(clean) : clean'[i] = clean[i]
      BY <1>2, <2>2, ReceivedRow
    <3>2. DOMAIN clean' = 1..(Len(clean) + 1) BY <3>1
    <3>3. \A i \in 1..(Len(clean) + 1) : i \in 1..Len(clean) \/ i = Len(clean) + 1 BY <1>0
    <3>4. PrintRow(X).id = X BY <2>1, HeadPrint
    <3>5. CASE id # X
      <4>1. {i \in DOMAIN clean' : clean'[i].id = id} = {i \in DOMAIN clean : clean[i].id = id}
        BY <1>0, <3>1, <3>2, <3>3, <3>4, <3>5
      <4>2. Times(id)' = Times(id) BY <4>1 DEF Times
      <4> QED BY <1>0, <2>1, <4>2
    <3>6. CASE id = X
      <4>1. ~Known(id) BY <2>1, <3>1, <3>6, PassedIsUnknown DEF OnceInv
      <4>2. cleaned[id] = 0 /\ ~\E i \in DOMAIN clean : clean[i].id = id BY <1>0, <4>1 DEF Known
      <4>3. Len(clean) + 1 \in DOMAIN clean' BY <1>0, <3>2
      <4>4. {i \in DOMAIN clean' : clean'[i].id = id} = {Len(clean) + 1}
        BY <1>0, <3>1, <3>2, <3>3, <3>4, <3>6, <4>2, <4>3
      <4>5. Times(id)' = 1 BY <4>4, FS_Singleton DEF Times
      <4> QED BY <2>1, <4>2, <4>5
    <3> QED BY <3>5, <3>6
  <2> QED BY <1>1, <2>1, <2>2
<1>3. CASE EndSegment
  <2>1. clean' = <<>> /\ cleaned' = [i \in Ids |-> cleaned[i] + Times(i)] BY <1>3 DEF EndSegment
  <2>2. {i \in DOMAIN clean' : clean'[i].id = id} = {} BY <2>1
  <2>3. Times(id)' = 0 BY <2>2, FS_EmptySet DEF Times
  <2> QED BY <1>0, <2>1, <2>3
<1>4. VenuePrints \/ Subscribe \/ ConnectionDrops \/ FrameGarbled \/ Tick \/ ClockStep
        \/ UNCHANGED tvars => UNCHANGED <<cleaned, clean>>
  BY DEF VenuePrints, Subscribe, ConnectionDrops, FrameGarbled, Tick, ClockStep, tvars, runState
<1> QED BY <1>1, <1>2, <1>3, <1>4 DEF TapeNext

-----------------------------------------------------------------------------
(* What the verdict stands for.                                              *)

\* What each scorer makes of a row.
LEMMA TradesRead ==
    ASSUME NEW s, NEW row, NEW t, t = Reads("trades", s, row)
    PROVE  /\ t.prev = IF row.seq = NoId THEN s.prev ELSE row.seq
           /\ t.findings = {} <=>
                /\ s.findings = {} /\ row.good /\ ~(Skew(row) > MaxClockSkew)
                /\ row.seq # NoId /\ ~(row.seq < s.prev) /\ ~Gap(s.prev, row.seq)
<1>1. t = TradesRow(s, row) BY DEF Reads
<1>2. t.prev = IF row.seq = NoId THEN s.prev ELSE row.seq BY <1>1 DEF TradesRow
<1>3. t.findings = s.findings \cup Odd(row) \cup Skewed(row)
        \cup Found("missing_trade_ids", row.seq = NoId)
        \cup Found("non_monotonic_trade_ids", row.seq # NoId /\ row.seq < s.prev)
        \cup Found("trade_id_gaps", row.seq # NoId /\ Gap(s.prev, row.seq))
  BY <1>1 DEF TradesRow
<1> QED BY <1>2, <1>3 DEF Odd, Skewed, Found

LEMMA StreamRead ==
    ASSUME NEW s, NEW row, NEW t, t = Reads("stream", s, row)
    PROVE  /\ t.prev = Latest(s.prev, row.at)
           /\ t.findings = {} <=>
                /\ s.findings = {} /\ row.good /\ ~(Skew(row) > MaxClockSkew)
                /\ ~\E p \in s.prev : row.at < p
<1>1. t = StreamRow(s, row) BY DEF Reads
<1>2. t.prev = Latest(s.prev, row.at) BY <1>1 DEF StreamRow
<1>3. t.findings = s.findings \cup Odd(row) \cup Skewed(row)
        \cup Found("non_monotonic_event_time", \E p \in s.prev : row.at < p)
  <2> DEFINE late == \E p \in s.prev : row.at < p
  <2>1. t = [prev |-> Latest(s.prev, row.at),
             findings |-> s.findings \cup Odd(row) \cup Skewed(row)
                \cup Found("non_monotonic_event_time", late)]
    BY <1>1, Zenon DEF StreamRow
  <2> HIDE DEF late
  <2>2. t.findings = s.findings \cup Odd(row) \cup Skewed(row)
                \cup Found("non_monotonic_event_time", late)
    BY <2>1
  <2> QED BY <2>2 DEF late
<1> QED BY <1>2, <1>3 DEF Odd, Skewed, Found

LEMMA LiquidationsRead ==
    ASSUME NEW s, NEW row, NEW t, t = Reads("liquidations", s, row)
    PROVE  /\ t.prev = Latest(s.prev, row.recv)
           /\ t.findings = {} <=>
                /\ s.findings = {} /\ row.good /\ row.channel = "liquidations"
                /\ ~\E p \in s.prev : row.recv < p - StepTolerance
<1>1. t = LiquidationsRow(s, row) BY DEF Reads
<1>2. t.prev = Latest(s.prev, row.recv) BY <1>1 DEF LiquidationsRow
<1>3. t.findings = s.findings \cup Odd(row)
        \cup Found("wrong_channel", row.channel # "liquidations")
        \cup Found("non_monotonic_received_at", \E p \in s.prev : row.recv < p - StepTolerance)
  <2> DEFINE late == \E p \in s.prev : row.recv < p - StepTolerance
             other == row.channel # "liquidations"
  <2>1. t = [prev |-> Latest(s.prev, row.recv),
             findings |-> s.findings \cup Odd(row) \cup Found("wrong_channel", other)
                \cup Found("non_monotonic_received_at", late)]
    BY <1>1, Zenon DEF LiquidationsRow
  <2> HIDE DEF late, other
  <2>2. t.findings = s.findings \cup Odd(row) \cup Found("wrong_channel", other)
                \cup Found("non_monotonic_received_at", late)
    BY <2>1
  <2> QED BY <2>2 DEF late, other
<1> QED BY <1>2, <1>3 DEF Odd, Found

\* The rows of a run as the gate adds to them.
LEMMA RowIsAdded ==
    ASSUME StateInv, WireInv, Receive, clean' # clean
    PROVE  /\ Reasons(PrintRow(X), Tagged(feed[1])) = {} /\ feed # <<>>
           /\ Len(clean) \in Nat /\ DOMAIN clean = 1..Len(clean) /\ PrintRow(X) \in Rows
           /\ clean' \in Seq(Rows) /\ clean' # <<>>
           /\ Len(clean') = Len(clean) + 1 /\ DOMAIN clean' = 1..(Len(clean) + 1)
           /\ clean'[Len(clean) + 1] = PrintRow(X)
           /\ \A i \in 1..Len(clean) : clean'[i] = clean[i] /\ clean[i] \in Rows
           /\ \A i \in 1..(Len(clean) + 1) : i \in 1..Len(clean) \/ i = Len(clean) + 1
           /\ Scored' = Reads(lane.scorer, Scored, PrintRow(X))
           /\ LastClean' = X
<1>1. /\ Reasons(PrintRow(X), Tagged(feed[1])) = {} /\ feed # <<>> /\ clean' = Append(clean, PrintRow(X))
      /\ clean' \in Seq(Rows) /\ Len(clean') = Len(clean) + 1 /\ clean'[Len(clean) + 1] = PrintRow(X)
      /\ \A i \in 1..Len(clean) : clean'[i] = clean[i]
      /\ lane' = lane
  BY ReceivedRow
<1>2. /\ Len(clean) \in Nat /\ DOMAIN clean = 1..Len(clean) /\ clean \in Seq(Rows)
      /\ \A i \in 1..Len(clean) : clean[i] \in Rows
      /\ \A i \in 1..(Len(clean) + 1) : i \in 1..Len(clean) \/ i = Len(clean) + 1
  BY Basics DEF StateInv
<1>3. PrintRow(X) \in Rows /\ PrintRow(X).id = X BY <1>1, HeadPrint
<1>4. Score(lane.scorer, Append(clean, PrintRow(X))) = Reads(lane.scorer, Score(lane.scorer, clean), PrintRow(X))
  BY <1>2, <1>3, ScoreAppend
<1>5. Scored' = Reads(lane.scorer, Scored, PrintRow(X)) BY <1>1, <1>4 DEF Scored
<1>6. DOMAIN clean' = 1..(Len(clean) + 1) /\ clean' # <<>>
  <2>1. clean' \in Seq(Rows) /\ Len(clean') = Len(clean) + 1 /\ Len(clean) \in Nat
    BY <1>1, <1>2
  <2>2. DOMAIN clean' = 1..Len(clean') /\ Len(clean') # 0 BY ONLY <2>1
  <2>3. clean' # <<>> BY ONLY <2>1, <2>2, EmptySeq
  <2> QED BY <2>1, <2>2, <2>3
<1>7. LastClean' = X BY <1>1, <1>3 DEF LastClean
<1> QED BY <1>1, <1>2, <1>3, <1>5, <1>6, <1>7

\* What a run that is empty, or as it was, scores.
LEMMA EmptyScore ==
    /\ clean = <<>> => Scored.findings = {} /\ Scored.prev = Start(lane.scorer).prev
    /\ TapeReplayable(clean) <=> Scored.findings = {} /\ clean # <<>>
<1>1. clean = <<>> => Scored = Start(lane.scorer) BY ScoreEmpty DEF Scored
<1>2. Start(lane.scorer).findings = {} BY DEF Start
<1> QED BY <1>1, <1>2 DEF TapeReplayable, Findings, Found, Scored

LEMMA StepScore == StateInv /\ WireInv /\ ScoreInv /\ [TapeNext]_tvars => ScoreInv'
<1> SUFFICES ASSUME StateInv, WireInv, ScoreInv, [TapeNext]_tvars PROVE ScoreInv'
  OBVIOUS
<1>0. lane \in AllLanes /\ lane \in LaneType BY Basics
<1>1. CASE clean' = <<>> /\ lane' = lane
  <2>1. /\ Scored'.prev = Start(lane.scorer).prev /\ DOMAIN clean' = {}
    <3>1. Scored' = Start(lane.scorer) BY <1>1, ScoreEmpty DEF Scored
    <3> QED BY <1>1, <3>1
  <2>2. lane.dense => Scored'.prev = NoId BY <1>0, <2>1, LaneFacts DEF Start
  <2>3. ~lane.dense => Scored'.prev = {} BY <1>0, <2>1, LaneFacts DEF Start
  <2>4. lane.scorer \in {"stream", "liquidations"} => ~lane.dense BY <1>0, LaneFacts
  <2> QED BY <1>1, <2>1, <2>2, <2>3, <2>4 DEF ScoreInv
<1>2. CASE Receive /\ clean' # clean
  <2>1. /\ Len(clean) \in Nat /\ DOMAIN clean = 1..Len(clean) /\ PrintRow(X) \in Rows
        /\ DOMAIN clean' = 1..(Len(clean) + 1) /\ clean' # <<>>
        /\ clean'[Len(clean) + 1] = PrintRow(X)
        /\ \A i \in 1..Len(clean) : clean'[i] = clean[i] /\ clean[i] \in Rows
        /\ \A i \in 1..(Len(clean) + 1) : i \in 1..Len(clean) \/ i = Len(clean) + 1
        /\ Scored' = Reads(lane.scorer, Scored, PrintRow(X))
        /\ LastClean' = X /\ lane' = lane /\ feed # <<>>
        /\ Len(clean) + 1 \in DOMAIN clean' /\ \A i \in 1..Len(clean) : i \in DOMAIN clean'
    BY <1>2, RowIsAdded, ReceivedRow
  <2>2. lane.dense /\ Scored'.findings = {} => Scored'.prev = X
    <3> SUFFICES ASSUME lane.dense, Scored'.findings = {} PROVE Scored'.prev = X
      OBVIOUS
    <3>1. lane.scorer = "trades" BY <1>0, LaneFacts
    <3>2. PrintRow(X).seq # NoId /\ Scored'.prev = PrintRow(X).seq BY <2>1, <3>1, TradesRead
    <3> QED BY <2>1, <3>2, HeadPrint
  <2>3. lane.scorer = "stream" => Scored'.prev \subseteq {clean'[i].at : i \in DOMAIN clean'}
    <3> SUFFICES ASSUME lane.scorer = "stream", NEW p \in Scored'.prev
                 PROVE  \E i \in DOMAIN clean' : p = clean'[i].at
      OBVIOUS
    <3>1. p \in Scored.prev \/ p = PrintRow(X).at
      <4>1. Scored'.prev = Latest(Scored.prev, PrintRow(X).at) BY <2>1, StreamRead
      <4> QED BY <4>1 DEF Latest
    <3>2. CASE p \in Scored.prev
      <4>1. PICK i \in DOMAIN clean : p = clean[i].at BY <3>2 DEF ScoreInv
      <4> QED BY <2>1, <4>1
    <3>3. CASE p = PrintRow(X).at BY <2>1, <3>3
    <3> QED BY <3>1, <3>2, <3>3
  <2>4. ASSUME lane.scorer = "liquidations"
        PROVE  /\ Scored'.prev \subseteq {clean'[i].recv : i \in DOMAIN clean'}
               /\ \A i \in DOMAIN clean' : \E p \in Scored'.prev : clean'[i].recv <= p
    <3>1. Scored'.prev = Latest(Scored.prev, PrintRow(X).recv) BY <2>1, <2>4, LiquidationsRead
    <3>2. /\ \A p \in Scored.prev : \E i \in DOMAIN clean : p = clean[i].recv
          /\ \A i \in DOMAIN clean : \E p \in Scored.prev : clean[i].recv <= p
      BY <2>4 DEF ScoreInv
    <3>3. PrintRow(X).recv \in Int /\ \A i \in DOMAIN clean : clean[i].recv \in Int BY <2>1 DEF Rows
    <3>4. \A p \in Scored.prev : p \in Int BY <3>2, <3>3
    <3>5. CASE \E p \in Scored.prev : PrintRow(X).recv < p
      <4>1. Scored'.prev = Scored.prev BY <3>1, <3>5 DEF Latest
      <4>2. PICK p \in Scored.prev : PrintRow(X).recv < p BY <3>5
      <4>3. PrintRow(X).recv <= p BY <3>3, <3>4, <4>2
      <4>4. \A i \in DOMAIN clean' : \E q \in Scored'.prev : clean'[i].recv <= q
        BY <2>1, <3>2, <4>1, <4>2, <4>3
      <4>5. \A q \in Scored'.prev : \E i \in DOMAIN clean' : q = clean'[i].recv
        BY <2>1, <3>2, <4>1
      <4> QED BY <4>4, <4>5
    <3>6. CASE ~\E p \in Scored.prev : PrintRow(X).recv < p
      <4>1. Scored'.prev = {PrintRow(X).recv} BY <3>1, <3>6 DEF Latest
      <4>2. \A i \in DOMAIN clean : clean[i].recv <= PrintRow(X).recv
        <5> TAKE i \in DOMAIN clean
        <5>1. PICK p \in Scored.prev : clean[i].recv <= p BY <3>2
        <5>2. p \in Int /\ clean[i].recv \in Int /\ ~(PrintRow(X).recv < p) BY <3>3, <3>4, <3>6
        <5> QED BY <3>3, <5>1, <5>2
      <4>3. PrintRow(X).recv <= PrintRow(X).recv BY <3>3
      <4>4. \A i \in DOMAIN clean' : clean'[i].recv <= PrintRow(X).recv BY <2>1, <4>2, <4>3
      <4> QED BY <2>1, <4>1, <4>4
    <3> QED BY <3>5, <3>6
  <2> QED BY <2>1, <2>2, <2>3, <2>4 DEF ScoreInv
<1>3. CASE clean' = clean /\ lane' = lane BY <1>3 DEF ScoreInv, Scored, LastClean
<1>4. lane' = lane BY DEF TapeNext, VenuePrints, Subscribe, ConnectionDrops, Receive, FrameGarbled,
                         EndSegment, Tick, ClockStep, tvars
<1>5. EndSegment => clean' = <<>> BY DEF EndSegment
<1>6. VenuePrints \/ Subscribe \/ ConnectionDrops \/ FrameGarbled \/ Tick \/ ClockStep
        \/ UNCHANGED tvars => clean' = clean
  BY DEF VenuePrints, Subscribe, ConnectionDrops, FrameGarbled, Tick, ClockStep, tvars, runState
<1> QED BY <1>1, <1>2, <1>3, <1>4, <1>5, <1>6 DEF TapeNext

LEMMA StepVerdict ==
    StateInv /\ WireInv /\ RowsInv /\ VerdictInv /\ [TapeNext]_tvars => VerdictStands'
<1> SUFFICES ASSUME StateInv, WireInv, RowsInv, VerdictInv, [TapeNext]_tvars PROVE VerdictStands'
  OBVIOUS
<1>0. /\ lane \in AllLanes /\ lane \in LaneType /\ StepTolerance \in Nat /\ Len(tape) \in Nat
      /\ Len(clean) \in Nat /\ DOMAIN clean = 1..Len(clean) /\ MaxPrints \in Nat
      /\ \A i \in 1..Len(clean) : clean[i] \in Rows
      /\ MaxDelay \in Nat /\ MaxFutureSkew \in Nat
      /\ lane.scorer = "liquidations" => ~lane.dense
  BY Basics, LaneFacts
\* Rows that are there as they were, of prints that are as they were.
<1>1. ASSUME clean' = clean, lane' = lane, \A i \in 1..Len(tape) : tape'[i] = tape[i]
      PROVE  VerdictStands'
  <2>1. \A i \in DOMAIN clean : tape'[clean[i].id] = tape[clean[i].id]
    <3> TAKE i \in DOMAIN clean
    <3>1. clean[i].id \in Ids /\ clean[i].id <= Len(tape) BY <1>0 DEF Rows, RowsInv, Passed
    <3>2. clean[i].id \in 1..Len(tape) BY <1>0, <3>1 DEF Ids
    <3> QED BY <1>1, <3>2
  <2>2. TapeIsComplete => TapeIsComplete' BY <1>1, <2>1 DEF TapeIsComplete
  <2>3. ReceiptOrderHolds => ReceiptOrderHolds' BY <1>1 DEF ReceiptOrderHolds
  <2>4. TapeReplayable(clean)' => TapeReplayable(clean) BY <1>1 DEF TapeReplayable
  <2> QED BY <1>1, <2>2, <2>3, <2>4 DEF VerdictStands, VerdictInv
<1>2. ASSUME clean' = <<>> PROVE VerdictStands'
  <2>1. ~TapeReplayable(clean)' BY <1>2 DEF TapeReplayable, Findings, Found
  <2> QED BY <2>1 DEF VerdictStands
<1>3. CASE Receive /\ clean' # clean
  <2>1. /\ DOMAIN clean' = 1..(Len(clean) + 1) /\ clean'[Len(clean) + 1] = PrintRow(X)
        /\ \A i \in 1..Len(clean) : clean'[i] = clean[i]
        /\ \A i \in 1..(Len(clean) + 1) : i \in 1..Len(clean) \/ i = Len(clean) + 1
        /\ Scored' = Reads(lane.scorer, Scored, PrintRow(X)) /\ lane' = lane /\ tape' = tape
        /\ feed # <<>> /\ PrintRow(X) \in Rows
    BY <1>3, RowIsAdded, ReceivedRow
  <2>2. X \in Nat /\ X > 0 /\ PrintRow(X).id = X /\ tape[X].odd \in Oddities
    <3>1. X \in Ids /\ PrintRow(X).id = X /\ tape[X].odd \in Oddities BY <2>1, HeadPrint
    <3> QED BY <1>0, <3>1 DEF Ids
  <2>3. SUFFICES ASSUME Scored'.findings = {}
                 PROVE  /\ lane.dense => TapeIsComplete'
                        /\ lane.scorer = "liquidations" => ReceiptOrderHolds'
    <3>1. TapeReplayable(clean)' => Scored'.findings = {} BY DEF TapeReplayable, Findings, Scored
    <3> QED BY <2>1, <2>3, <3>1 DEF VerdictStands
  <2>4. CASE lane.dense
    <3>0. lane.scorer = "trades" BY <1>0, <2>4, LaneFacts
    <3>1. /\ Scored.findings = {} /\ PrintRow(X).good /\ PrintRow(X).seq # NoId
          /\ ~(PrintRow(X).seq < Scored.prev) /\ ~Gap(Scored.prev, PrintRow(X).seq)
      BY <2>1, <2>3, <3>0, TradesRead
    <3>2. tape[X].odd = "none" /\ PrintRow(X).seq = X
      <4>1. tape[X].odd # "id" /\ tape[X].odd # "value" /\ PrintRow(X).seq = X BY <2>1, <3>1, HeadPrint
      <4> QED BY <2>2, <4>1 DEF Oddities
    <3>3. clean # <<>> =>
            /\ TapeIsComplete /\ Scored.prev = LastClean /\ Len(clean) \in 1..Len(clean)
            /\ LastClean \in Nat /\ LastClean > 0
      <4> SUFFICES ASSUME clean # <<>>
                   PROVE  /\ TapeIsComplete /\ Scored.prev = LastClean
                          /\ Len(clean) \in 1..Len(clean) /\ LastClean \in Nat /\ LastClean > 0
        OBVIOUS
      <4>1. TapeReplayable(clean) BY <3>1, EmptyScore
      <4>2. Len(clean) # 0 BY EmptySeq DEF StateInv
      <4>3. LastClean \in Ids BY <1>0, <4>2 DEF LastClean, Rows
      <4>4. Scored.prev = LastClean BY <2>4, <3>1 DEF VerdictInv, ScoreInv
      <4> QED BY <1>0, <2>4, <4>1, <4>2, <4>3, <4>4 DEF VerdictInv, VerdictStands, Ids
    <3>4. ASSUME NEW i \in DOMAIN clean'
          PROVE  /\ tape[clean'[i].id].odd = "none"
                 /\ i > 1 => clean'[i].id - clean'[i - 1].id \in {0, 1}
      <4>1. CASE i \in 1..Len(clean)
        <5>1. clean # <<>> BY <1>0, <4>1
        <5>2. i > 1 => i - 1 \in 1..Len(clean) BY <1>0, <4>1
        <5> QED BY <1>0, <2>1, <3>3, <4>1, <5>1, <5>2 DEF TapeIsComplete
      <4>2. CASE i = Len(clean) + 1
        <5>1. clean'[i].id = X BY <2>1, <2>2, <4>2
        <5>2. i > 1 => clean # <<>> /\ clean'[i - 1].id = LastClean
          <6> SUFFICES ASSUME i > 1 PROVE clean # <<>> /\ clean'[i - 1].id = LastClean
            OBVIOUS
          <6>1. i - 1 = Len(clean) /\ Len(clean) \in 1..Len(clean) BY <1>0, <4>2
          <6> QED BY <2>1, <6>1 DEF LastClean
        <5>3. i > 1 => X - LastClean \in {0, 1}
          <6> SUFFICES ASSUME i > 1 PROVE X - LastClean \in {0, 1}
            OBVIOUS
          <6>1. LastClean \in Nat /\ LastClean > 0 /\ ~(X < LastClean) /\ ~Gap(LastClean, X)
            BY <3>1, <3>2, <3>3, <5>2
          <6>2. ~(X > LastClean + 1) BY <6>1 DEF Gap, NoId
          <6> QED BY <2>2, <6>1, <6>2
        <5> QED BY <3>2, <5>1, <5>2, <5>3
      <4> QED BY <2>1, <4>1, <4>2
    <3>5. TapeIsComplete' BY <2>1, <3>4 DEF TapeIsComplete
    <3> QED BY <1>0, <2>4, <3>5
  <2>5. CASE lane.scorer = "liquidations"
    <3>1. /\ Scored.findings = {}
          /\ ~\E p \in Scored.prev : PrintRow(X).recv < p - StepTolerance
      BY <2>1, <2>3, <2>5, LiquidationsRead
    <3>2. PrintRow(X).recv \in Int /\ \A i \in 1..Len(clean) : clean[i].recv \in Int
      BY <1>0, <2>1 DEF Rows
    <3>3. \A i \in 1..Len(clean) : PrintRow(X).recv >= clean[i].recv - StepTolerance
      <4> TAKE i \in 1..Len(clean)
      <4>1. PICK p \in Scored.prev : clean[i].recv <= p
        BY <1>0, <2>5 DEF VerdictInv, ScoreInv
      <4>2. p \in Int BY <1>0, <2>5, <3>2 DEF VerdictInv, ScoreInv
      <4>3. ~(PrintRow(X).recv < p - StepTolerance) /\ clean[i].recv \in Int BY <3>1, <3>2
      <4> QED BY <1>0, <3>2, <4>1, <4>2, <4>3
    <3>4. \A i, j \in DOMAIN clean' : i < j => clean'[j].recv >= clean'[i].recv - StepTolerance
      <4> TAKE i, j \in DOMAIN clean'
      <4> SUFFICES ASSUME i < j PROVE clean'[j].recv >= clean'[i].recv - StepTolerance
        OBVIOUS
      <4>1. i \in 1..Len(clean) BY <1>0, <2>1
      <4>2. CASE j = Len(clean) + 1 BY <2>1, <3>3, <4>1, <4>2
      <4>3. CASE j \in 1..Len(clean)
        <5>1. clean # <<>> BY <1>0, <4>1
        <5>2. ReceiptOrderHolds BY <2>5, <3>1, <5>1, EmptyScore DEF VerdictInv, VerdictStands
        <5> QED BY <1>0, <2>1, <4>1, <4>3, <5>2 DEF ReceiptOrderHolds
      <4> QED BY <2>1, <4>2, <4>3
    <3>5. \A i \in DOMAIN clean' : clean'[i].recv - clean'[i].at \in (-MaxFutureSkew)..MaxDelay
      <4> TAKE i \in DOMAIN clean'
      <4>1. RowsInv' /\ StateInv' BY StepRows, StepTyped
      <4>2. clean'[i].recv - clean'[i].at <= MaxDelay /\ clean'[i].at - clean'[i].recv <= MaxFutureSkew
        BY <4>1 DEF RowsInv, Passed
      <4>3. clean'[i] \in Rows BY <4>1, ElementOfSeq DEF StateInv
      <4> QED BY <1>0, <4>2, <4>3 DEF Rows
    <3>6. ReceiptOrderHolds' BY <3>4, <3>5 DEF ReceiptOrderHolds
    <3> QED BY <1>0, <2>5, <3>6
  <2> QED BY <2>4, <2>5
<1>4. lane' = lane BY DEF TapeNext, VenuePrints, Subscribe, ConnectionDrops, Receive, FrameGarbled,
                         EndSegment, Tick, ClockStep, tvars
<1>5. CASE VenuePrints BY <1>1, <1>5, TapeGrows
<1>6. CASE EndSegment BY <1>2, <1>6 DEF EndSegment
<1>7. Subscribe \/ ConnectionDrops \/ FrameGarbled \/ Tick \/ ClockStep
        \/ UNCHANGED tvars => clean' = clean /\ tape' = tape
  BY DEF Subscribe, ConnectionDrops, FrameGarbled, Tick, ClockStep, tvars, runState
<1>8. Receive => tape' = tape BY DEF Receive
<1> QED BY <1>1, <1>3, <1>4, <1>5, <1>6, <1>7, <1>8 DEF TapeNext

-----------------------------------------------------------------------------
(* A run that lost nothing is replayable.                                    *)

\* The clean rows are behind a live print.
LEMMA LiveIsAhead ==
    ASSUME StateInv, WireInv, KnownInv, feed # <<>>, ~Tagged(feed[1]), NEW i \in DOMAIN clean
    PROVE  clean[i].id \in Nat /\ clean[i].id > 0 /\ clean[i].id < X
<1>1. X = First(1) /\ 1 \in DOMAIN feed
  <2>1. X = First(1) /\ Len(feed) \in Nat \ {0} /\ DOMAIN feed = 1..Len(feed) BY HeadPrint, Basics
  <2> QED BY <2>1
<1>2. clean[i].id \in Ids /\ MaxPrints \in Nat BY Basics DEF Rows
<1>3. ~feed[1].replay BY LiveIsUntagged
<1>4. Known(clean[i].id) BY DEF Known
<1>5. clean[i].id < First(1) BY <1>1, <1>2, <1>3, <1>4 DEF KnownInv
<1> QED BY <1>1, <1>2, <1>5 DEF Ids

\* What the row that is read next is not blamed for.
LEMMA Blameless ==
    ASSUME StateInv, WireInv, feed # <<>>, Blames(PrintRow(X), Tagged(feed[1])) = {}
    PROVE  \/ Tagged(feed[1]) /\ (cursor = NoId \/ X <= cursor)
           \/ /\ ~(Tagged(feed[1]) /\ (cursor = NoId \/ X <= cursor))
              /\ tape[X].odd = "none" /\ PrintRow(X).at - PrintRow(X).recv <= MaxFutureSkew
              /\ lane.scorer # "liquidations" => PrintRow(X).recv - PrintRow(X).at <= MaxClockSkew
<1>1. PrintRow(X).id = X /\ PrintRow(X) \in Rows BY HeadPrint
<1>2. PrintRow(X).at \in Int /\ PrintRow(X).recv \in Int /\ MaxFutureSkew \in Nat /\ MaxClockSkew \in Nat
  BY <1>1, Basics DEF Rows
<1>3. CASE ~(Tagged(feed[1]) /\ (cursor = NoId \/ X <= cursor))
  <2>1. /\ Found(tape[X].odd, tape[X].odd # "none") = {}
        /\ Found("late", PrintRow(X).recv - PrintRow(X).at > MaxClockSkew /\ lane.scorer # "liquidations") = {}
        /\ Found("clocks", PrintRow(X).at - PrintRow(X).recv > MaxFutureSkew) = {}
    BY <1>1, <1>3 DEF Blames
  <2>2. tape[X].odd = "none" BY <2>1 DEF Found
  <2>3. ~(PrintRow(X).recv - PrintRow(X).at > MaxClockSkew /\ lane.scorer # "liquidations")
    BY <2>1 DEF Found
  <2>4. ~(PrintRow(X).at - PrintRow(X).recv > MaxFutureSkew) BY <2>1 DEF Found
  <2> QED BY <1>2, <1>3, <2>2, <2>3, <2>4
<1> QED BY <1>3

\* A replayed print that the run has already changes nothing.
LEMMA ReplayIsRefused ==
    ASSUME StateInv, WireInv, Receive, Tagged(feed[1]), cursor = NoId \/ X <= cursor
    PROVE  clean' = clean /\ cursor' = cursor
<1>1. feed # <<>> /\ X \in Nat /\ cursor \in Nat
  <2>1. feed # <<>> BY ReceivedRow
  <2>2. X \in 1..Len(tape) /\ Len(tape) \in Nat /\ cursor \in Nat BY <2>1, HeadPrint, Basics
  <2> QED BY <2>1, <2>2
<1>2. ~News(PrintRow(X))
  <2>1. News(PrintRow(X)) => cursor # NoId /\ cursor < X BY <1>1, NewsIsDense
  <2> QED BY <1>1, <2>1
<1>3. Reasons(PrintRow(X), Tagged(feed[1])) # {} BY <1>2 DEF Reasons, Found
<1>4. clean' = clean BY <1>3, ReceivedRow
<1>5. cursor' = cursor BY <1>2, ReceivedRow DEF Moved
<1> QED BY <1>4, <1>5

LEMMA StepClocks ==
    ASSUME StateInv, WireInv, AlarmInv, [TapeNext]_tvars, "clocks" \notin blamed'
    PROVE  \A i \in DOMAIN clean' : now' + host' >= clean'[i].recv - StepTolerance
<1>0. /\ Len(clean) \in Nat /\ DOMAIN clean = 1..Len(clean) /\ StepTolerance \in Nat
      /\ now \in Nat /\ host \in Int /\ \A i \in 1..Len(clean) : clean[i] \in Rows
  BY Basics
<1>1. \A i \in 1..Len(clean) : clean[i].recv \in Int BY <1>0 DEF Rows
<1>2. "clocks" \notin blamed =>
        \A i \in 1..Len(clean) : now + host >= clean[i].recv - StepTolerance
  BY <1>0 DEF AlarmInv
<1>3. CASE Receive
  <2>1. blamed \subseteq blamed' /\ now' = now /\ host' = host /\ feed # <<>>
    BY <1>3, ReceivedRow
  <2>2. \A i \in 1..Len(clean) : now + host >= clean[i].recv - StepTolerance BY <1>2, <2>1
  <2>3. CASE clean' # clean
    <3>1. /\ DOMAIN clean' = 1..(Len(clean) + 1) /\ clean'[Len(clean) + 1] = PrintRow(X)
          /\ \A i \in 1..Len(clean) : clean'[i] = clean[i]
          /\ \A i \in 1..(Len(clean) + 1) : i \in 1..Len(clean) \/ i = Len(clean) + 1
      BY <1>3, <2>3, RowIsAdded
    <3>2. PrintRow(X).recv = now + host BY <2>1, HeadPrint
    <3>3. now + host >= PrintRow(X).recv - StepTolerance BY <1>0, <3>2
    <3> QED BY <2>1, <2>2, <3>1, <3>3
  <2> QED BY <1>0, <2>1, <2>2, <2>3
<1>4. CASE ClockStep
  <2>1. clean' = clean /\ now' = now /\ host' \in {host - 1 - StepTolerance, host - 1, host + 1}
    BY <1>4 DEF ClockStep
  <2>2. host' \in Int BY <1>0, <2>1
  <2>3. ~\E i \in DOMAIN clean : now + host' < clean[i].recv - StepTolerance
    BY <1>4 DEF ClockStep, Found
  <2>4. \A i \in 1..Len(clean) : now + host' >= clean[i].recv - StepTolerance
    <3> TAKE i \in 1..Len(clean)
    <3>1. ~(now + host' < clean[i].recv - StepTolerance) /\ clean[i].recv \in Int
      BY <1>0, <1>1, <2>3
    <3> QED BY <1>0, <2>2, <3>1
  <2> QED BY <1>0, <2>1, <2>4
<1>5. CASE Tick
  <2>1. now' = now + 1 /\ host' = host /\ clean' = clean /\ blamed' = blamed
    BY <1>5 DEF Tick, runState
  <2>2. \A i \in 1..Len(clean) : now + 1 + host >= clean[i].recv - StepTolerance
    <3> TAKE i \in 1..Len(clean)
    <3>1. now + host >= clean[i].recv - StepTolerance /\ clean[i].recv \in Int BY <1>1, <1>2, <2>1
    <3> QED BY <1>0, <3>1
  <2> QED BY <1>0, <2>1, <2>2
<1>6. CASE EndSegment
  <2>1. clean' = <<>> BY <1>6 DEF EndSegment
  <2> QED BY <2>1
<1>7. CASE UNCHANGED <<now, host, clean>> /\ blamed \subseteq blamed' BY <1>0, <1>2, <1>7
<1>8. VenuePrints \/ Subscribe \/ ConnectionDrops \/ FrameGarbled \/ UNCHANGED tvars
        => UNCHANGED <<now, host, clean>> /\ blamed \subseteq blamed'
  BY DEF VenuePrints, Subscribe, ConnectionDrops, FrameGarbled, tvars, runState
<1> QED BY <1>3, <1>4, <1>5, <1>6, <1>7, <1>8 DEF TapeNext

\* What the run has, in numbers: where its cursor stands and what comes next.
LEMMA WhereItStands ==
    ASSUME StateInv, WireInv, CleanSoFar, lane.dense, up
    PROVE  \/ clean = <<>> /\ cursor = NoId
           \/ /\ clean # <<>> /\ cursor = LastClean /\ LastClean \in Nat /\ LastClean > 0
              /\ Len(clean) \in DOMAIN clean /\ Upcoming <= LastClean + 1
<1>1. clean # <<>> => Len(clean) \in DOMAIN clean
  <2>1. clean \in Seq(Rows) BY DEF StateInv
  <2>2. clean # <<>> => Len(clean) # 0 BY <2>1, EmptySeq
  <2> QED BY <2>1, <2>2
<1>2. clean # <<>> => LastClean \in Ids /\ MaxPrints \in Nat BY <1>1, Basics DEF LastClean, Rows
<1> QED BY <1>1, <1>2 DEF CleanSoFar, Ids

\* A print that is read and blamed on nothing, on a dense lane: the next of the run.
LEMMA DenseGoesOn ==
    ASSUME StateInv, WireInv, KnownInv, ScoreInv, CleanSoFar, Receive, lane.dense,
           Blames(PrintRow(X), Tagged(feed[1])) = {}
    PROVE  CleanSoFar'
<1>0. /\ feed # <<>> /\ up /\ UNCHANGED <<lane, tape, up>>
      /\ lane \in AllLanes /\ lane.scorer = "trades" /\ lane.channel = "trades" /\ ~lane.wantsId
      /\ Upcoming' = X + 1
  BY ReceivedRow, Basics, LaneFacts, WireOfRest
<1>1. /\ X \in Nat /\ X > 0 /\ cursor \in Nat /\ Upcoming = X
      /\ PrintRow(X).id = X /\ (tape[X].odd # "value" => PrintRow(X).good) /\ PrintRow(X) \in Rows
      /\ PrintRow(X).channel = "trades"
      /\ PrintRow(X).seq = IF tape[X].odd # "id" THEN X ELSE NoId
  <2>0. feed # <<>> BY <1>0
  <2>1. X \in Ids /\ X = First(1) /\ PrintRow(X).id = X /\ PrintRow(X) \in Rows BY <2>0, HeadPrint
  <2>2. PrintRow(X).seq = IF lane.dense /\ tape[X].odd # "id" THEN X ELSE NoId BY <2>0, HeadPrint
  <2>3. PrintRow(X).channel = lane.channel BY <2>0, HeadPrint
  <2>4. tape[X].odd # "value" => PrintRow(X).good BY <2>0, HeadPrint
  <2>5. MaxPrints \in Nat /\ cursor \in Nat BY Basics
  <2>6. X \in Nat /\ X > 0 BY <2>1, <2>5 DEF Ids
  <2>7. Upcoming = X BY <2>0, <2>1 DEF Upcoming
  <2>8. PrintRow(X).seq = IF tape[X].odd # "id" THEN X ELSE NoId BY <2>2
  <2>9. PrintRow(X).channel = "trades" BY <1>0, <2>3
  <2> QED BY <2>1, <2>4, <2>5, <2>6, <2>7, <2>8, <2>9
<1>2. CASE Tagged(feed[1]) /\ (cursor = NoId \/ X <= cursor)
  <2>1. clean' = clean /\ cursor' = cursor BY <1>2, ReplayIsRefused
  <2>2. Scored' = Scored BY <1>0, <2>1 DEF Scored
  <2>3. clean # <<>> => Upcoming' <= LastClean + 1
    <3> SUFFICES ASSUME clean # <<>> PROVE Upcoming' <= LastClean + 1
      OBVIOUS
    <3>1. cursor = LastClean /\ cursor # NoId BY <1>0, WhereItStands DEF NoId
    <3> QED BY <1>0, <1>1, <1>2, <3>1
  <2> QED BY <1>0, <2>1, <2>2, <2>3 DEF CleanSoFar, LastClean
<1>3. CASE /\ ~(Tagged(feed[1]) /\ (cursor = NoId \/ X <= cursor))
           /\ tape[X].odd = "none" /\ PrintRow(X).at - PrintRow(X).recv <= MaxFutureSkew
           /\ lane.scorer # "liquidations" => PrintRow(X).recv - PrintRow(X).at <= MaxClockSkew
  <2>1. PrintRow(X).seq = X /\ PrintRow(X).good /\ X # NoId
    <3>1. tape[X].odd # "id" /\ tape[X].odd # "value" BY <1>3
    <3> QED BY <1>1, <3>1 DEF NoId
  <2>2. /\ PrintRow(X).at \in Int /\ PrintRow(X).recv \in Int /\ MaxDelay \in Nat /\ MaxFutureSkew \in Nat
        /\ MaxClockSkew \in Nat /\ MaxFutureSkew <= MaxClockSkew /\ MaxClockSkew <= MaxDelay
    BY <1>1, Basics, LanesAssumption DEF Rows
  <2>3. PrintRow(X).recv - PrintRow(X).at <= MaxClockSkew BY <1>0, <1>3
  <2>4. ~Stale(PrintRow(X)) /\ ~(Skew(PrintRow(X)) > MaxClockSkew) BY <1>3, <2>2, <2>3 DEF Stale, Skew
  <2>5. Tagged(feed[1]) => News(PrintRow(X)) BY <1>1, <1>3, <2>1 DEF News
  <2>6. \/ clean = <<>> /\ cursor = NoId
        \/ clean # <<>> /\ cursor = LastClean /\ LastClean \in Nat /\ LastClean > 0 /\ LastClean <= X
           /\ X <= LastClean + 1
    <3>1. CASE clean = <<>> /\ cursor = NoId BY <3>1
    <3>2. CASE /\ clean # <<>> /\ cursor = LastClean /\ LastClean \in Nat /\ LastClean > 0
               /\ Len(clean) \in DOMAIN clean /\ Upcoming <= LastClean + 1
      <4>1. CASE Tagged(feed[1])
        <5>1. ~(X <= cursor) BY <1>3, <4>1
        <5> QED BY <1>1, <3>2, <5>1
      <4>2. CASE ~Tagged(feed[1])
        <5>1. LastClean < X BY <1>0, <3>2, <4>2, LiveIsAhead DEF LastClean
        <5> QED BY <1>1, <3>2, <5>1
      <4> QED BY <4>1, <4>2
    <3> QED BY <1>0, <3>1, <3>2, WhereItStands
  <2>7. ~(PrintRow(X).seq < cursor) BY <1>1, <2>1, <2>6 DEF NoId
  <2>8. Reasons(PrintRow(X), Tagged(feed[1])) = {}
    <3>1. ~ParseError(PrintRow(X)) BY <1>0 DEF ParseError
    <3>2. ~OddValue(PrintRow(X)) BY <2>1 DEF OddValue
    <3>3. ~(Tagged(feed[1]) /\ ~News(PrintRow(X))) BY <2>5
    <3>4. ~(~Tagged(feed[1]) /\ PrintRow(X).seq # NoId /\ PrintRow(X).seq < cursor) BY <2>7
    <3> QED BY <2>4, <3>1, <3>2, <3>3, <3>4 DEF Reasons, Found
  <2>9. clean' # clean
    <3>1. Len(clean') = Len(clean) + 1 /\ Len(clean) \in Nat BY <2>8, ReceivedRow, Basics
    <3> QED BY <3>1
  <2>10. clean' # <<>> /\ LastClean' = X /\ Scored' = Reads(lane.scorer, Scored, PrintRow(X))
    BY <2>9, RowIsAdded
  <2>11. cursor' = X BY <1>3, <2>8, CursorMoves
  <2>12. Scored'.findings = {}
    <3>1. Scored.findings = {} BY DEF CleanSoFar
    <3>2. Scored.prev = IF clean = <<>> THEN NoId ELSE LastClean BY <3>1 DEF ScoreInv
    <3>3. ~(PrintRow(X).seq < Scored.prev)
      <4>1. CASE clean = <<>> BY <1>1, <2>1, <3>2, <4>1 DEF NoId
      <4>2. CASE clean # <<>> BY <1>1, <2>1, <2>6, <3>2, <4>2
      <4> QED BY <4>1, <4>2
    <3>4. ~Gap(Scored.prev, PrintRow(X).seq) BY <1>1, <2>1, <2>6, <3>2 DEF NoId, Gap
    <3> QED BY <1>0, <2>1, <2>4, <2>10, <3>1, <3>3, <3>4, TradesRead
  <2>13. Upcoming' <= X + 1 BY <1>0, <1>1
  <2> QED BY <1>0, <2>10, <2>11, <2>12, <2>13 DEF CleanSoFar
<1> QED BY <1>0, <1>2, <1>3, Blameless

\* Elsewhere: its clock is in order.
LEMMA OthersGoOn ==
    ASSUME StateInv, TapeInv, WireInv, RowsInv, KnownInv, ScoreInv, AlarmInv, CleanSoFar, Receive,
           ~lane.dense, "clocks" \notin blamed, Blames(PrintRow(X), Tagged(feed[1])) = {}
    PROVE  CleanSoFar'
<1>0. /\ feed # <<>> /\ UNCHANGED <<lane, tape>> /\ lane \in AllLanes
      /\ lane.scorer \in {"stream", "liquidations"}
      /\ lane.scorer = "stream" => ~lane.late
      /\ lane.scorer = "liquidations" => lane.channel = "liquidations"
  BY ReceivedRow, Basics, LaneFacts DEF LaneType
<1>1. SUFFICES ASSUME clean' # clean PROVE Scored'.findings = {}
  <2>1. clean' = clean => Scored' = Scored BY <1>0 DEF Scored
  <2> QED BY <1>0, <1>1, <2>1 DEF CleanSoFar
<1>2. /\ Reasons(PrintRow(X), Tagged(feed[1])) = {} /\ Scored' = Reads(lane.scorer, Scored, PrintRow(X))
      /\ DOMAIN clean = 1..Len(clean) /\ PrintRow(X) \in Rows
  BY <1>1, RowIsAdded
<1>3. ~Tagged(feed[1])
  <2>1. Tagged(feed[1]) => News(PrintRow(X)) BY <1>0, <1>2, PassedRow
  <2> QED BY <1>0, <2>1, NewsIsDense
<1>4. /\ tape[X].odd = "none" /\ PrintRow(X).at - PrintRow(X).recv <= MaxFutureSkew
      /\ lane.scorer # "liquidations" => PrintRow(X).recv - PrintRow(X).at <= MaxClockSkew
  BY <1>0, <1>3, Blameless
<1>5. /\ PrintRow(X).good /\ PrintRow(X).at = tape[X].at /\ PrintRow(X).recv = now + host
      /\ PrintRow(X).channel = lane.channel /\ X \in 1..Len(tape)
  BY <1>0, <1>4, HeadPrint
<1>6. Scored.findings = {} BY DEF CleanSoFar
<1>7. CASE lane.scorer = "stream"
  <2>1. /\ PrintRow(X).at \in Int /\ PrintRow(X).recv \in Int /\ MaxFutureSkew \in Nat /\ MaxClockSkew \in Nat
        /\ MaxFutureSkew <= MaxClockSkew
    BY <1>2, Basics, LanesAssumption DEF Rows
  <2>2. ~(Skew(PrintRow(X)) > MaxClockSkew) BY <1>4, <1>7, <2>1 DEF Skew
  <2>3. ~\E p \in Scored.prev : PrintRow(X).at < p
    <3> SUFFICES ASSUME NEW p \in Scored.prev PROVE ~(PrintRow(X).at < p)
      OBVIOUS
    <3>1. PICK i \in DOMAIN clean : p = clean[i].at BY <1>7 DEF ScoreInv
    <3>2. clean[i].id \in Nat /\ clean[i].id > 0 /\ clean[i].id < X BY <1>0, <1>3, LiveIsAhead
    <3>3. clean[i].id \in 1..Len(tape) /\ Len(tape) \in Nat
      <4>1. Len(tape) \in Nat BY Basics
      <4> QED BY <1>5, <3>2, <4>1
    <3>4. tape[clean[i].id].at <= tape[X].at BY <1>0, <1>5, <1>7, <3>2, <3>3 DEF TapeInv
    <3>5. clean[i].at = tape[clean[i].id].at BY DEF RowsInv, Passed
    <3>6. clean[i].at \in Int BY <1>2, Basics DEF Rows
    <3> QED BY <1>5, <2>1, <3>1, <3>4, <3>5, <3>6
  <2> QED BY <1>2, <1>5, <1>6, <1>7, <2>2, <2>3, StreamRead
<1>8. CASE lane.scorer = "liquidations"
  <2>1. ~\E p \in Scored.prev : PrintRow(X).recv < p - StepTolerance
    <3> SUFFICES ASSUME NEW p \in Scored.prev PROVE ~(PrintRow(X).recv < p - StepTolerance)
      OBVIOUS
    <3>1. PICK i \in DOMAIN clean : p = clean[i].recv BY <1>8 DEF ScoreInv
    <3>2. now + host >= clean[i].recv - StepTolerance BY DEF AlarmInv
    <3>3. clean[i].recv \in Int /\ now \in Nat /\ host \in Int /\ StepTolerance \in Nat
      BY <1>2, Basics DEF Rows
    <3> QED BY <1>5, <3>1, <3>2, <3>3
  <2> QED BY <1>0, <1>2, <1>5, <1>6, <1>8, <2>1, LiquidationsRead
<1> QED BY <1>0, <1>7, <1>8

LEMMA StepAlarm ==
    StateInv /\ TapeInv /\ WireInv /\ RowsInv /\ KnownInv /\ ScoreInv /\ AlarmInv /\ [TapeNext]_tvars
        => AlarmInv'
<1> SUFFICES ASSUME StateInv, TapeInv, WireInv, RowsInv, KnownInv, ScoreInv, AlarmInv, [TapeNext]_tvars,
                    blamed' = {}
             PROVE  CleanSoFar'
  BY StepClocks DEF AlarmInv
<1>0. /\ lane \in AllLanes /\ lane \in LaneType /\ Len(tape) \in Nat /\ up \in BOOLEAN
      /\ feed \in Seq(Frames) /\ (lane.dense => ~lane.conflates)
  BY Basics, LaneFacts DEF StateInv, TapeTypeOK
<1>1. CASE VenuePrints
  <2>1. /\ UNCHANGED <<lane, up, cursor, clean, blamed>> /\ Len(tape') = Len(tape) + 1
        /\ \/ feed' = feed /\ (~up \/ lane.conflates)
           \/ up /\ feed' = Append(feed, [replay |-> FALSE, ids |-> <<Len(tape) + 1>>])
    BY <1>1, TapeGrows
  <2>2. CleanSoFar /\ Scored' = Scored BY <2>1 DEF AlarmInv, Scored
  <2>3. ASSUME lane.dense, up PROVE Upcoming' = Upcoming
    <3>1. up /\ feed' = Append(feed, [replay |-> FALSE, ids |-> <<Len(tape) + 1>>])
      BY <1>0, <2>1, <2>3
    <3>2. PICK n \in Nat : n = Len(feed) BY Basics
    <3>3. /\ Len(feed') = n + 1 /\ First(n + 1)' = Len(tape) + 1
          /\ \A i \in 1..n : First(i)' = First(i)
      BY <1>1, <3>1, <3>2, TapeGrows, PrintIsSent
    <3>4. feed' # <<>> BY <3>3
    <3>5. CASE feed = <<>>
      <4>1. n = 0 BY <3>2, <3>5
      <4>2. First(1)' = Len(tape) + 1 BY <3>3, <4>1
      <4> QED BY <3>4, <3>5, <4>2 DEF Upcoming
    <3>6. CASE feed # <<>>
      <4>1. 1 \in 1..n BY <1>0, <3>2, <3>6, EmptySeq
      <4> QED BY <3>3, <3>4, <3>6, <4>1 DEF Upcoming
    <3> QED BY <3>5, <3>6
  <2> QED BY <2>1, <2>2, <2>3 DEF CleanSoFar, LastClean
<1>2. CASE Subscribe
  <2>1. /\ UNCHANGED <<lane, tape, cursor, clean>>
        /\ blamed = {} /\ ~(clean # <<>> /\ lane.dense /\ LastClean < Len(tape) - lane.replay)
    BY <1>2 DEF Subscribe, Found, LastClean
  <2>2. CleanSoFar /\ Scored' = Scored BY <2>1 DEF AlarmInv, Scored
  <2>3. ASSUME lane.dense, clean # <<>> PROVE Upcoming' <= LastClean + 1
    <3>1. /\ LastClean \in Nat /\ lane.replay \in Nat /\ LastClean > 0
      <4>1. Len(clean) \in 1..Len(clean) BY <2>3, EmptySeq DEF StateInv
      <4>2. lane \in LaneType /\ \A i \in 1..Len(clean) : clean[i] \in Rows BY Basics
      <4>3. clean[Len(clean)].id \in Ids BY <4>1, <4>2 DEF Rows
      <4>4. lane.replay \in Nat BY <4>2 DEF LaneType
      <4> QED BY <4>3, <4>4 DEF LastClean, Ids
    <3>2. ~(LastClean < Len(tape) - lane.replay) BY <2>1, <2>3
    <3>3. CASE feed' = <<>> /\ (lane.replay = 0 \/ tape = <<>>)
      <4>1. Upcoming' = Len(tape) + 1 BY <2>1, <3>3 DEF Upcoming
      <4>2. tape = <<>> => Len(tape) = 0 OBVIOUS
      <4> QED BY <1>0, <3>1, <3>2, <3>3, <4>1, <4>2
    <3>4. CASE feed' # <<>> /\ First(1)' = IF lane.replay < Len(tape)
                                          THEN Len(tape) - lane.replay + 1 ELSE 1
      <4>1. Upcoming' = IF lane.replay < Len(tape) THEN Len(tape) - lane.replay + 1 ELSE 1
        BY <3>4 DEF Upcoming
      <4> QED BY <1>0, <3>1, <3>2, <4>1
    <3> QED BY <1>2, <2>3, <3>3, <3>4, WireOfReplay
  <2> QED BY <2>1, <2>2, <2>3 DEF CleanSoFar, LastClean
<1>3. CASE ConnectionDrops
  <2>1. UNCHANGED <<lane, cursor, clean, blamed>> /\ up' = FALSE
    BY <1>3 DEF ConnectionDrops, runState
  <2>2. CleanSoFar /\ Scored' = Scored BY <2>1 DEF AlarmInv, Scored
  <2> QED BY <2>1, <2>2 DEF CleanSoFar, LastClean
<1>4. CASE Receive
  <2>1. blamed = {} /\ Blames(PrintRow(X), Tagged(feed[1])) = {} BY <1>4, ReceivedRow
  <2>2. CleanSoFar /\ "clocks" \notin blamed BY <2>1 DEF AlarmInv
  <2> QED BY <1>4, <2>1, <2>2, DenseGoesOn, OthersGoOn
<1>5. CASE FrameGarbled
  <2>1. UNCHANGED <<lane, clean>> /\ blamed = {} /\ ~lane.dense
    BY <1>5 DEF FrameGarbled, Found
  <2>2. CleanSoFar /\ Scored' = Scored BY <2>1 DEF AlarmInv, Scored
  <2> QED BY <2>1, <2>2 DEF CleanSoFar
<1>6. CASE EndSegment
  <2>1. clean' = <<>> /\ cursor' = NoId BY <1>6 DEF EndSegment
  <2>2. Scored'.findings = {}
    <3>1. Scored' = Start(lane'.scorer) BY <2>1, ScoreEmpty DEF Scored
    <3> QED BY <3>1 DEF Start
  <2> QED BY <2>1, <2>2 DEF CleanSoFar
<1>7. CASE UNCHANGED <<lane, tape, up, feed, cursor, clean>> /\ blamed = {}
  <2>1. CleanSoFar BY <1>7 DEF AlarmInv
  <2> QED BY <1>7, <2>1 DEF CleanSoFar, Scored, LastClean, Upcoming, First
<1>8. Tick \/ ClockStep \/ UNCHANGED tvars
        => UNCHANGED <<lane, tape, up, feed, cursor, clean>> /\ blamed = {}
  BY DEF Tick, ClockStep, tvars, runState
<1> QED BY <1>1, <1>2, <1>3, <1>4, <1>5, <1>6, <1>7, <1>8 DEF TapeNext

-----------------------------------------------------------------------------
LEMMA TapeLaneInductive == TapeSpec => []TapeLaneInv
<1>1. TapeInit => TapeLaneInv
  <2> SUFFICES ASSUME TapeInit PROVE TapeLaneInv
    OBVIOUS
  <2>1. StateInv BY InitTyped
  <2>2. /\ tape = <<>> /\ up = FALSE /\ feed = <<>> /\ clean = <<>> /\ cursor = NoId
        /\ cleaned = [id \in Ids |-> 0] /\ DOMAIN clean = {} /\ DOMAIN feed = {} /\ Len(tape) = 0
        /\ Len(feed) = 0 /\ lane \in AllLanes
    BY <2>1, Basics DEF TapeInit
  <2>3. TapeInv
    <3>1. 1..Len(tape) = {} BY <2>2
    <3> QED BY <3>1 DEF TapeInv
  <2>4. WireInv
    <3>1. 1..(Len(feed) - 1) = {} BY <2>2
    <3> QED BY <2>2, <3>1 DEF WireInv
  <2>5. RowsInv BY <2>2 DEF RowsInv
  <2>6. OnceInv
    <3>1. \A id \in Ids : ~Known(id) BY <2>2 DEF Known
    <3>2. \A id : Times(id) = 0
      <4> TAKE id
      <4>1. {i \in DOMAIN clean : clean[i].id = id} = {} BY <2>2
      <4> QED BY <4>1, FS_EmptySet DEF Times
    <3> QED BY <2>2, <3>1, <3>2 DEF OnceInv, KnownInv, NoPrintTwice
  <2>7. Scored.findings = {} /\ Scored.prev = Start(lane.scorer).prev /\ ~TapeReplayable(clean)
    BY <2>2, EmptyScore
  <2>8. VerdictInv
    <3>1. lane.dense => Scored.prev = NoId BY <2>2, <2>7, LaneFacts DEF Start
    <3>2. ~lane.dense => Scored.prev = {} BY <2>2, <2>7, LaneFacts DEF Start
    <3>3. lane.scorer \in {"stream", "liquidations"} => ~lane.dense BY <2>2, LaneFacts
    <3> QED BY <2>2, <2>7, <3>1, <3>2, <3>3 DEF VerdictInv, ScoreInv, VerdictStands
  <2>9. AlarmInv BY <2>2, <2>7 DEF AlarmInv, CleanSoFar
  <2> QED BY <2>1, <2>3, <2>4, <2>5, <2>6, <2>8, <2>9 DEF TapeLaneInv
<1>2. TapeLaneInv /\ [TapeNext]_tvars => TapeLaneInv'
  BY StepTyped, StepTape, StepWire, StepRows, StepKnown, StepOnce, StepScore, StepVerdict, StepAlarm
  DEF TapeLaneInv, OnceInv, VerdictInv
<1> QED BY <1>1, <1>2, PTL DEF TapeSpec

\* A replayable run of a dense lane is the venue's tape, and one of liquidations was received
\* in order, whatever is lost, sent again or refused (replay.py, quality.py).
THEOREM VerdictsStand == TapeSpec => []VerdictStands
<1>1. TapeLaneInv => VerdictStands BY DEF TapeLaneInv, VerdictInv
<1> QED BY <1>1, TapeLaneInductive, PTL

\* No print is clean twice, in one run or in two, however often the venue sends it again
\* (the subscribe_replay tag of market_normalizers.py and the gate's cursor, quality.py).
THEOREM PrintsAreClean == TapeSpec => []NoPrintTwice
<1>1. TapeLaneInv => NoPrintTwice BY DEF TapeLaneInv, OnceInv
<1> QED BY <1>1, TapeLaneInductive, PTL

\* A run that lost nothing is replayable: reconnects that a replay covers, late liquidations
\* and small corrections of the clock fail no run (replay.py); and the types of the state.
THEOREM NoRunFailsForNothing == TapeSpec => []NoTapeFalseAlarm
<1>1. TapeLaneInv => NoTapeFalseAlarm
  BY EmptyScore DEF TapeLaneInv, StateInv, AlarmInv, CleanSoFar, NoTapeFalseAlarm
<1> QED BY <1>1, TapeLaneInductive, PTL
=============================================================================
