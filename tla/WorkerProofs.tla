---------------------------- MODULE WorkerProofs ----------------------------
(* Proofs about what a lane's worker relies on.                             *)
(*                                                                         *)
(* That it is alone: the lock files of ops.py, for any number of processes  *)
(* and any graces with MidWriteGrace <= CreatedGrace.  Without draining, a  *)
(* lock is judged stale only when its owner is dead, and if launches do not *)
(* overlap there is one owner at a time.                                    *)
(*                                                                         *)
(* That it goes on where the last one stopped: the cursor of the aggregate  *)
(* trades lane, for any page size, number of pages, gap and failures; the   *)
(* memory of the wallet-flow lane; TextFeedProofs has the text lane's.      *)
EXTENDS RunnerLock, TextFeedProofs

(***************************************************************************)
(* The cursor of the trades lane.                                          *)
(***************************************************************************)
\* A run of the lane, and the ids it has written or refused.
AggRun == [born : Nat, from : Nat, rows : Seq(Nat), refused : SUBSET Nat, reset : BOOLEAN,
           blind : BOOLEAN, place : {"raw", "quarantined"}, open : BOOLEAN]
Handled(i) == ToSet(lane[i].rows) \cup lane[i].refused

\* The state; the live run is the last one.
RunsState ==
    \A i \in DOMAIN lane :
        /\ Handled(i) \subseteq Ids
        /\ lane[i].open <=> Paging /\ i = pager.run
        /\ lane[i].open => lane[i].place = "raw"
        /\ lane[i].born <= now
        /\ \A j \in DOMAIN lane : i < j => lane[i].born <= lane[j].born
AggState ==
    /\ now \in 0..AggTime /\ market \in Seq(0..AggTime) /\ lane \in Seq(AggRun)
    /\ cursor \in [last : 0..Len(market), at : 0..now]
    /\ pager \in [run : Nat, from : 0..(Len(market) + 1)]
    /\ Paging => pager.run = Len(lane) /\ Len(lane) > 0
    /\ fetched \in Seq(Nat) /\ (fetched # <<>> => Paging)
    /\ RunsState

\* The rows of a run ascend, and what is missing between them was refused.
Gapless(run) ==
    /\ \A a, b \in DOMAIN run.rows : a < b => run.rows[a] < run.rows[b]
    /\ \A x, y \in ToSet(run.rows) : \A id \in x..y : id \in ToSet(run.rows) \cup run.refused

\* The next id the live run handles; 0 before its first poll at the latest page.
NextId == pager.from - Len(fetched)
PageInv ==
    /\ \A i \in DOMAIN lane : Gapless(lane[i])
    /\ Paging =>
        /\ NextId \in 0..(Len(market) + 1) /\ (NextId = 0 => pager.from = 0)
        /\ \A k \in DOMAIN fetched : fetched[k] = NextId + k - 1
        /\ \A id \in Handled(pager.run) : id < NextId
        /\ \A x \in ToSet(lane[pager.run].rows) : \A id \in x..(NextId - 1) : id \in Handled(pager.run)

\* A run begins behind the rows it can see.
ReachInv ==
    /\ \A i, j \in DOMAIN lane : i < j =>
        OutOfReach(i, j) \/ \A x \in ToSet(lane[i].rows), y \in ToSet(lane[j].rows) : x < y
    /\ Paging => \A i \in DOMAIN lane : i < pager.run =>
        OutOfReach(i, pager.run) \/ \A x \in ToSet(lane[i].rows) : x < NextId

\* The cursor file names a row of a finished run.
ResumeInv ==
    /\ cursor # NoCursor => \E i \in DOMAIN lane : ~lane[i].open /\ cursor.last \in ToSet(lane[i].rows)
    /\ \A j \in DOMAIN lane : HandledBefore(j) # {} => ResumesInReach(j)

AggInv == AggState /\ PageInv /\ ReachInv /\ ResumeInv

-----------------------------------------------------------------------------
(* Numbers and sequences.                                                    *)

\* Min is the least member.
LEMMA MinOfIds ==
    ASSUME NEW S \in SUBSET Nat, S # {} PROVE Min(S) \in S /\ \A x \in S : Min(S) <= x
<1> DEFINE P(x) == x \in S /\ \A y \in S : x =< y
<1>1. PICK m \in S : \A y \in S : m <= y BY LeastId
<1>2. P(m) BY <1>1
<1>3. \A x : P(x) => x = m BY <1>1
<1>4. Min(S) = CHOOSE x : P(x) BY DEF Min
<1>5. Min(S) = m
  <2> HIDE DEF P
  <2> QED BY <1>2, <1>3, <1>4
<1> QED BY <1>1, <1>5

\* What a row more makes of the rows.
LEMMA RowsAppended ==
    ASSUME NEW T, NEW s \in Seq(T), NEW x \in T
    PROVE  /\ Append(s, x) \in Seq(T) /\ DOMAIN Append(s, x) = 1..(Len(s) + 1)
           /\ \A k \in DOMAIN s : Append(s, x)[k] = s[k]
           /\ Append(s, x)[Len(s) + 1] = x /\ DOMAIN s = 1..Len(s) /\ Len(s) \in Nat
           /\ ToSet(Append(s, x)) = ToSet(s) \cup {x}
<1> DEFINE p == Append(s, x)
<1>1. /\ p \in Seq(T) /\ DOMAIN p = 1..(Len(s) + 1) /\ p[Len(s) + 1] = x
      /\ \A k \in DOMAIN s : p[k] = s[k]
      /\ DOMAIN s = 1..Len(s) /\ Len(s) \in Nat
  BY AppendProperties
<1> HIDE DEF p
<1>2. ToSet(p) = ToSet(s) \cup {x}
  <2>1. ASSUME NEW y \in ToSet(p) PROVE y \in ToSet(s) \cup {x}
    <3>1. PICK k \in DOMAIN p : p[k] = y BY DEF ToSet
    <3>2. k \in DOMAIN s \/ k = Len(s) + 1 BY <1>1
    <3> QED BY <1>1, <3>1, <3>2 DEF ToSet
  <2>2. ASSUME NEW y \in ToSet(s) PROVE y \in ToSet(p)
    <3>1. PICK k \in DOMAIN s : s[k] = y BY DEF ToSet
    <3>2. k \in DOMAIN p /\ p[k] = y BY <1>1, <3>1
    <3> QED BY <3>2 DEF ToSet
  <2>3. x \in ToSet(p)
    <3>1. Len(s) + 1 \in DOMAIN p BY <1>1
    <3> QED BY <1>1, <3>1 DEF ToSet
  <2> QED BY <2>1, <2>2, <2>3
<1> QED BY <1>1, <1>2 DEF p

\* What is left of the rows after a power loss.
LEMMA RowsCut ==
    ASSUME NEW T, NEW s \in Seq(T), NEW lost \in 0..1, lost <= Len(s)
    PROVE  LET p == SubSeq(s, 1, Len(s) - lost)
           IN  /\ p \in Seq(T) /\ DOMAIN p = 1..(Len(s) - lost) /\ DOMAIN p \subseteq DOMAIN s
               /\ \A k \in DOMAIN p : p[k] = s[k]
               /\ ToSet(p) \subseteq ToSet(s)
<1> DEFINE p == SubSeq(s, 1, Len(s) - lost)
<1>1. Len(s) \in Nat /\ Len(s) - lost \in Nat /\ \A i \in 1..(Len(s) - lost) : s[i] \in T OBVIOUS
<1>2. /\ p \in Seq(T) /\ Len(p) = Len(s) - lost
      /\ \A k \in 1..(Len(s) - lost) : p[k] = s[k]
  BY <1>1, SubSeqProperties
<1>3. DOMAIN p = 1..(Len(s) - lost)
  <2> HIDE DEF p
  <2> QED BY <1>2
<1>4. DOMAIN p \subseteq DOMAIN s BY <1>1, <1>3
<1>5. \A k \in DOMAIN p : p[k] = s[k] BY <1>2, <1>3
<1>6. ToSet(p) \subseteq ToSet(s)
  <2> HIDE DEF p
  <2> QED BY <1>4, <1>5 DEF ToSet
<1> QED BY <1>2, <1>3, <1>4, <1>5, <1>6

\* A step that replaces one run leaves the others.
LEMMA LaneChanged ==
    ASSUME lane \in Seq(AggRun), NEW o \in DOMAIN lane, NEW r \in AggRun,
           lane' = [lane EXCEPT ![o] = r]
    PROVE  /\ lane' \in Seq(AggRun) /\ DOMAIN lane' = DOMAIN lane /\ Len(lane') = Len(lane)
           /\ lane'[o] = r /\ \A i \in DOMAIN lane : i # o => lane'[i] = lane[i]
<1>1. lane \in [1..Len(lane) -> AggRun] /\ Len(lane) \in Nat /\ DOMAIN lane = 1..Len(lane) OBVIOUS
<1>2. lane' \in [1..Len(lane) -> AggRun] /\ lane'[o] = r /\ \A i \in DOMAIN lane : i # o => lane'[i] = lane[i]
  BY <1>1
<1>3. lane' \in Seq(AggRun) BY <1>1, <1>2
<1>4. Len(lane') = Len(lane) /\ DOMAIN lane' = DOMAIN lane BY <1>1, <1>2, <1>3
<1> QED BY <1>2, <1>3, <1>4

\* What a step does to the live run.
SameButRows(r, s) ==
    /\ r.born = s.born /\ r.from = s.from /\ r.reset = s.reset /\ r.blind = s.blind
    /\ r.place = s.place

\* The fetched ids are ids of the market.
LEMMA FetchedIds ==
    ASSUME AggState, PageInv PROVE ToSet(fetched) \subseteq Ids
<1> SUFFICES ASSUME NEW k \in DOMAIN fetched PROVE fetched[k] \in Ids BY DEF ToSet
<1>1. /\ Paging /\ Len(fetched) \in Nat /\ k \in 1..Len(fetched) /\ Len(market) \in Nat
      /\ pager.from \in 0..(Len(market) + 1) /\ DOMAIN market = 1..Len(market)
  BY DEF AggState
<1>2. NextId \in 0..(Len(market) + 1) /\ (NextId = 0 => pager.from = 0) /\ fetched[k] = NextId + k - 1
  BY <1>1 DEF PageInv
<1>3. NextId + Len(fetched) = pager.from BY <1>1, <1>2 DEF NextId
<1>4. NextId > 0 BY <1>1, <1>2, <1>3
<1> QED BY <1>1, <1>2, <1>3, <1>4 DEF Ids

\* A delivery handles the next id of the live run: a row more, or a refusal more.
LEMMA DeliverIs ==
    ASSUME AggState, PageInv, AggDeliver
    PROVE  LET o == pager.run
               h == Head(fetched)
           IN  /\ Paging /\ o \in DOMAIN lane /\ o = Len(lane) /\ h = NextId /\ h \in Ids /\ h \in Nat
               /\ lane' \in Seq(AggRun) /\ DOMAIN lane' = DOMAIN lane /\ Len(lane') = Len(lane)
               /\ \A i \in DOMAIN lane : i # o => lane'[i] = lane[i]
               /\ SameButRows(lane'[o], lane[o]) /\ lane'[o].open = lane[o].open
               /\ \/ lane'[o].rows = Append(lane[o].rows, h) /\ lane'[o].refused = lane[o].refused
                  \/ lane'[o].rows = lane[o].rows /\ lane'[o].refused = lane[o].refused \cup {h}
               /\ fetched' \in Seq(Nat) /\ Len(fetched') = Len(fetched) - 1 /\ Len(fetched) > 0
               /\ \A k \in DOMAIN fetched' : k \in Nat /\ k + 1 \in DOMAIN fetched /\ fetched'[k] = fetched[k + 1]
               /\ NextId' = NextId + 1
               /\ UNCHANGED <<now, market, cursor, pager, faults>>
<1> DEFINE o == pager.run
           h == Head(fetched)
           r == IF TooOld(h) THEN [lane[o] EXCEPT !.refused = @ \cup {h}]
                ELSE [lane[o] EXCEPT !.rows = Append(@, h)]
<1>1. /\ Paging /\ o = Len(lane) /\ Len(lane) > 0 /\ Len(lane) \in Nat /\ lane \in Seq(AggRun)
      /\ fetched \in Seq(Nat) /\ fetched # <<>> /\ pager.from \in Int
      /\ UNCHANGED <<now, market, cursor, pager, faults>> /\ fetched' = Tail(fetched)
  BY DEF AggState, AggDeliver
<1>2. o \in DOMAIN lane /\ lane[o] \in AggRun BY <1>1
<1>3. Len(fetched) \in Nat /\ Len(fetched) > 0 /\ h = fetched[1] /\ 1 \in DOMAIN fetched /\ h \in Nat
  BY <1>1
<1>4. h = NextId BY <1>1, <1>3 DEF PageInv
<1>5. h \in Ids
  <2>1. h \in ToSet(fetched) BY <1>3 DEF ToSet
  <2> QED BY <2>1, FetchedIds
<1>6. r \in AggRun
  <2>1. Append(lane[o].rows, h) \in Seq(Nat) BY <1>2, <1>3 DEF AggRun
  <2> HIDE DEF h
  <2> QED BY <1>2, <1>3, <2>1 DEF AggRun
<1>7. lane' = [lane EXCEPT ![o] = r] BY DEF AggDeliver
<1>8. /\ SameButRows(r, lane[o]) /\ r.open = lane[o].open
      /\ \/ r.rows = Append(lane[o].rows, h) /\ r.refused = lane[o].refused
         \/ r.rows = lane[o].rows /\ r.refused = lane[o].refused \cup {h}
  <2> HIDE DEF h
  <2> QED BY <1>2 DEF SameButRows, AggRun
<1>9. /\ fetched' \in Seq(Nat) /\ Len(fetched') = Len(fetched) - 1
      /\ \A k \in DOMAIN fetched' : k \in Nat /\ k + 1 \in DOMAIN fetched /\ fetched'[k] = fetched[k + 1]
  BY <1>1, <1>3
<1>10. NextId' = NextId + 1 BY <1>1, <1>3, <1>9 DEF NextId
<1> HIDE DEF r
<1>11. /\ lane' \in Seq(AggRun) /\ DOMAIN lane' = DOMAIN lane /\ Len(lane') = Len(lane)
       /\ lane'[o] = r /\ \A i \in DOMAIN lane : i # o => lane'[i] = lane[i]
  BY <1>1, <1>2, <1>6, <1>7, LaneChanged
<1> QED BY <1>1, <1>2, <1>3, <1>4, <1>5, <1>8, <1>9, <1>10, <1>11

\* The end of a segment closes the live run; a power loss may take its last row.
LEMMA EndIs ==
    ASSUME AggState, FinishSegment \/ AbandonSegment
    PROVE  LET o == pager.run
           IN  /\ Paging /\ o \in DOMAIN lane /\ o = Len(lane)
               /\ lane' \in Seq(AggRun) /\ DOMAIN lane' = DOMAIN lane /\ Len(lane') = Len(lane)
               /\ \A i \in DOMAIN lane : i # o => lane'[i] = lane[i]
               /\ SameButRows(lane'[o], lane[o]) /\ ~lane'[o].open
               /\ lane'[o].refused = lane[o].refused
               /\ \E lost \in 0..1 : /\ lost <= Len(lane[o].rows)
                                     /\ lane'[o].rows = SubSeq(lane[o].rows, 1, Len(lane[o].rows) - lost)
               /\ FinishSegment => lane'[o].rows = lane[o].rows
               /\ pager' = NoPager /\ ~Paging' /\ fetched' = <<>>
               /\ UNCHANGED <<now, market>>
<1> DEFINE o == pager.run
<1>1. /\ Paging /\ o = Len(lane) /\ Len(lane) > 0 /\ Len(lane) \in Nat /\ lane \in Seq(AggRun)
      /\ pager' = NoPager /\ fetched' = <<>> /\ UNCHANGED <<now, market>>
  BY DEF AggState, FinishSegment, AbandonSegment
<1>2. o \in DOMAIN lane /\ lane[o] \in AggRun /\ lane[o].rows \in Seq(Nat)
  <2>1. o \in DOMAIN lane BY <1>1
  <2>2. lane[o] \in AggRun BY <1>1, <2>1
  <2> QED BY <2>1, <2>2 DEF AggRun
<1>3. ~Paging' BY <1>1 DEF Paging
<1>4. PICK lost \in 0..1 : /\ lost <= Len(lane[o].rows) /\ (FinishSegment => lost = 0)
                           /\ lane' = [lane EXCEPT ![o] = [lane[o] EXCEPT !.open = FALSE,
                                 !.rows = SubSeq(@, 1, Len(@) - lost)]]
  <2>1. CASE FinishSegment
    <3>1. SubSeq(lane[o].rows, 1, Len(lane[o].rows) - 0) = lane[o].rows
      <4>1. PICK s \in Seq(Nat) : s = lane[o].rows BY <1>2
      <4>2. SubSeq(s, 1, Len(s)) = s BY SubSeqFull
      <4>3. Len(s) - 0 = Len(s) OBVIOUS
      <4> QED BY <4>1, <4>2, <4>3
    <3>2. lane' = [lane EXCEPT ![o] = [lane[o] EXCEPT !.open = FALSE]] BY <2>1 DEF FinishSegment
    <3>3. [lane[o] EXCEPT !.open = FALSE]
            = [lane[o] EXCEPT !.open = FALSE, !.rows = SubSeq(@, 1, Len(@) - 0)]
      BY <1>2, <3>1 DEF AggRun
    <3>4. 0 \in 0..1 /\ 0 <= Len(lane[o].rows) BY <1>2
    <3> QED BY <3>2, <3>3, <3>4
  <2>2. CASE ~FinishSegment
    <3>1. AbandonSegment BY <2>2
    <3> QED BY <2>2, <3>1 DEF AbandonSegment
  <2> QED BY <2>1, <2>2
<1> DEFINE r == [lane[o] EXCEPT !.open = FALSE, !.rows = SubSeq(@, 1, Len(@) - lost)]
<1>5. SubSeq(lane[o].rows, 1, Len(lane[o].rows) - lost) \in Seq(Nat) BY <1>2, <1>4, RowsCut
<1>6. r \in AggRun BY <1>2, <1>5 DEF AggRun
<1>7. /\ SameButRows(r, lane[o]) /\ ~r.open /\ r.refused = lane[o].refused
      /\ r.rows = SubSeq(lane[o].rows, 1, Len(lane[o].rows) - lost)
  BY <1>2 DEF SameButRows, AggRun
<1>8. FinishSegment => r.rows = lane[o].rows
  <2> SUFFICES ASSUME FinishSegment PROVE r.rows = lane[o].rows OBVIOUS
  <2>1. PICK s \in Seq(Nat) : s = lane[o].rows BY <1>2
  <2>2. SubSeq(s, 1, Len(s)) = s BY SubSeqFull
  <2>3. Len(s) - lost = Len(s) BY <1>4
  <2> HIDE DEF r
  <2> QED BY <1>7, <2>1, <2>2, <2>3
<1> HIDE DEF r
<1>9. /\ lane' \in Seq(AggRun) /\ DOMAIN lane' = DOMAIN lane /\ Len(lane') = Len(lane)
      /\ lane'[o] = r /\ \A i \in DOMAIN lane : i # o => lane'[i] = lane[i]
  <2>1. lane' = [lane EXCEPT ![o] = r] BY <1>4 DEF r
  <2> QED BY <1>1, <1>2, <1>6, <2>1, LaneChanged
<1> QED BY <1>1, <1>2, <1>3, <1>4, <1>7, <1>8, <1>9

\* A poll that finds nothing waiting fetches consecutive ids from its anchor on.
LEMMA PollIs ==
    ASSUME AggState, AggPoll
    PROVE  /\ Paging /\ Paging' /\ pager'.run = pager.run /\ fetched = <<>>
           /\ Anchor \in Nat /\ Anchor > 0 /\ (pager.from # 0 => Anchor = pager.from)
           /\ fetched' \in Seq(Nat) /\ NextId' = Anchor
           /\ \A k \in DOMAIN fetched' : fetched'[k] = Anchor + k - 1
           /\ pager' \in [run : Nat, from : 0..(Len(market) + 1)] /\ pager'.from > 0 /\ Anchor <= pager'.from
           /\ UNCHANGED <<now, market, cursor, lane, faults>>
<1>1. /\ Paging /\ pager \in [run : Nat, from : 0..(Len(market) + 1)] /\ Len(market) \in Nat
      /\ pager.run = Len(lane) /\ Len(lane) > 0
      /\ fetched = <<>> /\ Anchor <= Len(market)
      /\ fetched' = [k \in 1..(PolledTo - Anchor + 1) |-> Anchor + k - 1]
      /\ pager' = [pager EXCEPT !.from = PolledTo + 1]
      /\ UNCHANGED <<now, market, cursor, lane, faults>>
  BY DEF AggPoll, AggState
<1>2. PageLimit \in Nat /\ PageLimit > 0 /\ MaxPages \in Nat /\ MaxPages > 0 BY AggCursorAssumption
<1>3. Anchor \in Nat /\ Anchor > 0 /\ (pager.from # 0 => Anchor = pager.from)
  <2>1. CASE pager.from # 0 BY <1>1, <2>1 DEF Anchor
  <2>2. CASE pager.from = 0
    <3> DEFINE S == {1, Len(market) - PageLimit + 1}
    <3>1. Anchor = Max(S) BY <2>2 DEF Anchor
    <3>2. Len(market) - PageLimit + 1 \in Int BY <1>1, <1>2
    <3>3. Max(S) \in Nat /\ Max(S) > 0
      <4>1. CASE Len(market) - PageLimit + 1 <= 1
        <5>1. S \in SUBSET Int /\ 1 \in S /\ \A x \in S : x <= 1 BY <3>2, <4>1
        <5> HIDE DEF S
        <5>2. Max(S) = 1 BY <5>1, GreatestIs
        <5> QED BY <5>2
      <4>2. CASE Len(market) - PageLimit + 1 > 1
        <5>1. PICK m : m = Len(market) - PageLimit + 1 OBVIOUS
        <5>2. S \in SUBSET Int /\ m \in S /\ \A x \in S : x <= m BY <3>2, <4>2, <5>1
        <5> HIDE DEF S
        <5>3. Max(S) = m BY <5>2, GreatestIs
        <5> QED BY <3>2, <4>2, <5>1, <5>3
      <4> QED BY <3>2, <4>1, <4>2
    <3> QED BY <2>2, <3>1, <3>3
  <2> QED BY <2>1, <2>2
<1>4. PolledTo \in Nat /\ Anchor <= PolledTo /\ PolledTo <= Len(market)
  <2>1. PageLimit * MaxPages \in Nat /\ PageLimit * MaxPages > 0 BY <1>2
  <2>2. PICK n \in Nat : n = PageLimit * MaxPages /\ n > 0 BY <2>1
  <2> DEFINE e == Anchor + n - 1
             S == {Len(market), e}
  <2>3. PolledTo = Min(S) BY <2>2 DEF PolledTo
  <2>4. e \in Nat /\ Anchor <= e BY <1>3, <2>2
  <2>5. Min(S) \in S /\ \A x \in S : Min(S) <= x
    <3>1. S \in SUBSET Nat /\ S # {} BY <1>1, <2>4
    <3> HIDE DEF S
    <3> QED BY <3>1, MinOfIds
  <2> QED BY <1>1, <2>3, <2>4, <2>5
<1>5. /\ PolledTo - Anchor + 1 \in Nat
      /\ \A k \in 1..(PolledTo - Anchor + 1) : Anchor + k - 1 \in Nat
  BY <1>3, <1>4
<1>6. /\ fetched' \in Seq(Nat) /\ Len(fetched') = PolledTo - Anchor + 1
      /\ \A k \in DOMAIN fetched' : fetched'[k] = Anchor + k - 1
  <2>1. PICK n \in Nat : n = PolledTo - Anchor + 1 BY <1>5
  <2>2. fetched' = [k \in 1..n |-> Anchor + k - 1] BY <1>1, <2>1
  <2>3. \A k \in 1..n : Anchor + k - 1 \in Nat BY <1>5, <2>1
  <2>4. fetched' \in [1..n -> Nat] BY <2>2, <2>3
  <2>5. fetched' \in Seq(Nat) BY <2>4
  <2>6. DOMAIN fetched' = 1..n /\ Len(fetched') = n BY <2>1, <2>4, <2>5
  <2> QED BY <2>1, <2>2, <2>5, <2>6
<1>7. pager' \in [run : Nat, from : 0..(Len(market) + 1)] /\ pager'.from = PolledTo + 1
      /\ pager'.run = pager.run
  <2>1. PolledTo + 1 \in 0..(Len(market) + 1) BY <1>1, <1>4
  <2> QED BY <1>1, <2>1
<1>8. NextId' = Anchor BY <1>3, <1>4, <1>6, <1>7 DEF NextId
<1>9. Paging'
  <2>1. pager'.run # 0 BY <1>1, <1>7
  <2> QED BY <2>1 DEF Paging, NoPager
<1> QED BY <1>1, <1>3, <1>4, <1>6, <1>7, <1>8, <1>9

\* A quarantine changes the place of a finished run.
LEMMA QuarantineIs ==
    ASSUME AggState, NEW i \in DOMAIN lane, QuarantineRun(i)
    PROVE  /\ lane' \in Seq(AggRun) /\ DOMAIN lane' = DOMAIN lane /\ Len(lane') = Len(lane)
           /\ \A j \in DOMAIN lane :
                /\ lane'[j].born = lane[j].born /\ lane'[j].from = lane[j].from
                /\ lane'[j].reset = lane[j].reset /\ lane'[j].blind = lane[j].blind
                /\ lane'[j].rows = lane[j].rows /\ lane'[j].refused = lane[j].refused
                /\ lane'[j].open = lane[j].open
                /\ lane'[j].place = lane[j].place \/ (lane'[j].place = "quarantined" /\ ~lane[j].open)
           /\ UNCHANGED <<now, market, cursor, pager, fetched, faults>>
<1>1. lane \in Seq(AggRun) /\ lane[i] \in AggRun BY DEF AggState
<1> DEFINE r == [lane[i] EXCEPT !.place = "quarantined"]
<1>2. r \in AggRun BY <1>1 DEF AggRun
<1>3. lane' = [lane EXCEPT ![i] = r] /\ ~lane[i].open BY DEF QuarantineRun
<1>4. /\ r.born = lane[i].born /\ r.from = lane[i].from /\ r.reset = lane[i].reset
      /\ r.blind = lane[i].blind /\ r.rows = lane[i].rows /\ r.refused = lane[i].refused
      /\ r.open = lane[i].open /\ r.place = "quarantined"
  BY <1>1 DEF AggRun
<1> HIDE DEF r
<1>5. /\ lane' \in Seq(AggRun) /\ DOMAIN lane' = DOMAIN lane /\ Len(lane') = Len(lane)
      /\ lane'[i] = r /\ \A j \in DOMAIN lane : j # i => lane'[j] = lane[j]
  BY <1>1, <1>2, <1>3, LaneChanged
<1>6. UNCHANGED <<now, market, cursor, pager, fetched, faults>> BY DEF QuarantineRun
<1>7. ASSUME NEW j \in DOMAIN lane
      PROVE  /\ lane'[j].born = lane[j].born /\ lane'[j].from = lane[j].from
             /\ lane'[j].reset = lane[j].reset /\ lane'[j].blind = lane[j].blind
             /\ lane'[j].rows = lane[j].rows /\ lane'[j].refused = lane[j].refused
             /\ lane'[j].open = lane[j].open
             /\ lane'[j].place = lane[j].place \/ (lane'[j].place = "quarantined" /\ ~lane[j].open)
  <2>1. CASE j = i
    <3>1. lane'[j] = r /\ lane[j] = lane[i] BY <1>5, <2>1
    <3>2. lane'[j].open = lane[j].open BY <1>4, <3>1, Zenon
    <3>3. /\ lane'[j].born = lane[j].born /\ lane'[j].from = lane[j].from
          /\ lane'[j].reset = lane[j].reset /\ lane'[j].blind = lane[j].blind
          /\ lane'[j].rows = lane[j].rows /\ lane'[j].refused = lane[j].refused
          /\ lane'[j].place = "quarantined"
      BY <1>4, <3>1, Zenon
    <3>4. ~lane[j].open BY <1>3, <3>1
    <3> QED BY <3>2, <3>3, <3>4, Zenon
  <2>2. CASE j # i
    <3>1. lane'[j] = lane[j] BY <1>5, <2>2
    <3> QED BY <3>1, Zenon
  <2> QED BY <2>1, <2>2, Zenon
<1> QED BY <1>5, <1>6, <1>7, Zenon

\* The newest run that can be seen and has a row.
LEMMA DiskHighIs ==
    ASSUME AggState
    PROVE  /\ DiskHigh \in Nat
           /\ DiskHigh = 0 => \A i \in Scanned : lane[i].rows = <<>>
           /\ DiskHigh # 0 =>
                \E m \in Scanned :
                    /\ DiskHigh \in ToSet(lane[m].rows) /\ \A x \in ToSet(lane[m].rows) : x <= DiskHigh
                    /\ \A i \in Scanned : i > m => lane[i].rows = <<>>
<1> DEFINE W == {i \in Scanned : lane[i].rows # <<>>}
<1>1. lane \in Seq(AggRun) /\ Len(lane) \in Nat /\ Len(market) \in Nat BY DEF AggState
<1>2. W \in SUBSET Nat /\ \A i \in W : i <= Len(lane) BY <1>1 DEF Scanned
<1>3. CASE W = {}
  <2>1. DiskHigh = 0 BY <1>3 DEF DiskHigh
  <2> QED BY <1>3, <2>1
<1>4. CASE W # {}
  <2> HIDE DEF W
  <2>1. PICK m : m = Max(W) OBVIOUS
  <2>2. m \in W /\ \A i \in W : i <= m BY <1>1, <1>2, <1>4, <2>1, MaxOfIds
  <2>3. m \in Scanned /\ lane[m].rows # <<>> /\ m \in DOMAIN lane BY <2>2 DEF W, Scanned
  <2> DEFINE R == ToSet(lane[m].rows)
  <2>4. lane[m] \in AggRun BY <1>1, <2>3
  <2>5. lane[m].rows \in Seq(Nat) BY <2>4 DEF AggRun
  <2>6. R \subseteq Ids BY <2>3 DEF AggState, RunsState, Handled
  <2>7. R \in SUBSET Nat /\ \A x \in R : x <= Len(market) /\ x > 0
    <3>1. \A x \in Ids : x \in Nat /\ x <= Len(market) /\ x > 0 BY <1>1 DEF Ids, AggState
    <3> HIDE DEF R
    <3> QED BY <2>6, <3>1
  <2>8. R # {}
    <3>1. 1 \in DOMAIN lane[m].rows BY <2>3, <2>5
    <3> QED BY <3>1 DEF ToSet
  <2> HIDE DEF R
  <2>9. Max(R) \in R /\ \A x \in R : x <= Max(R) BY <1>1, <2>7, <2>8, MaxOfIds
  <2>10. DiskHigh = Max(R) BY <1>4, <2>1 DEF DiskHigh, W, R
  <2>11. \A i \in Scanned : i > m => lane[i].rows = <<>>
    <3> SUFFICES ASSUME NEW i \in Scanned, i > m, lane[i].rows # <<>> PROVE FALSE OBVIOUS
    <3>1. i \in W BY DEF W
    <3>2. i \in Nat /\ m \in Nat BY <1>2, <2>2, <3>1
    <3> QED BY <2>2, <3>1, <3>2
  <2> QED BY <2>3, <2>7, <2>9, <2>10, <2>11 DEF R
<1> QED BY <1>3, <1>4

\* A segment resumes behind the newest row in sight, or else behind the cursor.
LEMMA ResumeIs ==
    ASSUME AggState
    PROVE  /\ ResumeFrom \in 0..(Len(market) + 1)
           /\ DiskHigh # 0 => ResumeFrom > DiskHigh
           /\ ResumeFrom = 0 => DiskHigh = 0 /\ (cursor = NoCursor \/ StaleCursor)
           /\ ResumeFrom # 0 => \/ DiskHigh # 0 /\ ResumeFrom = DiskHigh + 1
                                \/ cursor # NoCursor /\ ResumeFrom = cursor.last + 1
<1>1. /\ DiskHigh \in Nat /\ Len(market) \in Nat /\ cursor.last \in 0..Len(market)
  BY DiskHighIs DEF AggState
<1>2. DiskHigh <= Len(market)
  <2>1. CASE DiskHigh = 0 BY <1>1, <2>1
  <2>2. CASE DiskHigh # 0
    <3>1. PICK m \in Scanned : DiskHigh \in ToSet(lane[m].rows) BY <2>2, DiskHighIs
    <3>2. DiskHigh \in Ids BY <3>1 DEF AggState, RunsState, Handled, Scanned
    <3> QED BY <1>1, <3>2 DEF Ids, AggState
  <2> QED BY <2>1, <2>2
<1>3. CursorFrom = IF cursor = NoCursor \/ StaleCursor THEN 0 ELSE cursor.last + 1 BY DEF CursorFrom
<1>4. ResumeFrom = IF DiskHigh # 0 /\ (CursorFrom = 0 \/ DiskHigh + 1 > CursorFrom)
                   THEN DiskHigh + 1 ELSE CursorFrom
  BY DEF ResumeFrom
<1> QED BY <1>1, <1>2, <1>3, <1>4

\* A segment begins with an empty run.
LEMMA BeginIs ==
    ASSUME AggState, BeginSegment
    PROVE  LET n == Len(lane) + 1
           IN  /\ ~Paging /\ Paging' /\ n \in Nat /\ n > 0 /\ DOMAIN lane = 1..Len(lane) /\ Len(lane) \in Nat
               /\ lane' \in Seq(AggRun) /\ DOMAIN lane' = 1..n /\ Len(lane') = n
               /\ \A i \in DOMAIN lane : lane'[i] = lane[i] /\ i # n
               /\ lane'[n] = [born |-> now, from |-> ResumeFrom, rows |-> <<>>, refused |-> {},
                              reset |-> StaleCursor, blind |-> cursor = NoCursor,
                              place |-> "raw", open |-> TRUE]
               /\ pager' = [run |-> n, from |-> ResumeFrom]
               /\ fetched = <<>> /\ NextId' = ResumeFrom
               /\ UNCHANGED <<now, market, cursor, fetched, faults>>
<1> DEFINE n == Len(lane) + 1
           r == [born |-> now, from |-> ResumeFrom, rows |-> <<>>, refused |-> {},
                 reset |-> StaleCursor, blind |-> cursor = NoCursor,
                 place |-> "raw", open |-> TRUE]
<1>1. /\ ~Paging /\ fetched = <<>> /\ lane \in Seq(AggRun) /\ Len(lane) \in Nat /\ now \in Nat
      /\ DOMAIN lane = 1..Len(lane)
  BY DEF AggState, BeginSegment
<1>2. ResumeFrom \in Nat
  <2>1. Len(market) \in Nat BY DEF AggState
  <2> QED BY <2>1, ResumeIs
<1>3. r \in AggRun
  <2>1. <<>> \in Seq(Nat) /\ StaleCursor \in BOOLEAN BY DEF StaleCursor
  <2> QED BY <1>1, <1>2, <2>1 DEF AggRun
<1>4. lane' = Append(lane, r) /\ pager' = [run |-> n, from |-> ResumeFrom]
  BY DEF BeginSegment
<1>5. UNCHANGED <<now, market, cursor, fetched, faults>> BY DEF BeginSegment
<1>6. PICK q : q = r OBVIOUS
<1>7. q \in AggRun /\ lane' = Append(lane, q) BY <1>3, <1>4, <1>6
<1>8. /\ lane' \in Seq(AggRun) /\ DOMAIN lane' = 1..n /\ Len(lane') = n
      /\ lane'[n] = q /\ \A i \in DOMAIN lane : lane'[i] = lane[i] /\ i # n
  BY <1>1, <1>7, AppendProperties
<1>9. pager'.run # 0 /\ pager'.from = ResumeFrom BY <1>1, <1>4
<1>10. Paging' BY <1>9 DEF Paging, NoPager
<1>11. NextId' = ResumeFrom
  <2>1. Len(<<>>) = 0 OBVIOUS
  <2> QED BY <1>1, <1>2, <1>5, <1>9, <2>1 DEF NextId
<1> QED BY <1>1, <1>4, <1>5, <1>6, <1>8, <1>10, <1>11

\* The steps that leave every run as it is.
LEMMA Quiets ==
    ASSUME AggState, Trade \/ TimePasses
    PROVE  /\ UNCHANGED <<cursor, lane, pager, fetched>> /\ NextId' = NextId
           /\ now' \in 0..AggTime /\ now <= now' /\ market' \in Seq(0..AggTime)
           /\ Len(market) \in Nat /\ Len(market') \in Nat /\ Len(market) <= Len(market')
           /\ Ids \subseteq Ids' /\ (Paging' <=> Paging)
<1>1. /\ now \in 0..AggTime /\ market \in Seq(0..AggTime) /\ Len(market) \in Nat /\ AggTime \in Nat
      /\ UNCHANGED <<cursor, lane, pager, fetched>>
  BY AggCursorAssumption DEF AggState, Trade, TimePasses
<1>2. NextId' = NextId /\ (Paging' <=> Paging) BY <1>1 DEF NextId, Paging
<1>3. CASE Trade
  <2>1. market' = Append(market, now) /\ now' = now BY <1>3 DEF Trade
  <2>2. market' \in Seq(0..AggTime) /\ Len(market') = Len(market) + 1 BY <1>1, <2>1, AppendProperties
  <2>3. Ids = 1..Len(market) /\ Ids' = 1..Len(market') BY <1>1, <2>2 DEF Ids
  <2> QED BY <1>1, <1>2, <2>1, <2>2, <2>3
<1>4. CASE TimePasses
  <2>1. market' = market /\ now' = now + 1 /\ now < AggTime BY <1>4 DEF TimePasses
  <2>2. Ids' = Ids BY <2>1 DEF Ids
  <2>3. now + 1 \in 0..AggTime /\ now <= now + 1 BY <1>1, <2>1
  <2> QED BY <1>1, <1>2, <2>1, <2>2, <2>3
<1> QED BY <1>3, <1>4

\* Every step keeps the types of the state.
LEMMA StateKept == ASSUME AggState, PageInv, AggNext PROVE AggState'
<1>0. /\ now \in 0..AggTime /\ now \in Nat /\ market \in Seq(0..AggTime) /\ Len(market) \in Nat
      /\ lane \in Seq(AggRun) /\ Len(lane) \in Nat /\ DOMAIN lane = 1..Len(lane)
      /\ cursor \in [last : 0..Len(market), at : 0..now]
      /\ pager \in [run : Nat, from : 0..(Len(market) + 1)]
      /\ Paging => pager.run = Len(lane) /\ Len(lane) > 0
      /\ fetched \in Seq(Nat) /\ (fetched # <<>> => Paging)
      /\ RunsState
  BY DEF AggState
<1>1. CASE Trade \/ TimePasses
  <2>1. /\ UNCHANGED <<cursor, lane, pager, fetched>>
        /\ now' \in 0..AggTime /\ now <= now' /\ now' \in Nat /\ market' \in Seq(0..AggTime)
        /\ Len(market') \in Nat /\ Len(market) <= Len(market')
        /\ Ids \subseteq Ids' /\ (Paging' <=> Paging)
    BY <1>1, Quiets
  <2>2. RunsState'
    <3> SUFFICES ASSUME NEW i \in DOMAIN lane
                 PROVE  /\ Handled(i)' \subseteq Ids'
                        /\ lane[i].open <=> Paging' /\ i = pager.run
                        /\ lane[i].open => lane[i].place = "raw"
                        /\ lane[i].born <= now'
                        /\ \A j \in DOMAIN lane : i < j => lane[i].born <= lane[j].born
      BY <2>1 DEF RunsState
    <3>1. lane[i].born \in Nat
      <4>1. lane[i] \in AggRun BY <1>0
      <4> QED BY <4>1 DEF AggRun
    <3>2. Handled(i)' = Handled(i) BY <2>1 DEF Handled
    <3> QED BY <1>0, <2>1, <3>1, <3>2 DEF RunsState
  <2>3. cursor' \in [last : 0..Len(market'), at : 0..now'] BY <1>0, <2>1
  <2>4. pager' \in [run : Nat, from : 0..(Len(market') + 1)] BY <1>0, <2>1
  <2> QED BY <1>0, <2>1, <2>2, <2>3, <2>4 DEF AggState
<1>2. CASE AggPoll
  <2>1. /\ Paging /\ Paging' /\ pager'.run = pager.run /\ fetched' \in Seq(Nat)
        /\ pager' \in [run : Nat, from : 0..(Len(market) + 1)]
        /\ UNCHANGED <<now, market, cursor, lane>>
    BY <1>2, PollIs
  <2>2. RunsState'
    <3>1. \A i : Handled(i)' = Handled(i) BY <2>1 DEF Handled
    <3>2. Ids' = Ids BY <2>1 DEF Ids
    <3> QED BY <1>0, <2>1, <3>1, <3>2 DEF RunsState
  <2> QED BY <1>0, <2>1, <2>2 DEF AggState
<1>3. CASE AggDeliver
  <2>0. PICK o, h : o = pager.run /\ h = Head(fetched) OBVIOUS
  <2>1. /\ Paging /\ o \in DOMAIN lane /\ h \in Ids /\ h \in Nat
        /\ lane' \in Seq(AggRun) /\ DOMAIN lane' = DOMAIN lane /\ Len(lane') = Len(lane)
        /\ \A i \in DOMAIN lane : i # o => lane'[i] = lane[i]
        /\ SameButRows(lane'[o], lane[o]) /\ lane'[o].open = lane[o].open
        /\ \/ lane'[o].rows = Append(lane[o].rows, h) /\ lane'[o].refused = lane[o].refused
           \/ lane'[o].rows = lane[o].rows /\ lane'[o].refused = lane[o].refused \cup {h}
        /\ fetched' \in Seq(Nat) /\ UNCHANGED <<now, market, cursor, pager>>
    BY <1>3, <2>0, DeliverIs
  <2>2. Paging' /\ Ids' = Ids BY <2>1 DEF Paging, Ids
  <2>3. Handled(o)' = Handled(o) \cup {h}
    <3>1. lane[o].rows \in Seq(Nat)
      <4>1. lane[o] \in AggRun BY <1>0, <2>1
      <4> QED BY <4>1 DEF AggRun
    <3>2. PICK s \in Seq(Nat) : s = lane[o].rows BY <3>1
    <3>3. ToSet(Append(s, h)) = ToSet(s) \cup {h} BY <2>1, RowsAppended
    <3> QED BY <2>1, <3>2, <3>3 DEF Handled
  <2>4. \A i \in DOMAIN lane : i # o => Handled(i)' = Handled(i) BY <2>1 DEF Handled
  <2>5. \A i \in DOMAIN lane : lane'[i].born = lane[i].born /\ lane'[i].place = lane[i].place
    <3> SUFFICES ASSUME NEW i \in DOMAIN lane
                 PROVE  lane'[i].born = lane[i].born /\ lane'[i].place = lane[i].place
      OBVIOUS
    <3>1. CASE i = o BY <2>1, <3>1 DEF SameButRows
    <3>2. CASE i # o BY <2>1, <3>2
    <3> QED BY <3>1, <3>2
  <2>6. \A i \in DOMAIN lane : lane'[i].open <=> lane[i].open
    <3> SUFFICES ASSUME NEW i \in DOMAIN lane PROVE lane'[i].open <=> lane[i].open OBVIOUS
    <3>1. CASE i = o BY <2>1, <3>1, Zenon
    <3>2. CASE i # o BY <2>1, <3>2, Zenon
    <3> QED BY <3>1, <3>2
  <2>7. RunsState'
    <3> SUFFICES ASSUME NEW i \in DOMAIN lane
                 PROVE  /\ Handled(i)' \subseteq Ids
                        /\ lane'[i].open <=> Paging /\ i = pager.run
                        /\ lane'[i].open => lane'[i].place = "raw"
                        /\ lane'[i].born <= now
                        /\ \A j \in DOMAIN lane : i < j => lane'[i].born <= lane'[j].born
      BY <2>1, <2>2 DEF RunsState
    <3>1. Handled(i)' \subseteq Ids
      <4>1. Handled(i) \subseteq Ids BY <1>0 DEF RunsState
      <4>2. CASE i = o BY <2>1, <2>3, <4>1, <4>2
      <4>3. CASE i # o BY <2>4, <4>1, <4>3
      <4> QED BY <4>2, <4>3
    <3> QED BY <1>0, <2>5, <2>6, <3>1 DEF RunsState
  <2> QED BY <1>0, <2>1, <2>2, <2>7 DEF AggState
<1>4. CASE FinishSegment \/ AbandonSegment
  <2>0. PICK o : o = pager.run OBVIOUS
  <2>1. /\ Paging /\ o \in DOMAIN lane
        /\ lane' \in Seq(AggRun) /\ DOMAIN lane' = DOMAIN lane /\ Len(lane') = Len(lane)
        /\ \A i \in DOMAIN lane : i # o => lane'[i] = lane[i]
        /\ SameButRows(lane'[o], lane[o]) /\ ~lane'[o].open
        /\ lane'[o].refused = lane[o].refused
        /\ pager' = NoPager /\ ~Paging' /\ fetched' = <<>>
        /\ UNCHANGED <<now, market>>
    BY <1>4, <2>0, EndIs
  <2>2. ToSet(lane'[o].rows) \subseteq ToSet(lane[o].rows) /\ lane[o].rows \in Seq(Nat)
    <3>1. lane[o] \in AggRun BY <1>0, <2>1
    <3>2. lane[o].rows \in Seq(Nat) BY <3>1 DEF AggRun
    <3>3. PICK lost \in 0..1 : /\ lost <= Len(lane[o].rows)
                               /\ lane'[o].rows = SubSeq(lane[o].rows, 1, Len(lane[o].rows) - lost)
      BY <1>4, <2>0, EndIs
    <3> QED BY <3>2, <3>3, RowsCut
  <2>3. Handled(o)' \subseteq Handled(o) BY <2>1, <2>2 DEF Handled
  <2>4. \A i \in DOMAIN lane : i # o => Handled(i)' = Handled(i) BY <2>1 DEF Handled
  <2>5. \A i \in DOMAIN lane : lane'[i].born = lane[i].born /\ lane'[i].place = lane[i].place
    <3> SUFFICES ASSUME NEW i \in DOMAIN lane
                 PROVE  lane'[i].born = lane[i].born /\ lane'[i].place = lane[i].place
      OBVIOUS
    <3>1. CASE i = o BY <2>1, <3>1 DEF SameButRows
    <3>2. CASE i # o BY <2>1, <3>2
    <3> QED BY <3>1, <3>2
  <2>6. \A i \in DOMAIN lane : ~lane'[i].open
    <3> SUFFICES ASSUME NEW i \in DOMAIN lane, i # o PROVE ~lane'[i].open BY <2>1
    <3>1. lane'[i] = lane[i] BY <2>1
    <3>2. ~lane[i].open BY <1>0, <2>0 DEF RunsState
    <3> QED BY <3>1, <3>2
  <2>7. RunsState'
    <3> SUFFICES ASSUME NEW i \in DOMAIN lane
                 PROVE  /\ Handled(i)' \subseteq Ids'
                        /\ lane'[i].born <= now
                        /\ \A j \in DOMAIN lane : i < j => lane'[i].born <= lane'[j].born
      BY <2>1, <2>6 DEF RunsState
    <3>1. Handled(i)' \subseteq Ids'
      <4>1. Handled(i) \subseteq Ids /\ Ids' = Ids BY <1>0, <2>1 DEF RunsState, Ids
      <4>2. CASE i = o BY <2>3, <4>1, <4>2
      <4>3. CASE i # o BY <2>4, <4>1, <4>3
      <4> QED BY <4>2, <4>3
    <3> QED BY <1>0, <2>5, <3>1 DEF RunsState
  <2>8. pager' \in [run : Nat, from : 0..(Len(market') + 1)] BY <1>0, <2>1 DEF NoPager
  <2>9. cursor' \in [last : 0..Len(market), at : 0..now]
    <3>1. CASE AbandonSegment BY <1>0, <3>1 DEF AbandonSegment
    <3>2. CASE FinishSegment
      <4>1. cursor' = Saved(lane[o]) BY <2>0, <3>2 DEF FinishSegment
      <4>2. CASE lane[o].rows = <<>> BY <1>0, <4>1, <4>2 DEF Saved
      <4>3. CASE lane[o].rows # <<>>
        <5> DEFINE R == ToSet(lane[o].rows)
        <5>1. R \subseteq Ids BY <1>0, <2>1 DEF RunsState, Handled
        <5>2. Ids = 1..Len(market) BY <1>0 DEF Ids
        <5>3. 1 \in DOMAIN lane[o].rows BY <2>2, <4>3
        <5>4. R # {} BY <5>3 DEF ToSet
        <5> HIDE DEF R
        <5>5. Max(R) \in R
          <6>1. R \in SUBSET Nat /\ \A x \in R : x <= Len(market) BY <1>0, <5>1, <5>2
          <6> QED BY <1>0, <5>4, <6>1, MaxOfIds
        <5>6. Max(R) \in 0..Len(market)
          <6>1. Max(R) \in Ids BY <5>1, <5>5
          <6> QED BY <1>0, <5>2, <6>1
        <5>7. cursor' = [last |-> Max(R), at |-> now] BY <4>1, <4>3 DEF Saved, WrittenTo, R
        <5>8. now \in 0..now BY <1>0
        <5> QED BY <5>6, <5>7, <5>8
      <4> QED BY <4>2, <4>3
    <3> QED BY <1>4, <3>1, <3>2
  <2> QED BY <1>0, <2>1, <2>7, <2>8, <2>9 DEF AggState
<1>5. ASSUME NEW q \in DOMAIN lane, QuarantineRun(q) PROVE AggState'
  <2>1. /\ lane' \in Seq(AggRun) /\ DOMAIN lane' = DOMAIN lane /\ Len(lane') = Len(lane)
        /\ \A j \in DOMAIN lane :
             /\ lane'[j].born = lane[j].born
             /\ lane'[j].rows = lane[j].rows /\ lane'[j].refused = lane[j].refused
             /\ lane'[j].place = lane[j].place \/ (lane'[j].place = "quarantined" /\ ~lane[j].open)
        /\ UNCHANGED <<now, market, cursor, pager, fetched>>
    BY <1>5, QuarantineIs
  <2>2. \A j \in DOMAIN lane : lane'[j].open = lane[j].open BY <1>5, QuarantineIs
  <2>3. Paging' = Paging /\ Ids' = Ids BY <2>1 DEF Paging, Ids
  <2>4. \A j \in DOMAIN lane : Handled(j)' = Handled(j) BY <2>1 DEF Handled
  <2>5. RunsState'
    <3> SUFFICES ASSUME NEW i \in DOMAIN lane
                 PROVE  /\ Handled(i)' \subseteq Ids
                        /\ lane'[i].open <=> Paging /\ i = pager.run
                        /\ lane'[i].open => lane'[i].place = "raw"
                        /\ lane'[i].born <= now
                        /\ \A j \in DOMAIN lane : i < j => lane'[i].born <= lane'[j].born
      BY <2>1, <2>3 DEF RunsState
    <3>1. lane'[i].open <=> lane[i].open BY <2>2
    <3>2. /\ Handled(i)' \subseteq Ids /\ lane'[i].born <= now
          /\ \A j \in DOMAIN lane : i < j => lane'[i].born <= lane'[j].born
      BY <1>0, <2>1, <2>4 DEF RunsState
    <3>3. lane'[i].open => lane'[i].place = "raw" BY <1>0, <2>1, <3>1 DEF RunsState
    <3> QED BY <1>0, <3>1, <3>2, <3>3 DEF RunsState
  <2> QED BY <1>0, <2>1, <2>3, <2>5 DEF AggState
<1>6. CASE BeginSegment
  <2>0. PICK n : n = Len(lane) + 1 OBVIOUS
  <2>1. /\ ~Paging /\ Paging' /\ n \in Nat /\ n > 0 /\ DOMAIN lane = 1..Len(lane) /\ Len(lane) \in Nat
        /\ lane' \in Seq(AggRun) /\ DOMAIN lane' = 1..n /\ Len(lane') = n
        /\ \A i \in DOMAIN lane : lane'[i] = lane[i] /\ i # n
        /\ lane'[n] = [born |-> now, from |-> ResumeFrom, rows |-> <<>>, refused |-> {},
                       reset |-> StaleCursor, blind |-> cursor = NoCursor,
                       place |-> "raw", open |-> TRUE]
        /\ pager' = [run |-> n, from |-> ResumeFrom]
        /\ fetched = <<>>
        /\ UNCHANGED <<now, market, cursor, fetched>>
    BY <1>6, <2>0, BeginIs
  <2>2. pager' \in [run : Nat, from : 0..(Len(market') + 1)] BY <2>1, ResumeIs
  <2>3. /\ lane'[n].born = now /\ lane'[n].rows = <<>> /\ lane'[n].refused = {}
        /\ lane'[n].place = "raw" /\ lane'[n].open
    BY <2>1
  <2>4. Handled(n)' = {}
    <3>1. ToSet(<<>>) = {} BY DEF ToSet
    <3> QED BY <2>3, <3>1 DEF Handled
  <2>5. \A i \in DOMAIN lane : Handled(i)' = Handled(i) BY <2>1 DEF Handled
  <2>6. Ids' = Ids BY <2>1 DEF Ids
  <2>7. pager'.run = n BY <2>1
  <2>8. \A i \in DOMAIN lane' : i \in DOMAIN lane \/ i = n
    <3>1. \A i \in 1..n : i \in 1..Len(lane) \/ i = n BY <2>0, <2>1
    <3> QED BY <2>1, <3>1
  <2>9. \A i \in DOMAIN lane : ~lane'[i].open /\ lane'[i].born <= now /\ lane'[i].born = lane[i].born
    BY <1>0, <2>1 DEF RunsState
  <2>10. RunsState'
    <3> SUFFICES ASSUME NEW i \in DOMAIN lane'
                 PROVE  /\ Handled(i)' \subseteq Ids
                        /\ lane'[i].open <=> i = n
                        /\ lane'[i].open => lane'[i].place = "raw"
                        /\ lane'[i].born <= now
                        /\ \A j \in DOMAIN lane' : i < j => lane'[i].born <= lane'[j].born
      BY <2>1, <2>6, <2>7 DEF RunsState
    <3>1. CASE i = n
      <4>1. \A j \in DOMAIN lane' : ~(i < j) BY <2>1, <3>1
      <4> QED BY <1>0, <2>3, <2>4, <3>1, <4>1
    <3>2. CASE i \in DOMAIN lane
      <4>1. Handled(i)' \subseteq Ids BY <1>0, <2>5, <3>2 DEF RunsState
      <4>2. ~lane'[i].open /\ i # n BY <2>1, <2>9, <3>2
      <4>3. \A j \in DOMAIN lane' : i < j => lane'[i].born <= lane'[j].born
        <5> SUFFICES ASSUME NEW j \in DOMAIN lane', i < j PROVE lane'[i].born <= lane'[j].born
          OBVIOUS
        <5>1. CASE j = n BY <2>3, <2>9, <3>2, <5>1
        <5>2. CASE j \in DOMAIN lane BY <1>0, <2>9, <3>2, <5>2 DEF RunsState
        <5> QED BY <2>8, <5>1, <5>2
      <4> QED BY <2>9, <3>2, <4>1, <4>2, <4>3
    <3> QED BY <2>8, <3>1, <3>2
  <2> QED BY <1>0, <2>1, <2>2, <2>7, <2>10 DEF AggState
<1> QED BY <1>1, <1>2, <1>3, <1>4, <1>5, <1>6 DEF AggNext

\* The next id, written or refused, leaves no gap.
LEMMA GaplessWith ==
    ASSUME NEW r, NEW s, r.rows \in Seq(Nat), r.refused \in SUBSET Nat, Gapless(r), NEW h \in Nat,
           \A x \in ToSet(r.rows) : x < h,
           \A x \in ToSet(r.rows) : \A id \in x..(h - 1) : id \in ToSet(r.rows) \cup r.refused,
           \/ s.rows = Append(r.rows, h) /\ s.refused = r.refused
           \/ s.rows = r.rows /\ s.refused = r.refused \cup {h}
    PROVE  Gapless(s)
<1>1. CASE s.rows = r.rows /\ s.refused = r.refused \cup {h} BY <1>1 DEF Gapless
<1>2. CASE s.rows = Append(r.rows, h) /\ s.refused = r.refused
  <2>1. PICK p, q \in Seq(Nat) : p = s.rows /\ q = r.rows
    <3>1. Append(r.rows, h) \in Seq(Nat) BY RowsAppended
    <3> QED BY <1>2, <3>1
  <2>2. /\ DOMAIN p = 1..(Len(q) + 1) /\ DOMAIN q = 1..Len(q) /\ Len(q) \in Nat
        /\ \A k \in DOMAIN q : p[k] = q[k]
        /\ p[Len(q) + 1] = h /\ ToSet(p) = ToSet(q) \cup {h}
    BY <1>2, <2>1, RowsAppended
  <2>3. /\ \A x \in ToSet(q) : x < h
        /\ \A x \in ToSet(q) : \A id \in x..(h - 1) : id \in ToSet(q) \cup r.refused
        /\ \A a, b \in DOMAIN q : a < b => q[a] < q[b]
        /\ \A x, y \in ToSet(q) : \A id \in x..y : id \in ToSet(q) \cup r.refused
    BY <2>1 DEF Gapless
  <2>4. ToSet(q) \in SUBSET Nat
    <3>1. \A k \in DOMAIN q : q[k] \in Nat BY <2>2
    <3> QED BY <3>1 DEF ToSet
  <2>5. ASSUME NEW a \in DOMAIN p, NEW b \in DOMAIN p, a < b PROVE p[a] < p[b]
    <3>1. a \in DOMAIN q BY <2>2, <2>5
    <3>2. CASE b \in DOMAIN q BY <2>2, <2>3, <2>5, <3>1, <3>2
    <3>3. CASE b = Len(q) + 1
      <4>1. q[a] \in ToSet(q) BY <3>1 DEF ToSet
      <4> QED BY <2>2, <2>3, <3>1, <3>3, <4>1
    <3> QED BY <2>2, <3>2, <3>3
  <2>6. ASSUME NEW x \in ToSet(p), NEW y \in ToSet(p), NEW id \in x..y
        PROVE  id \in ToSet(p) \cup r.refused
    <3>0. x \in Nat /\ y \in Nat /\ id \in Int /\ x <= id /\ id <= y BY <2>2, <2>4
    <3>1. CASE x = h
      <4>1. id = h BY <2>2, <2>3, <3>0, <3>1
      <4> QED BY <2>2, <4>1
    <3>2. CASE x # h /\ y = h /\ id # h
      <4>1. x \in ToSet(q) /\ id \in x..(h - 1) BY <2>2, <3>0, <3>2
      <4> QED BY <2>2, <2>3, <4>1
    <3>3. CASE x # h /\ y # h
      <4>1. x \in ToSet(q) /\ y \in ToSet(q) BY <2>2, <3>3
      <4> QED BY <2>2, <2>3, <4>1
    <3>4. CASE id = h BY <2>2, <3>4
    <3> QED BY <3>1, <3>2, <3>3, <3>4
  <2> QED BY <1>2, <2>1, <2>5, <2>6 DEF Gapless
<1> QED BY <1>1, <1>2

\* Nor does the loss of the last row.
LEMMA GaplessCut ==
    ASSUME NEW r, NEW s, r.rows \in Seq(Nat), Gapless(r), s.refused = r.refused,
           NEW lost \in 0..1, lost <= Len(r.rows), s.rows = SubSeq(r.rows, 1, Len(r.rows) - lost)
    PROVE  Gapless(s)
<1>1. PICK p, q \in Seq(Nat) : p = s.rows /\ q = r.rows BY RowsCut
<1>2. /\ DOMAIN p = 1..(Len(q) - lost) /\ DOMAIN p \subseteq DOMAIN q /\ DOMAIN q = 1..Len(q)
      /\ Len(q) \in Nat /\ \A k \in DOMAIN p : p[k] = q[k]
      /\ ToSet(p) \subseteq ToSet(q)
  BY <1>1, RowsCut
<1>3. /\ \A a, b \in DOMAIN q : a < b => q[a] < q[b]
      /\ \A x, y \in ToSet(q) : \A id \in x..y : id \in ToSet(q) \cup r.refused
  BY <1>1 DEF Gapless
<1>4. \A a, b \in DOMAIN p : a < b => p[a] < p[b] BY <1>2, <1>3
<1>5. ASSUME NEW x \in ToSet(p), NEW y \in ToSet(p), NEW id \in x..y
      PROVE  id \in ToSet(p) \cup r.refused
  <2>1. CASE id \in ToSet(q)
    <3>1. PICK k \in DOMAIN p : y = p[k] BY DEF ToSet
    <3>2. PICK m \in DOMAIN q : id = q[m] BY <2>1 DEF ToSet
    <3>3. k \in Int /\ m \in Int /\ k \in DOMAIN q /\ y = q[k] BY <1>2, <3>1
    <3>4. q[k] \in Nat /\ q[m] \in Nat
      <4>1. \A j \in 1..Len(q) : q[j] \in Nat BY <1>1
      <4> QED BY <1>2, <3>2, <3>3, <4>1
    <3>5. id <= y BY <3>2, <3>3, <3>4
    <3>6. m <= k
      <4> SUFFICES ASSUME k < m PROVE FALSE BY <3>3
      <4>1. q[k] < q[m] BY <1>3, <3>2, <3>3
      <4> QED BY <3>2, <3>3, <3>4, <3>5, <4>1
    <3>7. m \in DOMAIN p BY <1>2, <3>1, <3>2, <3>3, <3>6
    <3> QED BY <1>2, <3>2, <3>7 DEF ToSet
  <2>2. CASE id \in r.refused BY <2>2
  <2>3. x \in ToSet(q) /\ y \in ToSet(q) BY <1>2
  <2> QED BY <1>3, <2>1, <2>2, <2>3
<1> QED BY <1>1, <1>4, <1>5 DEF Gapless

\* A run that keeps its rows and what it refused.
LEMMA GaplessSame ==
    ASSUME NEW r, NEW s, Gapless(r), s.rows = r.rows, s.refused = r.refused PROVE Gapless(s)
BY DEF Gapless

\* Every step keeps the pages in order.
LEMMA PageKept == ASSUME AggState, PageInv, AggNext PROVE PageInv'
<1>0. /\ Len(market) \in Nat /\ lane \in Seq(AggRun)
      /\ pager \in [run : Nat, from : 0..(Len(market) + 1)]
      /\ Paging => pager.run = Len(lane) /\ Len(lane) > 0
      /\ \A i \in DOMAIN lane : Gapless(lane[i])
  BY DEF AggState, PageInv
<1>1. CASE Trade \/ TimePasses
  <2>1. /\ UNCHANGED <<lane, pager, fetched>> /\ NextId' = NextId /\ (Paging' <=> Paging)
        /\ Len(market') \in Nat /\ Len(market) <= Len(market')
    BY <1>1, Quiets
  <2>2. \A i : Handled(i)' = Handled(i) BY <2>1 DEF Handled
  <2>3. Paging => NextId' \in 0..(Len(market') + 1)
    <3>1. Paging => NextId \in 0..(Len(market) + 1) BY DEF PageInv
    <3> QED BY <1>0, <2>1, <3>1
  <2> QED BY <2>1, <2>2, <2>3 DEF PageInv
<1>2. CASE AggPoll
  <2>1. /\ Paging /\ Paging' /\ pager'.run = pager.run /\ fetched = <<>>
        /\ Anchor \in Nat /\ Anchor > 0 /\ (pager.from # 0 => Anchor = pager.from)
        /\ NextId' = Anchor
        /\ \A k \in DOMAIN fetched' : fetched'[k] = Anchor + k - 1
        /\ pager' \in [run : Nat, from : 0..(Len(market) + 1)] /\ pager'.from > 0 /\ Anchor <= pager'.from
        /\ UNCHANGED <<market, lane>>
    BY <1>2, PollIs
  <2>2. NextId = pager.from
    <3>1. Len(<<>>) = 0 OBVIOUS
    <3> QED BY <1>0, <2>1, <3>1 DEF NextId
  <2>3. NextId' = NextId \/ (Handled(pager.run) = {} /\ ToSet(lane[pager.run].rows) = {})
    <3>1. CASE pager.from # 0 BY <2>1, <2>2, <3>1
    <3>2. CASE pager.from = 0
      <4>1. \A id \in Handled(pager.run) : id < 0 BY <2>1, <2>2, <3>2 DEF PageInv
      <4>2. pager.run \in DOMAIN lane BY <1>0, <2>1
      <4>3. \A id \in Handled(pager.run) : id \in Nat BY <4>2, <1>0 DEF AggState, RunsState, Ids
      <4>4. Handled(pager.run) = {}
        <5>1. \A id \in Handled(pager.run) : FALSE BY <4>1, <4>3
        <5> QED BY <5>1
      <4> QED BY <4>4 DEF Handled
    <3> QED BY <3>1, <3>2
  <2>4. Handled(pager.run)' = Handled(pager.run) BY <2>1 DEF Handled
  <2>5. /\ NextId' \in 0..(Len(market') + 1) /\ NextId' # 0
    <3>1. PICK f : f = pager'.from OBVIOUS
    <3>2. f \in 0..(Len(market) + 1) BY <2>1, <3>1
    <3> QED BY <1>0, <2>1, <3>1, <3>2
  <2>6. \A id \in Handled(pager.run) : id < NextId' BY <2>1, <2>3 DEF PageInv
  <2>7. \A x \in ToSet(lane[pager.run].rows) : \A id \in x..(NextId' - 1) : id \in Handled(pager.run)
    BY <2>1, <2>3 DEF PageInv
  <2> QED BY <1>0, <2>1, <2>4, <2>5, <2>6, <2>7 DEF PageInv
<1>3. CASE AggDeliver
  <2>0. PICK o, h : o = pager.run /\ h = Head(fetched) OBVIOUS
  <2>1. /\ Paging /\ o \in DOMAIN lane /\ h = NextId /\ h \in Ids /\ h \in Nat
        /\ lane' \in Seq(AggRun) /\ DOMAIN lane' = DOMAIN lane
        /\ \A i \in DOMAIN lane : i # o => lane'[i] = lane[i]
        /\ \/ lane'[o].rows = Append(lane[o].rows, h) /\ lane'[o].refused = lane[o].refused
           \/ lane'[o].rows = lane[o].rows /\ lane'[o].refused = lane[o].refused \cup {h}
        /\ \A k \in DOMAIN fetched' : k \in Nat /\ k + 1 \in DOMAIN fetched /\ fetched'[k] = fetched[k + 1]
        /\ NextId' = NextId + 1
        /\ UNCHANGED <<market, pager>>
    BY <1>3, <2>0, DeliverIs
  <2>2. lane[o].rows \in Seq(Nat) /\ lane[o].refused \in SUBSET Nat
    <3>1. lane[o] \in AggRun BY <1>0, <2>1
    <3> QED BY <3>1 DEF AggRun
  <2>3. /\ \A k \in DOMAIN fetched : fetched[k] = NextId + k - 1
        /\ \A id \in Handled(o) : id < NextId
        /\ \A x \in ToSet(lane[o].rows) : \A id \in x..(NextId - 1) : id \in Handled(o)
    BY <2>0, <2>1 DEF PageInv
  <2>4. Paging' BY <2>1 DEF Paging
  <2>5. h > 0 /\ h <= Len(market) BY <1>0, <2>1 DEF AggState, Ids
  <2>6. Gapless(lane'[o])
    <3>1. \A x \in ToSet(lane[o].rows) : x < h BY <2>1, <2>3 DEF Handled
    <3>2. \A x \in ToSet(lane[o].rows) : \A id \in x..(h - 1) : id \in ToSet(lane[o].rows) \cup lane[o].refused
      BY <2>1, <2>3 DEF Handled
    <3>3. Gapless(lane[o]) BY <1>0, <2>1
    <3>4. PICK r, s : r = lane[o] /\ s = lane'[o] OBVIOUS
    <3> QED BY <2>1, <2>2, <3>1, <3>2, <3>3, <3>4, GaplessWith
  <2>7. \A i \in DOMAIN lane' : Gapless(lane'[i]) BY <1>0, <2>1, <2>6
  <2>8. NextId' \in 0..(Len(market') + 1) /\ NextId' # 0 BY <1>0, <2>1, <2>5
  <2>9. ASSUME NEW k \in DOMAIN fetched' PROVE fetched'[k] = NextId' + k - 1
    <3>1. k \in Nat /\ k + 1 \in DOMAIN fetched /\ fetched'[k] = fetched[k + 1] BY <2>1
    <3>2. fetched[k + 1] = NextId + (k + 1) - 1 BY <2>3, <3>1
    <3> QED BY <2>1, <3>1, <3>2
  <2>10. /\ Handled(o)' = Handled(o) \cup {h}
         /\ ToSet(lane'[o].rows) \subseteq ToSet(lane[o].rows) \cup {h}
    <3>1. PICK s \in Seq(Nat) : s = lane[o].rows BY <2>2
    <3>2. ToSet(Append(s, h)) = ToSet(s) \cup {h} BY <2>1, RowsAppended
    <3> QED BY <2>1, <3>1, <3>2 DEF Handled
  <2>11. \A id \in Handled(o) : id \in Int BY <1>0, <2>1 DEF AggState, RunsState, Ids
  <2>12. \A id \in Handled(o)' : id < NextId' BY <2>1, <2>3, <2>10, <2>11
  <2>13. ASSUME NEW x \in ToSet(lane'[o].rows), NEW id \in x..(NextId' - 1) PROVE id \in Handled(o)'
    <3>1. x \in Int
      <4>1. ToSet(lane[o].rows) \subseteq Handled(o) BY DEF Handled
      <4> QED BY <2>1, <2>10, <2>11, <4>1
    <3>2. CASE id = h BY <2>10, <3>2
    <3>3. CASE id # h
      <4>1. id \in x..(NextId - 1) /\ x # h BY <2>1, <3>1, <3>3
      <4> QED BY <2>3, <2>10, <4>1
    <3> QED BY <3>2, <3>3
  <2> QED BY <2>0, <2>1, <2>4, <2>7, <2>8, <2>9, <2>12, <2>13 DEF PageInv
<1>4. CASE FinishSegment \/ AbandonSegment
  <2>0. PICK o : o = pager.run OBVIOUS
  <2>1. /\ o \in DOMAIN lane /\ DOMAIN lane' = DOMAIN lane
        /\ \A i \in DOMAIN lane : i # o => lane'[i] = lane[i]
        /\ lane'[o].refused = lane[o].refused
        /\ ~Paging'
    BY <1>4, <2>0, EndIs
  <2>2. PICK lost \in 0..1 : /\ lost <= Len(lane[o].rows)
                             /\ lane'[o].rows = SubSeq(lane[o].rows, 1, Len(lane[o].rows) - lost)
    BY <1>4, <2>0, EndIs
  <2>3. lane[o].rows \in Seq(Nat)
    <3>1. lane[o] \in AggRun BY <1>0, <2>1
    <3> QED BY <3>1 DEF AggRun
  <2>4. PICK r, s : r = lane[o] /\ s = lane'[o] OBVIOUS
  <2>5. Gapless(s) BY <1>0, <2>1, <2>2, <2>3, <2>4, GaplessCut
  <2> QED BY <1>0, <2>1, <2>4, <2>5 DEF PageInv
<1>5. ASSUME NEW q \in DOMAIN lane, QuarantineRun(q) PROVE PageInv'
  <2>1. /\ DOMAIN lane' = DOMAIN lane
        /\ \A j \in DOMAIN lane : lane'[j].rows = lane[j].rows /\ lane'[j].refused = lane[j].refused
        /\ UNCHANGED <<market, pager, fetched>>
    BY <1>5, QuarantineIs
  <2>2. \A i \in DOMAIN lane' : Gapless(lane'[i]) BY <1>0, <2>1 DEF Gapless
  <2>3. \A i \in DOMAIN lane : Handled(i)' = Handled(i) BY <2>1 DEF Handled
  <2>4. Paging' = Paging /\ NextId' = NextId BY <2>1 DEF Paging, NextId
  <2>5. Paging => pager.run \in DOMAIN lane BY <1>0
  <2> QED BY <2>1, <2>2, <2>3, <2>4, <2>5 DEF PageInv
<1>6. CASE BeginSegment
  <2>0. PICK n : n = Len(lane) + 1 OBVIOUS
  <2>1. /\ Paging' /\ n \in Nat /\ n > 0 /\ DOMAIN lane = 1..Len(lane) /\ Len(lane) \in Nat
        /\ DOMAIN lane' = 1..n
        /\ \A i \in DOMAIN lane : lane'[i] = lane[i]
        /\ lane'[n] = [born |-> now, from |-> ResumeFrom, rows |-> <<>>, refused |-> {},
                       reset |-> StaleCursor, blind |-> cursor = NoCursor,
                       place |-> "raw", open |-> TRUE]
        /\ pager' = [run |-> n, from |-> ResumeFrom]
        /\ fetched = <<>> /\ NextId' = ResumeFrom
        /\ UNCHANGED <<market, fetched>>
    BY <1>6, <2>0, BeginIs
  <2>2. ResumeFrom \in 0..(Len(market) + 1) BY ResumeIs
  <2>3. lane'[n].rows = <<>> /\ lane'[n].refused = {} /\ pager'.run = n /\ pager'.from = ResumeFrom
    BY <2>1
  <2>4. ToSet(<<>>) = {} BY DEF ToSet
  <2>5. Gapless(lane'[n])
    <3>1. DOMAIN <<>> = {} OBVIOUS
    <3> QED BY <2>3, <2>4, <3>1 DEF Gapless
  <2>6. \A i \in DOMAIN lane' : Gapless(lane'[i])
    <3>1. \A i \in 1..n : i \in 1..Len(lane) \/ i = n BY <2>0, <2>1
    <3> QED BY <1>0, <2>1, <2>5, <3>1
  <2>7. Handled(n)' = {} BY <2>3, <2>4 DEF Handled
  <2>8. DOMAIN fetched' = {} BY <2>1
  <2> QED BY <2>1, <2>2, <2>3, <2>4, <2>6, <2>7, <2>8 DEF PageInv
<1> QED BY <1>1, <1>2, <1>3, <1>4, <1>5, <1>6 DEF AggNext

\* What no step takes back from a run.
Lasting(r, s) ==
    /\ s.born = r.born /\ s.from = r.from /\ s.reset = r.reset /\ s.blind = r.blind
    /\ s.place = r.place \/ s.place = "quarantined"

\* No step changes a finished run but for its place, nor where any run began.
LEMMA RunsLast ==
    ASSUME AggState, PageInv, AggNext
    PROVE  /\ Len(lane) \in Nat /\ DOMAIN lane = 1..Len(lane) /\ DOMAIN lane \subseteq DOMAIN lane'
           /\ \A i \in DOMAIN lane : Lasting(lane[i], lane'[i])
           /\ \A i \in DOMAIN lane : i < Len(lane) => lane'[i].rows = lane[i].rows /\ lane'[i].refused = lane[i].refused
           /\ \A i \in DOMAIN lane : ~lane[i].open =>
                ~lane'[i].open /\ lane'[i].rows = lane[i].rows /\ lane'[i].refused = lane[i].refused
<1>0. lane \in Seq(AggRun) /\ Len(lane) \in Nat /\ DOMAIN lane = 1..Len(lane) BY DEF AggState
<1>1. CASE Trade \/ TimePasses
  <2>1. lane' = lane BY <1>1, Quiets
  <2> QED BY <1>0, <2>1 DEF Lasting
<1>2. CASE AggPoll
  <2>1. lane' = lane BY <1>2, PollIs
  <2> QED BY <1>0, <2>1 DEF Lasting
<1>3. CASE AggDeliver
  <2>0. PICK o : o = pager.run OBVIOUS
  <2>1. /\ Paging /\ o \in DOMAIN lane /\ o = Len(lane) /\ DOMAIN lane' = DOMAIN lane
        /\ \A i \in DOMAIN lane : i # o => lane'[i] = lane[i]
        /\ SameButRows(lane'[o], lane[o])
    BY <1>3, <2>0, DeliverIs
  <2>2. lane[o].open BY <2>0, <2>1 DEF AggState, RunsState
  <2>3. \A i \in DOMAIN lane : Lasting(lane[i], lane'[i]) BY <2>1 DEF SameButRows, Lasting
  <2>4. ASSUME NEW i \in DOMAIN lane, i < Len(lane) \/ ~lane[i].open
        PROVE  /\ lane'[i].rows = lane[i].rows /\ lane'[i].refused = lane[i].refused
               /\ ~lane[i].open => ~lane'[i].open
    <3>1. i # o BY <1>0, <2>1, <2>2, <2>4
    <3>2. lane'[i] = lane[i] BY <2>1, <3>1
    <3> QED BY <3>2
  <2> QED BY <1>0, <2>1, <2>3, <2>4
<1>4. CASE FinishSegment \/ AbandonSegment
  <2>0. PICK o : o = pager.run OBVIOUS
  <2>1. /\ Paging /\ o \in DOMAIN lane /\ o = Len(lane) /\ DOMAIN lane' = DOMAIN lane
        /\ \A i \in DOMAIN lane : i # o => lane'[i] = lane[i]
        /\ SameButRows(lane'[o], lane[o])
    BY <1>4, <2>0, EndIs
  <2>2. lane[o].open BY <2>0, <2>1 DEF AggState, RunsState
  <2>3. \A i \in DOMAIN lane : Lasting(lane[i], lane'[i]) BY <2>1 DEF SameButRows, Lasting
  <2>4. ASSUME NEW i \in DOMAIN lane, i < Len(lane) \/ ~lane[i].open
        PROVE  /\ lane'[i].rows = lane[i].rows /\ lane'[i].refused = lane[i].refused
               /\ ~lane[i].open => ~lane'[i].open
    <3>1. i # o BY <1>0, <2>1, <2>2, <2>4
    <3>2. lane'[i] = lane[i] BY <2>1, <3>1
    <3> QED BY <3>2
  <2> QED BY <1>0, <2>1, <2>3, <2>4
<1>5. ASSUME NEW q \in DOMAIN lane, QuarantineRun(q)
      PROVE  /\ DOMAIN lane' = DOMAIN lane
             /\ \A i \in DOMAIN lane :
                  /\ Lasting(lane[i], lane'[i])
                  /\ lane'[i].rows = lane[i].rows /\ lane'[i].refused = lane[i].refused
                  /\ ~lane[i].open => ~lane'[i].open
  <2>1. /\ DOMAIN lane' = DOMAIN lane
        /\ \A j \in DOMAIN lane :
             /\ lane'[j].born = lane[j].born /\ lane'[j].from = lane[j].from
             /\ lane'[j].reset = lane[j].reset /\ lane'[j].blind = lane[j].blind
             /\ lane'[j].rows = lane[j].rows /\ lane'[j].refused = lane[j].refused
             /\ lane'[j].open = lane[j].open
             /\ lane'[j].place = lane[j].place \/ (lane'[j].place = "quarantined" /\ ~lane[j].open)
    BY <1>5, QuarantineIs
  <2>2. ASSUME NEW j \in DOMAIN lane PROVE Lasting(lane[j], lane'[j])
    <3>1. /\ lane'[j].born = lane[j].born /\ lane'[j].from = lane[j].from
          /\ lane'[j].reset = lane[j].reset /\ lane'[j].blind = lane[j].blind
      BY <2>1, Zenon
    <3>2. lane'[j].place = lane[j].place \/ lane'[j].place = "quarantined" BY <2>1, Zenon
    <3> QED BY <3>1, <3>2, Zenon DEF Lasting
  <2> QED BY <2>1, <2>2, Zenon
<1>6. CASE BeginSegment
  <2>0. PICK n : n = Len(lane) + 1 OBVIOUS
  <2>1. DOMAIN lane' = 1..n /\ \A i \in DOMAIN lane : lane'[i] = lane[i] BY <1>6, <2>0, BeginIs
  <2>2. DOMAIN lane \subseteq DOMAIN lane' BY <1>0, <2>0, <2>1
  <2> QED BY <1>0, <2>1, <2>2 DEF Lasting
<1>7. CASE \E q \in DOMAIN lane : QuarantineRun(q) BY <1>0, <1>5, <1>7
<1> QED BY <1>1, <1>2, <1>3, <1>4, <1>6, <1>7 DEF AggNext

\* What is out of reach stays so.
LEMMA OutLasts ==
    ASSUME NEW i, NEW j, Lasting(lane[i], lane'[i]), Lasting(lane[j], lane'[j])
    PROVE  OutOfReach(i, j) => OutOfReach(i, j)'
BY DEF Lasting, OutOfReach

\* Every step keeps the new runs behind those they can see.
LEMMA ReachKept == ASSUME AggState, PageInv, ReachInv, AggNext PROVE ReachInv'
<1>0. /\ lane \in Seq(AggRun) /\ Len(lane) \in Nat /\ DOMAIN lane = 1..Len(lane)
      /\ pager \in [run : Nat, from : 0..(Len(market) + 1)] /\ Len(market) \in Nat
      /\ Paging => pager.run = Len(lane) /\ Len(lane) > 0
      /\ Paging => pager.run \in DOMAIN lane
      /\ \A i \in DOMAIN lane : Lasting(lane[i], lane'[i])
      /\ \A i, j \in DOMAIN lane : OutOfReach(i, j) => OutOfReach(i, j)'
  <2>1. lane \in Seq(AggRun) /\ pager \in [run : Nat, from : 0..(Len(market) + 1)] /\ Len(market) \in Nat
        /\ (Paging => pager.run = Len(lane) /\ Len(lane) > 0)
    BY DEF AggState
  <2>2. Paging => pager.run \in DOMAIN lane BY <2>1
  <2> QED BY <2>1, <2>2, RunsLast, OutLasts
<1>00. \A i \in DOMAIN lane : \A x \in ToSet(lane[i].rows) : x \in Nat /\ x > 0
  <2>1. \A i \in DOMAIN lane : ToSet(lane[i].rows) \subseteq Ids BY DEF AggState, RunsState, Handled
  <2>2. \A x \in Ids : x \in Nat /\ x > 0 BY <1>0 DEF Ids, AggState
  <2> QED BY <2>1, <2>2
<1>1. CASE Trade \/ TimePasses
  <2>1. UNCHANGED <<lane, pager, fetched>> /\ NextId' = NextId /\ (Paging' <=> Paging) BY <1>1, Quiets
  <2>2. \A i, j : OutOfReach(i, j)' <=> OutOfReach(i, j) BY <2>1 DEF OutOfReach
  <2> QED BY <2>1, <2>2 DEF ReachInv
<1>2. CASE AggPoll
  <2>1. /\ Paging /\ Paging' /\ pager'.run = pager.run /\ fetched = <<>>
        /\ Anchor \in Nat /\ (pager.from # 0 => Anchor = pager.from)
        /\ NextId' = Anchor /\ UNCHANGED <<market, lane>>
    BY <1>2, PollIs
  <2>2. NextId = pager.from
    <3>1. Len(<<>>) = 0 OBVIOUS
    <3> QED BY <1>0, <2>1, <3>1 DEF NextId
  <2>3. \A i, j : OutOfReach(i, j)' <=> OutOfReach(i, j) BY <2>1 DEF OutOfReach
  <2>4. ASSUME NEW i \in DOMAIN lane, i < pager.run, ~OutOfReach(i, pager.run),
               NEW x \in ToSet(lane[i].rows)
        PROVE  x < NextId'
    <3>1. x < NextId BY <2>1, <2>4 DEF ReachInv
    <3>2. pager.from # 0 BY <1>00, <2>2, <3>1
    <3> QED BY <2>1, <2>2, <3>1, <3>2
  <2> QED BY <2>1, <2>3, <2>4 DEF ReachInv
<1>3. CASE AggDeliver
  <2>0. PICK o, h : o = pager.run /\ h = Head(fetched) OBVIOUS
  <2>1. /\ Paging /\ o \in DOMAIN lane /\ o = Len(lane) /\ h = NextId /\ h \in Ids /\ h \in Nat
        /\ DOMAIN lane' = DOMAIN lane
        /\ \A i \in DOMAIN lane : i # o => lane'[i] = lane[i]
        /\ \/ lane'[o].rows = Append(lane[o].rows, h) /\ lane'[o].refused = lane[o].refused
           \/ lane'[o].rows = lane[o].rows /\ lane'[o].refused = lane[o].refused \cup {h}
        /\ NextId' = NextId + 1
        /\ UNCHANGED <<market, pager>>
    BY <1>3, <2>0, DeliverIs
  <2>2. ToSet(lane'[o].rows) \subseteq ToSet(lane[o].rows) \cup {h}
    <3>1. lane[o] \in AggRun BY <1>0, <2>1
    <3>2. lane[o].rows \in Seq(Nat) BY <3>1 DEF AggRun
    <3>3. PICK s \in Seq(Nat) : s = lane[o].rows BY <3>2
    <3>4. ToSet(Append(s, h)) = ToSet(s) \cup {h} BY <2>1, RowsAppended
    <3> QED BY <2>1, <3>3, <3>4
  <2>3. ASSUME NEW i \in DOMAIN lane, NEW j \in DOMAIN lane, i < j, ~OutOfReach(i, j)'
        PROVE  \A x \in ToSet(lane'[i].rows), y \in ToSet(lane'[j].rows) : x < y
    <3>1. ~OutOfReach(i, j) /\ lane'[i] = lane[i] BY <1>0, <2>1, <2>3
    <3>2. \A x \in ToSet(lane[i].rows), y \in ToSet(lane[j].rows) : x < y BY <2>3, <3>1 DEF ReachInv
    <3>3. CASE j # o BY <2>1, <3>1, <3>2, <3>3
    <3>4. CASE j = o
      <4>1. \A x \in ToSet(lane[i].rows) : x < h BY <2>0, <2>1, <2>3, <3>1, <3>4 DEF ReachInv
      <4> QED BY <2>2, <3>1, <3>2, <3>4, <4>1
    <3> QED BY <3>3, <3>4
  <2>4. ASSUME NEW i \in DOMAIN lane, i < o, ~OutOfReach(i, o)', NEW x \in ToSet(lane'[i].rows)
        PROVE  x < NextId'
    <3>1. ~OutOfReach(i, o) /\ lane'[i] = lane[i] BY <1>0, <2>1, <2>4
    <3>2. x < NextId /\ x \in Nat BY <1>00, <2>0, <2>1, <2>4, <3>1 DEF ReachInv
    <3> QED BY <2>1, <3>2
  <2> QED BY <2>0, <2>1, <2>3, <2>4 DEF ReachInv
<1>4. CASE FinishSegment \/ AbandonSegment
  <2>0. PICK o : o = pager.run OBVIOUS
  <2>1. /\ o \in DOMAIN lane /\ DOMAIN lane' = DOMAIN lane
        /\ \A i \in DOMAIN lane : i # o => lane'[i] = lane[i]
        /\ ~Paging'
    BY <1>4, <2>0, EndIs
  <2>2. ToSet(lane'[o].rows) \subseteq ToSet(lane[o].rows)
    <3>1. lane[o] \in AggRun BY <1>0, <2>1
    <3>2. lane[o].rows \in Seq(Nat) BY <3>1 DEF AggRun
    <3>3. PICK lost \in 0..1 : /\ lost <= Len(lane[o].rows)
                               /\ lane'[o].rows = SubSeq(lane[o].rows, 1, Len(lane[o].rows) - lost)
      BY <1>4, <2>0, EndIs
    <3> QED BY <3>2, <3>3, RowsCut
  <2>3. \A i \in DOMAIN lane : ToSet(lane'[i].rows) \subseteq ToSet(lane[i].rows) BY <2>1, <2>2
  <2>4. ASSUME NEW i \in DOMAIN lane, NEW j \in DOMAIN lane, i < j, ~OutOfReach(i, j)'
        PROVE  \A x \in ToSet(lane'[i].rows), y \in ToSet(lane'[j].rows) : x < y
    <3>1. ~OutOfReach(i, j) BY <1>0, <2>4
    <3>2. \A x \in ToSet(lane[i].rows), y \in ToSet(lane[j].rows) : x < y BY <2>4, <3>1 DEF ReachInv
    <3> QED BY <2>3, <3>2
  <2> QED BY <2>1, <2>4 DEF ReachInv
<1>5. ASSUME NEW q \in DOMAIN lane, QuarantineRun(q) PROVE ReachInv'
  <2>1. /\ DOMAIN lane' = DOMAIN lane
        /\ \A j \in DOMAIN lane : lane'[j].rows = lane[j].rows
        /\ UNCHANGED <<market, pager, fetched>>
    BY <1>5, QuarantineIs
  <2>2. Paging' = Paging /\ NextId' = NextId BY <2>1 DEF Paging, NextId
  <2>3. ASSUME NEW i \in DOMAIN lane, NEW j \in DOMAIN lane, i < j, ~OutOfReach(i, j)'
        PROVE  \A x \in ToSet(lane'[i].rows), y \in ToSet(lane'[j].rows) : x < y
    <3>1. ~OutOfReach(i, j) BY <1>0, <2>3
    <3>2. \A x \in ToSet(lane[i].rows), y \in ToSet(lane[j].rows) : x < y BY <2>3, <3>1 DEF ReachInv
    <3> QED BY <2>1, <3>2
  <2>4. ASSUME Paging, NEW i \in DOMAIN lane, i < pager.run, ~OutOfReach(i, pager.run)',
               NEW x \in ToSet(lane'[i].rows)
        PROVE  x < NextId
    <3>1. ~OutOfReach(i, pager.run)
      <4>1. PICK o \in DOMAIN lane : o = pager.run BY <1>0, <2>4
      <4>2. ~OutOfReach(i, o)' BY <2>1, <2>4, <4>1 DEF OutOfReach
      <4> QED BY <1>0, <4>1, <4>2
    <3> QED BY <2>1, <2>4, <3>1 DEF ReachInv
  <2> QED BY <2>1, <2>2, <2>3, <2>4 DEF ReachInv
<1>6. CASE BeginSegment
  <2>0. PICK n : n = Len(lane) + 1 OBVIOUS
  <2>1. /\ n \in Nat /\ n > 0 /\ DOMAIN lane' = 1..n
        /\ \A i \in DOMAIN lane : lane'[i] = lane[i] /\ i # n
        /\ lane'[n] = [born |-> now, from |-> ResumeFrom, rows |-> <<>>, refused |-> {},
                       reset |-> StaleCursor, blind |-> cursor = NoCursor,
                       place |-> "raw", open |-> TRUE]
        /\ pager' = [run |-> n, from |-> ResumeFrom]
        /\ NextId' = ResumeFrom
    BY <1>6, <2>0, BeginIs
  <2>2. lane'[n].rows = <<>> /\ lane'[n].born = now /\ pager'.run = n BY <2>1
  <2>3. ToSet(lane'[n].rows) = {} BY <2>2 DEF ToSet
  <2>4. \A i \in DOMAIN lane' : i \in DOMAIN lane \/ i = n
    <3>1. \A i \in 1..n : i \in 1..Len(lane) \/ i = n BY <1>0, <2>0
    <3> QED BY <1>0, <2>1, <3>1
  <2>5. ASSUME NEW i \in DOMAIN lane', NEW j \in DOMAIN lane', i < j, ~OutOfReach(i, j)'
        PROVE  \A x \in ToSet(lane'[i].rows), y \in ToSet(lane'[j].rows) : x < y
    <3>1. CASE j = n BY <2>3, <3>1
    <3>2. CASE j \in DOMAIN lane
      <4>1. i \in DOMAIN lane BY <1>0, <2>0, <2>1, <2>5, <3>2
      <4>2. ~OutOfReach(i, j) BY <1>0, <2>5, <3>2, <4>1
      <4> QED BY <2>1, <2>5, <3>2, <4>1, <4>2 DEF ReachInv
    <3> QED BY <2>4, <3>1, <3>2
  <2>6. ASSUME NEW i \in DOMAIN lane, ~OutOfReach(i, n)', NEW x \in ToSet(lane[i].rows)
        PROVE  x < ResumeFrom
    <3>1. /\ lane[i].place # "quarantined" /\ ~(now - lane[i].born > MaxResumeGap)
      BY <2>1, <2>2, <2>6 DEF OutOfReach
    <3>2. \A k \in DOMAIN lane : lane[k].place \in {"raw", "quarantined"} /\ lane[k].born \in Nat
      <4>1. \A k \in DOMAIN lane : lane[k] \in AggRun BY <1>0
      <4> QED BY <4>1 DEF AggRun
    <3>3. now \in Nat /\ MaxResumeGap \in Nat /\ \A k \in DOMAIN lane : lane[k].born <= now
      BY AggCursorAssumption DEF AggState, RunsState
    <3>4. i \in Scanned
      <4>1. lane[i].place = "raw" BY <3>1, <3>2
      <4>2. now - lane[i].born <= MaxResumeGap BY <3>1, <3>2, <3>3
      <4> QED BY <4>1, <4>2 DEF Scanned
    <3>5. lane[i].rows # <<>>
      <4>1. PICK k \in DOMAIN lane[i].rows : x = lane[i].rows[k] BY <2>6 DEF ToSet
      <4> QED BY <4>1
    <3>6. DiskHigh # 0 BY <3>4, <3>5, DiskHighIs
    <3>7. PICK m \in Scanned : /\ DiskHigh \in ToSet(lane[m].rows)
                               /\ \A y \in ToSet(lane[m].rows) : y <= DiskHigh
                               /\ \A k \in Scanned : k > m => lane[k].rows = <<>>
      BY <3>6, DiskHighIs
    <3>8. m \in DOMAIN lane /\ m \in Nat /\ i \in Nat BY <1>0, <3>7 DEF Scanned
    <3>9. i <= m BY <3>4, <3>5, <3>7, <3>8
    <3>10. x <= DiskHigh
      <4>1. CASE i = m BY <3>7, <4>1, <2>6
      <4>2. CASE i < m
        <5>1. lane[i].born <= lane[m].born /\ lane[m].born <= now BY <3>3, <3>8, <4>2 DEF AggState, RunsState
        <5>2. ~(lane[m].born - lane[i].born > MaxResumeGap) BY <3>1, <3>2, <3>3, <3>8, <5>1
        <5>3. ~OutOfReach(i, m) BY <3>1, <5>2 DEF OutOfReach
        <5>4. x < DiskHigh BY <2>6, <3>7, <3>8, <4>2, <5>3 DEF ReachInv
        <5>5. x \in Nat /\ DiskHigh \in Nat BY <1>00, <2>6, DiskHighIs
        <5> QED BY <5>4, <5>5
      <4> QED BY <3>8, <3>9, <4>1, <4>2
    <3>11. DiskHigh < ResumeFrom /\ ResumeFrom \in Nat /\ DiskHigh \in Nat
      BY <1>0, <3>6, ResumeIs, DiskHighIs
    <3>12. x \in Nat BY <1>00, <2>6
    <3> QED BY <3>10, <3>11, <3>12
  <2>7. ASSUME NEW i \in DOMAIN lane', i < n, ~OutOfReach(i, n)', NEW x \in ToSet(lane'[i].rows)
        PROVE  x < NextId'
    <3>1. i \in DOMAIN lane BY <1>0, <2>4, <2>7, <2>0
    <3> QED BY <2>1, <2>6, <2>7, <3>1
  <2> QED BY <2>2, <2>5, <2>7 DEF ReachInv
<1> QED BY <1>1, <1>2, <1>3, <1>4, <1>5, <1>6 DEF AggNext

\* What a run relied on when it began stays so.
LEMMA BeginningsLast ==
    ASSUME AggState, PageInv, ResumeInv, AggNext, NEW j \in DOMAIN lane, HandledBefore(j)' # {}
    PROVE  ResumesInReach(j)'
<1>1. /\ Len(lane) \in Nat /\ DOMAIN lane = 1..Len(lane)
      /\ \A i \in DOMAIN lane : Lasting(lane[i], lane'[i])
      /\ \A i \in DOMAIN lane : i < Len(lane) => lane'[i].rows = lane[i].rows /\ lane'[i].refused = lane[i].refused
  BY RunsLast
<1>2. \A i \in 1..(j - 1) : /\ i \in DOMAIN lane
                            /\ lane'[i].rows = lane[i].rows /\ lane'[i].refused = lane[i].refused
  <2> SUFFICES ASSUME NEW i \in 1..(j - 1) PROVE i \in DOMAIN lane /\ i < Len(lane) BY <1>1
  <2> QED BY <1>1
<1>3. HandledBefore(j)' = HandledBefore(j) BY <1>2 DEF HandledBefore
<1>4. ResumesInReach(j) BY <1>3 DEF ResumeInv
<1>5. /\ lane'[j].from = lane[j].from
      /\ lane'[j].reset = lane[j].reset /\ lane'[j].blind = lane[j].blind
  BY <1>1, Zenon DEF Lasting
<1>6. CASE lane[j].from # 0
  <2>1. lane[j].from <= Max(HandledBefore(j)) + 1 BY <1>4, <1>6 DEF ResumesInReach
  <2>2. PICK H : H = HandledBefore(j) OBVIOUS
  <2>3. lane'[j].from <= Max(HandledBefore(j)') + 1 BY <1>3, <1>5, <2>1, <2>2
  <2>4. lane'[j].from # 0 BY <1>5, <1>6
  <2> QED BY <2>3, <2>4 DEF ResumesInReach
<1>7. CASE lane[j].from = 0 /\ lane[j].reset
  <2>1. lane'[j].reset BY <1>5, <1>7, Zenon
  <2>2. lane'[j].from = 0 BY <1>5, <1>7
  <2> QED BY <2>1, <2>2 DEF ResumesInReach
<1>8. CASE lane[j].from = 0 /\ ~lane[j].reset
  <2>1. lane[j].blind /\ \A i \in 1..(j - 1) : lane[i].rows = <<>> \/ OutOfReach(i, j)
    BY <1>4, <1>8 DEF ResumesInReach
  <2>2. lane'[j].blind BY <1>5, <2>1, Zenon
  <2>3. lane'[j].from = 0 BY <1>5, <1>8
  <2>4. \A i \in 1..(j - 1) : lane'[i].rows = <<>> \/ OutOfReach(i, j)'
    BY <1>1, <1>2, <2>1, OutLasts
  <2> QED BY <2>2, <2>3, <2>4 DEF ResumesInReach
<1> QED BY <1>6, <1>7, <1>8

\* The cursor file keeps naming a row of a finished run.
LEMMA CursorKept ==
    ASSUME AggState, PageInv, ResumeInv, AggNext
    PROVE  (cursor # NoCursor => \E i \in DOMAIN lane : ~lane[i].open /\ cursor.last \in ToSet(lane[i].rows))'
<1>1. /\ Len(lane) \in Nat /\ DOMAIN lane = 1..Len(lane) /\ DOMAIN lane \subseteq DOMAIN lane'
      /\ \A i \in DOMAIN lane : ~lane[i].open => ~lane'[i].open /\ lane'[i].rows = lane[i].rows
  BY RunsLast
<1>2. CASE cursor' = cursor
  <2> SUFFICES ASSUME cursor' # NoCursor'
               PROVE  \E i \in DOMAIN lane' : ~lane'[i].open /\ cursor'.last \in ToSet(lane'[i].rows)
    OBVIOUS
  <2>1. cursor # NoCursor BY <1>2 DEF NoCursor
  <2>2. PICK i \in DOMAIN lane : ~lane[i].open /\ cursor.last \in ToSet(lane[i].rows)
    BY <2>1 DEF ResumeInv
  <2>3. i \in DOMAIN lane' /\ ~lane'[i].open /\ lane'[i].rows = lane[i].rows BY <1>1, <2>2
  <2> QED BY <1>2, <2>2, <2>3
<1>3. CASE cursor' # cursor
  <2>1. FinishSegment
    <3>1. (Trade \/ TimePasses) => cursor' = cursor BY Quiets
    <3>2. AggPoll => cursor' = cursor BY DEF AggPoll
    <3>3. AggDeliver => cursor' = cursor BY DEF AggDeliver
    <3>4. AbandonSegment => cursor' = cursor BY DEF AbandonSegment
    <3>5. \A q \in DOMAIN lane : QuarantineRun(q) => cursor' = cursor BY DEF QuarantineRun
    <3>6. BeginSegment => cursor' = cursor BY DEF BeginSegment
    <3> QED BY <1>3, <3>1, <3>2, <3>3, <3>4, <3>5, <3>6 DEF AggNext
  <2>2. PICK o : o = pager.run OBVIOUS
  <2>3. /\ o \in DOMAIN lane /\ DOMAIN lane' = DOMAIN lane /\ ~lane'[o].open
        /\ lane'[o].rows = lane[o].rows
    BY <2>1, <2>2, EndIs
  <2>4. cursor' = Saved(lane[o]) BY <2>1, <2>2 DEF FinishSegment
  <2>5. lane[o].rows # <<>> /\ cursor' = [last |-> Max(ToSet(lane[o].rows)), at |-> now]
    BY <1>3, <2>4 DEF Saved, WrittenTo
  <2> DEFINE R == ToSet(lane[o].rows)
  <2>6. R \in SUBSET Nat /\ (\A x \in R : x <= Len(market)) /\ Len(market) \in Nat
    <3>1. R \subseteq Ids BY <2>3 DEF AggState, RunsState, Handled
    <3>2. Len(market) \in Nat /\ \A x \in Ids : x \in Nat /\ x <= Len(market) BY DEF AggState, Ids
    <3> HIDE DEF R
    <3> QED BY <3>1, <3>2
  <2>7. R # {}
    <3>1. lane[o] \in AggRun BY <2>3 DEF AggState
    <3>2. lane[o].rows \in Seq(Nat) BY <3>1 DEF AggRun
    <3>3. 1 \in DOMAIN lane[o].rows BY <2>5, <3>2
    <3> QED BY <3>3 DEF ToSet
  <2>8. Max(R) \in R
    <3> HIDE DEF R
    <3> QED BY <2>6, <2>7, MaxOfIds
  <2>9. cursor'.last = Max(R) BY <2>5
  <2>10. cursor'.last \in ToSet(lane'[o].rows) BY <2>3, <2>8, <2>9
  <2> QED BY <2>3, <2>10
<1> QED BY <1>2, <1>3

\* Every step keeps the runs together.
LEMMA ResumeKept == ASSUME AggState, PageInv, ResumeInv, AggNext PROVE ResumeInv'
<1>1. CASE ~BeginSegment
  <2>1. DOMAIN lane' = DOMAIN lane
    <3>1. (Trade \/ TimePasses) => DOMAIN lane' = DOMAIN lane BY Quiets
    <3>2. AggPoll => DOMAIN lane' = DOMAIN lane BY PollIs
    <3>3. AggDeliver => DOMAIN lane' = DOMAIN lane BY DeliverIs
    <3>4. FinishSegment \/ AbandonSegment => DOMAIN lane' = DOMAIN lane BY EndIs
    <3>5. \A q \in DOMAIN lane : QuarantineRun(q) => DOMAIN lane' = DOMAIN lane BY QuarantineIs
    <3> QED BY <1>1, <3>1, <3>2, <3>3, <3>4, <3>5 DEF AggNext
  <2>2. \A j \in DOMAIN lane' : HandledBefore(j)' # {} => ResumesInReach(j)' BY <2>1, BeginningsLast
  <2> QED BY <2>2, CursorKept DEF ResumeInv
<1>2. CASE BeginSegment
  <2>0. PICK n : n = Len(lane) + 1 OBVIOUS
  <2>1. /\ n \in Nat /\ n > 0 /\ DOMAIN lane' = 1..n
        /\ DOMAIN lane = 1..Len(lane) /\ Len(lane) \in Nat
        /\ \A i \in DOMAIN lane : lane'[i] = lane[i] /\ i # n
        /\ lane'[n] = [born |-> now, from |-> ResumeFrom, rows |-> <<>>, refused |-> {},
                       reset |-> StaleCursor, blind |-> cursor = NoCursor,
                       place |-> "raw", open |-> TRUE]
    BY <1>2, <2>0, BeginIs
  <2>2. /\ lane'[n].born = now /\ lane'[n].from = ResumeFrom
        /\ lane'[n].reset = StaleCursor /\ lane'[n].blind = (cursor = NoCursor)
    <3>1. PICK st \in BOOLEAN : st = StaleCursor BY DEF StaleCursor
    <3>2. PICK bl \in BOOLEAN : bl = (cursor = NoCursor) OBVIOUS
    <3>3. lane'[n] = [born |-> now, from |-> ResumeFrom, rows |-> <<>>, refused |-> {},
                       reset |-> st, blind |-> bl, place |-> "raw", open |-> TRUE]
      BY <2>1, <3>1, <3>2
    <3>4. lane'[n].born = now /\ lane'[n].from = ResumeFrom /\ lane'[n].reset = st /\ lane'[n].blind = bl
      BY <3>3
    <3> QED BY <3>1, <3>2, <3>4
  <2>3. \A i \in 1..(n - 1) : i \in DOMAIN lane /\ lane'[i] = lane[i] BY <2>0, <2>1
  <2>4. \A i \in DOMAIN lane : i \in 1..(n - 1) BY <2>0, <2>1
  <2> DEFINE H == UNION {ToSet(lane[i].rows) \cup lane[i].refused : i \in 1..(n - 1)}
  <2>5. HandledBefore(n)' = H BY <2>3 DEF HandledBefore
  <2>6. Len(market) \in Nat BY DEF AggState
  <2>7. H \in SUBSET Nat /\ \A x \in H : x <= Len(market)
    <3>1. H \subseteq Ids
      <4> SUFFICES ASSUME NEW i \in 1..(n - 1) PROVE Handled(i) \subseteq Ids BY DEF Handled
      <4> QED BY <2>3 DEF AggState, RunsState
    <3>2. \A x \in Ids : x \in Nat /\ x <= Len(market) BY <2>6 DEF AggState, Ids
    <3> HIDE DEF H
    <3> QED BY <3>1, <3>2
  <2>8. \A i \in DOMAIN lane : ToSet(lane[i].rows) \subseteq H BY <2>4
  <2>9. ASSUME H # {} PROVE ResumesInReach(n)'
    <3>1. CASE ResumeFrom # 0
      <4>1. PICK x \in H : ResumeFrom = x + 1
        <5>1. CASE DiskHigh # 0 /\ ResumeFrom = DiskHigh + 1
          <6>1. PICK m \in Scanned : DiskHigh \in ToSet(lane[m].rows) BY <5>1, DiskHighIs
          <6>2. m \in DOMAIN lane BY DEF Scanned
          <6> HIDE DEF H
          <6> QED BY <2>8, <5>1, <6>1, <6>2
        <5>2. CASE cursor # NoCursor /\ ResumeFrom = cursor.last + 1
          <6>1. PICK i \in DOMAIN lane : cursor.last \in ToSet(lane[i].rows) BY <5>2 DEF ResumeInv
          <6> HIDE DEF H
          <6> QED BY <2>8, <5>2, <6>1
        <5> QED BY <3>1, <5>1, <5>2, ResumeIs
      <4>2. x <= Max(H) /\ Max(H) \in Nat
        <5> HIDE DEF H
        <5> QED BY <2>6, <2>7, <2>9, MaxOfIds
      <4>3. PICK m : m = Max(H) OBVIOUS
      <4>4. m = Max(HandledBefore(n)') BY <2>5, <4>3
      <4>5. x \in Nat BY <2>7
      <4>6. lane'[n].from <= m + 1 BY <2>2, <4>1, <4>2, <4>3, <4>5
      <4> QED BY <2>2, <3>1, <4>4, <4>6 DEF ResumesInReach
    <3>2. CASE ResumeFrom = 0
      <4>1. DiskHigh = 0 /\ (cursor = NoCursor \/ StaleCursor) BY <3>2, ResumeIs
      <4>2. CASE StaleCursor
        <5>1. lane'[n].reset BY <2>2, <4>2
        <5> QED BY <2>2, <3>2, <5>1 DEF ResumesInReach
      <4>3. CASE cursor = NoCursor
        <5>1. lane'[n].blind BY <2>2, <4>3
        <5>2. ASSUME NEW i \in 1..(n - 1), ~OutOfReach(i, n)' PROVE lane'[i].rows = <<>>
          <6>1. i \in DOMAIN lane /\ lane'[i] = lane[i] BY <2>3
          <6>2. lane[i].place # "quarantined" /\ ~(now - lane[i].born > MaxResumeGap)
            BY <2>2, <5>2, <6>1 DEF OutOfReach
          <6>3. lane[i].place \in {"raw", "quarantined"} /\ lane[i].born \in Nat
            <7>1. lane[i] \in AggRun BY <6>1 DEF AggState
            <7> QED BY <7>1 DEF AggRun
          <6>4. now \in Nat /\ MaxResumeGap \in Nat BY AggCursorAssumption DEF AggState
          <6>5. i \in Scanned BY <6>1, <6>2, <6>3, <6>4 DEF Scanned
          <6> QED BY <4>1, <6>1, <6>5, DiskHighIs
        <5> QED BY <2>2, <3>2, <5>1, <5>2 DEF ResumesInReach
      <4> QED BY <4>1, <4>2, <4>3
    <3> QED BY <3>1, <3>2
  <2>10. \A j \in DOMAIN lane' : j \in DOMAIN lane \/ j = n
    <3>1. \A i \in 1..n : i \in 1..Len(lane) \/ i = n BY <2>0, <2>1
    <3> QED BY <2>1, <3>1
  <2>11. \A j \in DOMAIN lane : HandledBefore(j)' # {} => ResumesInReach(j)' BY BeginningsLast
  <2>12. HandledBefore(n)' # {} => ResumesInReach(n)' BY <2>5, <2>9
  <2>13. \A j \in DOMAIN lane' : HandledBefore(j)' # {} => ResumesInReach(j)'
    <3> HIDE DEF H
    <3> QED BY <2>10, <2>11, <2>12
  <2> QED BY <2>13, CursorKept DEF ResumeInv
<1> QED BY <1>1, <1>2

\* The invariant holds at the start,
LEMMA AggBegins == ASSUME AggInit PROVE AggInv
<1>1. /\ now = 0 /\ market = <<>> /\ cursor = NoCursor /\ lane = <<>> /\ pager = NoPager /\ fetched = <<>>
  BY DEF AggInit
<1>2. ~Paging /\ DOMAIN lane = {} BY <1>1 DEF Paging
<1>3. AggTime \in Nat BY AggCursorAssumption
<1>4. AggState
  <2>1. RunsState BY <1>2 DEF RunsState
  <2>2. cursor \in [last : 0..Len(market), at : 0..now] /\ pager \in [run : Nat, from : 0..(Len(market) + 1)]
    BY <1>1 DEF NoCursor, NoPager
  <2> QED BY <1>1, <1>2, <1>3, <2>1, <2>2 DEF AggState
<1>5. PageInv /\ ReachInv /\ ResumeInv BY <1>1, <1>2 DEF PageInv, ReachInv, ResumeInv
<1> QED BY <1>4, <1>5 DEF AggInv

\* every step of the lane keeps it,
LEMMA AggKept == ASSUME AggInv, AggNext PROVE AggInv'
BY StateKept, PageKept, ReachKept, ResumeKept DEF AggInv

\* and so does a step of another lane.
LEMMA AggStays == ASSUME AggInv, UNCHANGED avars PROVE AggInv'
<1>1. UNCHANGED <<now, market, cursor, lane, pager, fetched>> BY DEF avars
<1>2. /\ Ids' = Ids /\ (Paging' <=> Paging) /\ NextId' = NextId
      /\ \A i : Handled(i)' = Handled(i) /\ HandledBefore(i)' = HandledBefore(i)
      /\ \A i, j : OutOfReach(i, j)' <=> OutOfReach(i, j)
  BY <1>1 DEF Ids, Paging, NextId, Handled, HandledBefore, OutOfReach
<1>3. \A j : ResumesInReach(j)' <=> ResumesInReach(j) BY <1>1, <1>2 DEF ResumesInReach
<1>4. AggState' BY <1>1, <1>2 DEF AggInv, AggState, RunsState
<1>5. PageInv' BY <1>1, <1>2 DEF AggInv, PageInv
<1>6. ReachInv' BY <1>1, <1>2 DEF AggInv, ReachInv
<1>7. ResumeInv' BY <1>1, <1>2, <1>3 DEF AggInv, ResumeInv, NoCursor
<1> QED BY <1>4, <1>5, <1>6, <1>7 DEF AggInv

\* An id is written to two runs only if the first was beyond the reach of the second.
LEMMA NoneTwice == ASSUME AggInv PROVE NoIdTwice
<1> SUFFICES ASSUME NEW i \in DOMAIN lane, NEW j \in DOMAIN lane, i < j, ~OutOfReach(i, j)
             PROVE  ToSet(lane[i].rows) \cap ToSet(lane[j].rows) = {}
  BY DEF NoIdTwice
<1>1. \A x \in ToSet(lane[i].rows), y \in ToSet(lane[j].rows) : x < y BY DEF AggInv, ReachInv
<1>2. ToSet(lane[i].rows) \subseteq Ids /\ \A x \in Ids : x \in Nat
  BY DEF AggInv, AggState, RunsState, Handled, Ids
<1>3. \A x \in ToSet(lane[i].rows) : ~(x \in ToSet(lane[j].rows)) BY <1>1, <1>2
<1> QED BY <1>3

\* No hole is left that no run tells of.
LEMMA NoneLost == ASSUME AggInv PROVE NoSilentGap
<1>1. AggState /\ PageInv /\ ResumeInv BY DEF AggInv
<1>2. Len(market) \in Nat BY <1>1 DEF AggState
<1>3. CursorTypeOK
  <2>1. now \in 0..AggTime /\ market \in Seq(0..AggTime) BY <1>1 DEF AggState
  <2>2. cursor.last \in 0..Len(market) /\ cursor.at \in 0..now BY <1>1 DEF AggState
  <2>3. pager.from \in 0..(Len(market) + 1) BY <1>1 DEF AggState
  <2>4. ToSet(fetched) \subseteq Ids /\ (fetched # <<>> => Paging) BY <1>1, FetchedIds DEF AggState
  <2>5. \A i \in DOMAIN lane :
          /\ ToSet(lane[i].rows) \cup lane[i].refused \subseteq Ids
          /\ lane[i].open <=> Paging /\ i = pager.run
    BY <1>1 DEF AggState, RunsState, Handled
  <2> QED BY <2>1, <2>2, <2>3, <2>4, <2>5 DEF CursorTypeOK
<1>4. ASSUME NEW j \in DOMAIN lane, lane[j].rows # <<>> PROVE GapsAreRefused(j)
  <2> DEFINE R == ToSet(lane[j].rows)
  <2>1. R \in SUBSET Nat /\ \A x \in R : x <= Len(market)
    <3>1. R \subseteq Ids BY <1>1 DEF AggState, RunsState, Handled
    <3>2. \A x \in Ids : x \in Nat /\ x <= Len(market) BY <1>1, <1>2 DEF AggState, Ids
    <3> HIDE DEF R
    <3> QED BY <3>1, <3>2
  <2>2. R # {}
    <3>1. lane[j] \in AggRun BY <1>1 DEF AggState
    <3>2. lane[j].rows \in Seq(Nat) BY <3>1 DEF AggRun
    <3>3. 1 \in DOMAIN lane[j].rows BY <1>4, <3>2
    <3> QED BY <3>3 DEF ToSet
  <2>3. \A x, y \in R : \A id \in x..y : id \in R \cup lane[j].refused BY <1>1 DEF PageInv, Gapless
  <2>4. Min(R) \in R /\ Max(R) \in R
    <3> HIDE DEF R
    <3> QED BY <1>2, <2>1, <2>2, MinOfIds, MaxOfIds
  <2>5. \A id \in Min(R)..Max(R) : id \in R \cup lane[j].refused
    <3>1. PICK a, b : a = Min(R) /\ b = Max(R) OBVIOUS
    <3> HIDE DEF R
    <3> QED BY <2>3, <2>4, <3>1
  <2> QED BY <2>5 DEF GapsAreRefused
<1> QED BY <1>1, <1>3, <1>4 DEF NoSilentGap, ResumeInv

\* Under the composition, whichever lane moves.
LEMMA AggInvariance == PollingSpec => []AggInv
<1>1. PollingInit => AggInv BY AggBegins DEF PollingInit
<1>2. AggInv /\ [PollingNext]_pvars => AggInv'
  <2> SUFFICES ASSUME AggInv, [PollingNext]_pvars PROVE AggInv' OBVIOUS
  <2>1. CASE AggNext BY <2>1, AggKept
  <2>2. CASE UNCHANGED avars BY <2>2, AggStays
  <2> QED BY <2>1, <2>2 DEF PollingNext, pvars
<1> QED BY <1>1, <1>2, PTL DEF PollingSpec

(***************************************************************************)
(* The wallet-flow lane.                                                   *)
(***************************************************************************)
USE DEF Of, At, IsTwap, Wanted

\* What the histories hold, and the order of the venue.
LEMMA FillsAre ==
    ASSUME fill \in Histories
    PROVE  /\ IsFiniteSet(Fills) /\ Fills \subseteq Nat
           /\ \A f \in Fills : /\ At(f) \in Nat /\ Of(f) \in Wallets
                               /\ IsTwap(f) \in BOOLEAN /\ Wanted(f) \in BOOLEAN
<1>1. IsFiniteSet(Fills) /\ Fills \subseteq Nat
  <2>1. IsFiniteSet(Fills) /\ Fills = 1..Cardinality(Fills) BY WalletFlowAssumption
  <2>2. Cardinality(Fills) \in Nat BY <2>1, FS_CardinalityType
  <2>3. ASSUME NEW f \in Fills PROVE f \in Nat BY <2>1, <2>2
  <2> QED BY <2>1, <2>3
<1>2. fill \in [Fills -> [wallet : Wallets, at : Nat, stream : {"fills", "twap"}, target : BOOLEAN]]
  BY WalletFlowAssumption
<1> QED BY <1>1, <1>2 DEF Prospective

\* A fill's rank is below the number of fills, and ascends with them.
LEMMA RankIs ==
    ASSUME fill \in Histories, NEW S \in SUBSET Fills
    PROVE  /\ IsFiniteSet(S) /\ Cardinality(S) \in Nat
           /\ \A f \in S : Rank(S, f) \in 0..(Cardinality(S) - 1)
           /\ \A f, g \in S : Earlier(f, g) => Rank(S, f) < Rank(S, g)
           /\ \A f, g \in S : Rank(S, f) = Rank(S, g) => f = g
<1>1. IsFiniteSet(S) /\ Cardinality(S) \in Nat BY FillsAre, FS_Subset, FS_CardinalityType
<1>2. \A f \in S : At(f) \in Nat /\ f \in Nat BY FillsAre
<1>3. \A f, g \in S : f = g \/ Earlier(f, g) \/ Earlier(g, f) BY <1>2 DEF Earlier
<1>4. \A f, g, h \in S : Earlier(f, g) /\ Earlier(g, h) => Earlier(f, h) BY <1>2 DEF Earlier
<1>5. \A f \in S : ~Earlier(f, f) BY <1>2 DEF Earlier
<1> DEFINE Before(f) == {g \in S : Earlier(g, f)}
<1>6. \A f \in S : Rank(S, f) = Cardinality(Before(f)) BY DEF Rank
<1>7. ASSUME NEW f \in S PROVE Cardinality(Before(f)) \in 0..(Cardinality(S) - 1)
  <2>1. Before(f) \in SUBSET S /\ Before(f) # S BY <1>5
  <2> HIDE DEF Before
  <2>2. /\ IsFiniteSet(Before(f)) /\ Cardinality(Before(f)) <= Cardinality(S)
        /\ Cardinality(S) # Cardinality(Before(f))
    BY <1>1, <2>1, FS_Subset
  <2>3. Cardinality(Before(f)) \in Nat BY <2>2, FS_CardinalityType
  <2> QED BY <1>1, <2>2, <2>3
<1>8. ASSUME NEW f \in S, NEW g \in S, Earlier(f, g)
      PROVE  Cardinality(Before(f)) < Cardinality(Before(g))
  <2>1. Before(f) \in SUBSET Before(g) /\ Before(f) # Before(g) BY <1>4, <1>5, <1>8
  <2>2. Before(g) \in SUBSET S OBVIOUS
  <2>3. Cardinality(Before(f)) \in Nat /\ Cardinality(Before(g)) \in Nat BY <1>7
  <2> HIDE DEF Before
  <2>4. IsFiniteSet(Before(g)) BY <1>1, <2>2, FS_Subset
  <2>5. /\ Cardinality(Before(f)) <= Cardinality(Before(g))
        /\ Cardinality(Before(f)) # Cardinality(Before(g))
    BY <2>1, <2>4, FS_Subset
  <2> QED BY <2>3, <2>5
<1> HIDE DEF Before
<1>9. ASSUME NEW f \in S PROVE Rank(S, f) \in 0..(Cardinality(S) - 1) BY <1>6, <1>7
<1>10. ASSUME NEW f \in S, NEW g \in S, Earlier(f, g) PROVE Rank(S, f) < Rank(S, g)
  BY <1>6, <1>8, <1>10
<1>11. ASSUME NEW f \in S, NEW g \in S, Rank(S, f) = Rank(S, g) PROVE f = g
  <2>1. Rank(S, f) \in Int /\ ~(Rank(S, f) < Rank(S, g)) /\ ~(Rank(S, g) < Rank(S, f))
    BY <1>1, <1>9, <1>11
  <2> QED BY <1>3, <1>10, <2>1
<1> QED BY <1>1, <1>9, <1>10, <1>11

\* Every rank below the number of fills is one of a fill.
LEMMA RanksAre ==
    ASSUME fill \in Histories, NEW S \in SUBSET Fills, NEW n \in 0..(Cardinality(S) - 1)
    PROVE  \E f \in S : Rank(S, f) = n
<1> DEFINE m == Cardinality(S)
           T == 0..(m - 1)
           r == [f \in S |-> Rank(S, f)]
<1>1. /\ IsFiniteSet(S) /\ m \in Nat
      /\ \A f \in S : Rank(S, f) \in T
      /\ \A f, g \in S : Rank(S, f) = Rank(S, g) => f = g
  BY RankIs
<1>2. IsFiniteSet(T) /\ Cardinality(T) = m
  <2> HIDE DEF m
  <2>1. IsFiniteSet(T) /\ Cardinality(T) = IF 0 > m - 1 THEN 0 ELSE m - 1 - 0 + 1 BY <1>1, FS_Interval
  <2> QED BY <1>1, <2>1
<1>3. r \in Injection(S, T)
  <2> HIDE DEF T
  <2> QED BY <1>1 DEF Injection, IsInjective
<1>4. r \in Surjection(S, T)
  <2> HIDE DEF r, T
  <2> QED BY <1>2, <1>3, FS_Injection
<1> QED BY <1>4 DEF Surjection

\* The rows of a batch are its fills, each once, in the order of their times.
LEMMA OrderIs ==
    ASSUME fill \in Histories, NEW S \in SUBSET Fills
    PROVE  /\ InTimeOrder(S) \in Seq(S) /\ ToSet(InTimeOrder(S)) = S
           /\ \A k, l \in DOMAIN InTimeOrder(S) : InTimeOrder(S)[k] = InTimeOrder(S)[l] => k = l
           /\ \A k, l \in DOMAIN InTimeOrder(S) : k < l => At(InTimeOrder(S)[k]) <= At(InTimeOrder(S)[l])
<1> DEFINE m == Cardinality(S)
           e(k) == CHOOSE f \in S : Rank(S, f) = k - 1
           s == InTimeOrder(S)
<1>1. m \in Nat BY RankIs
<1>2. ASSUME NEW k \in 1..m PROVE e(k) \in S /\ Rank(S, e(k)) = k - 1
  <2>1. k - 1 \in 0..(m - 1) BY <1>1
  <2>2. \E f \in S : Rank(S, f) = k - 1 BY <2>1, RanksAre
  <2> QED BY <2>2
<1>3. s = [k \in 1..m |-> e(k)] BY DEF InTimeOrder
<1>4. s \in Seq(S) /\ DOMAIN s = 1..m /\ \A k \in 1..m : s[k] = e(k)
  <2> HIDE DEF e, m, s
  <2>1. [k \in 1..m |-> e(k)] \in Seq(S) BY <1>1, <1>2, IsASeq
  <2> QED BY <1>3, <2>1
<1> HIDE DEF e, s
<1>5. ToSet(s) = S
  <2>1. ToSet(s) \subseteq S BY <1>2, <1>4 DEF ToSet
  <2>2. ASSUME NEW f \in S PROVE f \in ToSet(s)
    <3>1. PICK n \in 0..(m - 1) : Rank(S, f) = n BY RankIs
    <3>2. n + 1 \in 1..m /\ (n + 1) - 1 = n BY <1>1
    <3>3. e(n + 1) \in S /\ Rank(S, e(n + 1)) = Rank(S, f) BY <1>2, <3>1, <3>2
    <3>4. e(n + 1) = f BY <3>3, RankIs
    <3> QED BY <1>4, <3>2, <3>4 DEF ToSet
  <2> QED BY <2>1, <2>2
<1>6. ASSUME NEW k \in 1..m, NEW l \in 1..m, k < l PROVE At(e(k)) <= At(e(l))
  <2>1. e(k) \in S /\ e(l) \in S /\ Rank(S, e(k)) = k - 1 /\ Rank(S, e(l)) = l - 1 BY <1>2
  <2>2. ~(Rank(S, e(l)) < Rank(S, e(k))) BY <1>1, <1>6, <2>1
  <2>3. ~Earlier(e(l), e(k)) BY <2>1, <2>2, RankIs
  <2>4. At(e(k)) \in Nat /\ At(e(l)) \in Nat BY <2>1, FillsAre
  <2> QED BY <2>3, <2>4 DEF Earlier
<1>7. \A k, l \in DOMAIN s : k < l => At(s[k]) <= At(s[l]) BY <1>4, <1>6
<1>8. \A k, l \in DOMAIN s : s[k] = s[l] => k = l
  <2>1. ASSUME NEW k \in 1..m, NEW l \in 1..m, e(k) = e(l) PROVE k = l
    <3>1. k - 1 = l - 1 BY <1>2, <2>1
    <3> QED BY <1>1, <3>1
  <2> QED BY <1>4, <2>1
<1> QED BY <1>4, <1>5, <1>7, <1>8 DEF s

\* The rows and the memory of the lane.
FlowRun == [born : Nat, rows : Seq(Fills), node : BOOLEAN,
            place : {"raw", "promoted", "quarantined", "cold"},
            state : {"open", "dead", "closed"}]
Memory == [run : Nat \ {0}, born : Nat, alone : BOOLEAN, beside : BOOLEAN, seen : SUBSET Fills,
           high : [Wallets -> Nat], page : [Wallets -> Nat], floor : [Wallets -> Nat],
           twapLast : [Wallets -> Nat], horizon : Nat, polls : Nat]

\* The open run is the live poller's; rows hold wanted fills that are no news to the
\* clock, and those of a poller are fills it was served.
RunsTyped ==
    /\ runs \in Seq(FlowRun)
    /\ \A i \in DOMAIN runs :
        /\ runs[i].born \in 1..clock
        /\ runs[i].state = "open" <=> Live /\ i = poller.run
        /\ \A j \in DOMAIN runs[i].rows :
            /\ Wanted(runs[i].rows[j]) /\ At(runs[i].rows[j]) <= clock
            /\ ~runs[i].node => runs[i].rows[j] \in Heard
PollerTyped ==
    Live =>
        /\ poller \in Memory /\ poller.run \in DOMAIN runs /\ ~runs[poller.run].node
        /\ \A w \in Wallets :
            poller.high[w] <= clock /\ poller.page[w] <= clock /\ poller.floor[w] <= clock
WalletState ==
    /\ fill \in Histories /\ clock \in 1..MaxTime
    /\ heard \in Seq(Fills) /\ IsInjective(heard) /\ \A f \in Heard : At(f) <= clock
    /\ RunsTyped /\ PollerTyped
    /\ batch \in Seq(Fills) /\ (batch # <<>> => Live)
    /\ \A k \in DOMAIN batch : batch[k] \in Heard /\ Wanted(batch[k])
    /\ plan \in [fills : SUBSET Fills, runs : Nat]
    /\ \A f \in plan.fills : Wanted(f) /\ At(f) <= clock
    /\ forgotten \in SUBSET Fills /\ passed \in SUBSET Fills

\* The greater of two.
LEMMA GreaterOfTwo ==
    ASSUME NEW a \in Int, NEW b \in Int PROVE Max({a, b}) = IF a >= b THEN a ELSE b
<1>1. {a, b} \in SUBSET Int OBVIOUS
<1>2. CASE a >= b
  <2>1. \A x \in {a, b} : x <= a BY <1>2
  <2> QED BY <1>1, <1>2, <2>1, GreatestIs
<1>3. CASE ~(a >= b)
  <2>1. \A x \in {a, b} : x <= b BY <1>3
  <2> QED BY <1>1, <1>3, <2>1, GreatestIs
<1> QED BY <1>2, <1>3

\* Where a request begins: not above the high-water mark's overlap but by a page.
LEMMA OverlapIs ==
    ASSUME NEW h \in Nat
    PROVE  AfterOverlap(h) = IF h = 0 \/ h - Overlap < 1 THEN 1 ELSE h - Overlap
<1>1. Overlap \in Nat BY WalletFlowAssumption
<1>2. h - Overlap \in Int /\ 1 \in Int BY <1>1
<1>3. Max({1, h - Overlap}) = IF 1 >= h - Overlap THEN 1 ELSE h - Overlap BY <1>2, GreaterOfTwo
<1> QED BY <1>1, <1>3 DEF AfterOverlap, Prospective

\* Where a poller's next request begins, written out.
LEMMA StartOf ==
    ASSUME NEW p \in Memory, NEW w \in Wallets
    PROVE  /\ RequestStart(p, w) \in Nat \ {0}
           /\ RequestStart(p, w) =
                IF p.page[w] # 0 THEN p.page[w]
                ELSE IF AfterOverlap(p.high[w]) >= p.floor[w] THEN AfterOverlap(p.high[w]) ELSE p.floor[w]
           /\ AfterOverlap(p.high[w]) \in Nat \ {0}
<1>1. p.page[w] \in Nat /\ p.high[w] \in Nat /\ p.floor[w] \in Nat BY DEF Memory
<1>2. AfterOverlap(p.high[w]) \in Nat \ {0}
  <2>1. Overlap \in Nat BY WalletFlowAssumption
  <2> QED BY <1>1, <2>1, OverlapIs
<1>3. Max({AfterOverlap(p.high[w]), p.floor[w]}) =
        IF AfterOverlap(p.high[w]) >= p.floor[w] THEN AfterOverlap(p.high[w]) ELSE p.floor[w]
  <2>1. AfterOverlap(p.high[w]) \in Int /\ p.floor[w] \in Int BY <1>1, <1>2
  <2> QED BY <2>1, GreaterOfTwo
<1> QED BY <1>1, <1>2, <1>3 DEF RequestStart

\* A recorded fill has a row.
LEMMA RecordedIs ==
    ASSUME NEW f, NEW D \in SUBSET DOMAIN runs
    PROVE  f \in RowsIn(D) <=> \E i \in D : \E j \in DOMAIN runs[i].rows : runs[i].rows[j] = f
BY DEF RowsIn, ToSet

\* A run of the lane is one.
LEMMA RunTyped ==
    ASSUME RunsTyped, NEW i \in DOMAIN runs
    PROVE  /\ runs[i] \in FlowRun /\ runs[i].rows \in Seq(Fills)
           /\ DOMAIN runs[i].rows = 1..Len(runs[i].rows) /\ Len(runs[i].rows) \in Nat
           /\ \A j \in DOMAIN runs[i].rows : runs[i].rows[j] \in Fills
<1>1. runs[i] \in FlowRun BY DEF RunsTyped
<1>2. runs[i].rows \in Seq(Fills) BY <1>1 DEF FlowRun
<1> QED BY <1>1, <1>2

\* The venue serves fills.
LEMMA HeardIs ==
    ASSUME heard \in Seq(Fills) PROVE Heard \in SUBSET Fills
BY DEF Heard, ToSet

\* The high-water mark is the time of a recorded fill of userFillsByTime or of a
\* backfill.
LEMMA HighwaterIs ==
    ASSUME WalletState, NEW w \in Wallets
    PROVE  /\ DurableHighwater(w) \in 0..clock
           /\ DurableHighwater(w) # 0 =>
                \E i \in DOMAIN runs : i \in HotRuns /\ \E j \in DOMAIN runs[i].rows :
                    /\ MovesHighwater(runs[i], runs[i].rows[j]) /\ Of(runs[i].rows[j]) = w
                    /\ At(runs[i].rows[j]) = DurableHighwater(w)
           /\ \A i \in HotRuns : \A j \in DOMAIN runs[i].rows :
                    MovesHighwater(runs[i], runs[i].rows[j]) /\ Of(runs[i].rows[j]) = w
                        => At(runs[i].rows[j]) <= DurableHighwater(w)
<1> DEFINE G == {g \in Fills : \E i \in HotRuns :
                    g \in ToSet(runs[i].rows) /\ Of(g) = w /\ MovesHighwater(runs[i], g)}
           S == {0} \cup {At(f) : f \in G}
<1>1. DurableHighwater(w) = Max(S) BY DEF DurableHighwater
<1>2. ASSUME NEW g \in G
      PROVE  /\ At(g) \in 0..clock
             /\ \E i \in DOMAIN runs : i \in HotRuns /\ \E j \in DOMAIN runs[i].rows :
                    MovesHighwater(runs[i], runs[i].rows[j]) /\ Of(runs[i].rows[j]) = w /\ runs[i].rows[j] = g
  <2>1. PICK i \in HotRuns : g \in ToSet(runs[i].rows) /\ Of(g) = w /\ MovesHighwater(runs[i], g) OBVIOUS
  <2>2. i \in DOMAIN runs BY DEF HotRuns, InPlaces
  <2>3. PICK j \in DOMAIN runs[i].rows : runs[i].rows[j] = g BY <2>1 DEF ToSet
  <2>4. At(g) <= clock BY <2>2, <2>3 DEF WalletState, RunsTyped
  <2>5. g \in Fills OBVIOUS
  <2>6. At(g) \in Nat BY <2>5, FillsAre DEF WalletState
  <2> QED BY <2>1, <2>2, <2>3, <2>4, <2>6 DEF WalletState
<1>3. clock \in Nat BY DEF WalletState
<1>4. S \in SUBSET Nat /\ S # {} /\ \A x \in S : x <= clock
  <2> HIDE DEF G
  <2> QED BY <1>2, <1>3
<1>5. Max(S) \in S /\ \A x \in S : x <= Max(S)
  <2> HIDE DEF S
  <2> QED BY <1>3, <1>4, MaxOfIds
<1>6. Max(S) = 0 \/ \E g \in G : At(g) = Max(S) BY <1>5
<1>7. Max(S) \in 0..clock BY <1>3, <1>4, <1>5
<1>8. ASSUME NEW i \in HotRuns, NEW j \in DOMAIN runs[i].rows,
             MovesHighwater(runs[i], runs[i].rows[j]), Of(runs[i].rows[j]) = w
      PROVE  At(runs[i].rows[j]) <= Max(S)
  <2>1. i \in DOMAIN runs BY DEF HotRuns, InPlaces
  <2>2. runs[i].rows[j] \in G BY <1>8, <2>1, RunTyped DEF WalletState, ToSet
  <2>3. At(runs[i].rows[j]) \in S BY <2>2
  <2> HIDE DEF S
  <2> QED BY <1>5, <2>3
<1> HIDE DEF S, G
<1> QED BY <1>1, <1>2, <1>6, <1>7, <1>8

-----------------------------------------------------------------------------
(* A poll.                                                                   *)

\* What may be asked of userFillsByTime.
Asked(w, start) == {f \in Heard : Of(f) = w /\ ~IsTwap(f) /\ At(f) >= start}

\* A page is the oldest of what was asked for, and all of it if it is not full.
LEMMA PageIs ==
    ASSUME WalletState, NEW w, NEW start \in Nat
    PROVE  /\ Page(w, start) \subseteq Asked(w, start) /\ Asked(w, start) \in SUBSET Fills
           /\ \A f \in Asked(w, start), g \in Page(w, start) : At(f) < At(g) => f \in Page(w, start)
           /\ ~Capped(Page(w, start)) => Asked(w, start) \subseteq Page(w, start)
           /\ Capped(Page(w, start)) => Page(w, start) # {}
<1> DEFINE S == Asked(w, start)
           P == Page(w, start)
<1>1. S \in SUBSET Fills /\ fill \in Histories BY HeardIs DEF Asked, WalletState
<1>2. P = {f \in S : Rank(S, f) < ResponseCap} BY DEF Page, Asked
<1>3. ResponseCap \in Nat \ {0} BY WalletFlowAssumption
<1>4. \A f \in S : At(f) \in Nat /\ Rank(S, f) \in Nat
  <2> HIDE DEF S
  <2>1. \A f \in S : At(f) \in Nat BY <1>1, FillsAre
  <2>2. Cardinality(S) \in Nat /\ \A f \in S : Rank(S, f) \in 0..(Cardinality(S) - 1) BY <1>1, RankIs
  <2> QED BY <2>1, <2>2
<1> HIDE DEF S, P
<1>5. \A f, g \in S : Earlier(f, g) => Rank(S, f) < Rank(S, g) BY <1>1, RankIs
<1>6. ASSUME NEW f \in S, NEW g \in P, At(f) < At(g) PROVE f \in P
  <2>1. g \in S /\ Rank(S, g) < ResponseCap BY <1>2
  <2>2. Rank(S, f) < Rank(S, g) BY <1>5, <1>6, <2>1 DEF Earlier
  <2> QED BY <1>2, <1>3, <1>4, <2>1, <2>2
<1>7. IsFiniteSet(P) /\ P \in SUBSET S /\ Cardinality(P) \in Nat
  <2>1. P \in SUBSET S BY <1>2
  <2>2. IsFiniteSet(S) BY <1>1, RankIs
  <2> QED BY <2>1, <2>2, FS_Subset, FS_CardinalityType
<1>8. ASSUME ~Capped(P), NEW x \in S \ P PROVE FALSE
  <2> DEFINE R == {Rank(S, f) : f \in S \ P}
  <2>1. R \in SUBSET Nat /\ R # {} BY <1>4
  <2>2. PICK r \in R : \A y \in R : r <= y
    <3> HIDE DEF R
    <3> QED BY <2>1, LeastId
  <2>3. PICK f \in S \ P : r = Rank(S, f) BY <2>2
  <2>4. \A y \in S \ P : ~(Rank(S, y) < Rank(S, f)) BY <1>4, <2>2, <2>3
  <2>5. {g \in S : Earlier(g, f)} \in SUBSET P BY <1>5, <2>4
  <2>6. Rank(S, f) <= Cardinality(P) BY <1>7, <2>5, FS_Subset DEF Rank
  <2>7. ~(Rank(S, f) < ResponseCap) BY <1>2
  <2> HIDE DEF R
  <2> QED BY <1>3, <1>4, <1>7, <1>8, <2>6, <2>7 DEF Capped
<1>9. ASSUME Capped(P) PROVE P # {}
  <2>1. Cardinality(P) # 0 BY <1>3, <1>9 DEF Capped
  <2> QED BY <2>1, FS_EmptySet
<1> QED BY <1>1, <1>6, <1>7, <1>8, <1>9 DEF S, P

\* One wallet's turn: what it takes is in sight of its request, and all that comes before
\* what it takes, or before the next request, is taken or was seen.
LEMMA TurnIs ==
    ASSUME WalletState, Live, NEW w \in Wallets
    PROVE  LET start == RequestStart(poller, w)
               taken == poller.seen \cup NewFills(w)
           IN  /\ \A f \in NewFills(w) : /\ f \in Heard /\ Wanted(f) /\ ~IsTwap(f) /\ Of(f) = w
                                         /\ At(f) >= start /\ f \notin poller.seen
               /\ \A f \in Heard, g \in NewFills(w) :
                    Wanted(f) /\ ~IsTwap(f) /\ Of(f) = w /\ At(f) >= start /\ At(f) < At(g) => f \in taken
               /\ Boundary(w) \in 0..clock
               /\ Boundary(w) # 0 => Boundary(w) >= start
               /\ \A f \in Heard :
                    /\ Wanted(f) /\ ~IsTwap(f) /\ Of(f) = w /\ At(f) >= start
                    /\ Boundary(w) = 0 \/ At(f) < Boundary(w)
                    => f \in taken
               /\ Highwater(w) \in 0..clock /\ poller.high[w] <= Highwater(w)
               /\ \A f \in NewFills(w) : At(f) <= Highwater(w)
               /\ Boundary(w) # 0 => Highwater(w) \in {poller.high[w], Boundary(w)}
<1> DEFINE start == RequestStart(poller, w)
           P == Page(w, start)
           M == Max(Stamps(P))
           taken == poller.seen \cup NewFills(w)
<1>1. poller \in Memory /\ start \in Nat \ {0} /\ clock \in Nat /\ poller.high[w] \in 0..clock
  <2>1. poller \in Memory /\ poller.high[w] <= clock /\ clock \in Nat BY DEF WalletState, PollerTyped
  <2> QED BY <2>1, StartOf DEF Memory
<1>2. /\ NewFills(w) = {f \in Consumed(P) : Wanted(f) /\ f \notin poller.seen}
      /\ Boundary(w) = IF Capped(P) THEN M ELSE 0
  BY DEF NewFills, Boundary, Answer
<1>3. /\ P \subseteq Asked(w, start) /\ Asked(w, start) \in SUBSET Fills
      /\ \A f \in Asked(w, start), g \in P : At(f) < At(g) => f \in P
      /\ ~Capped(P) => Asked(w, start) \subseteq P
      /\ Capped(P) => P # {}
  BY <1>1, PageIs
<1> HIDE DEF start, P
<1>4. \A f \in Asked(w, start) : f \in Heard /\ Of(f) = w /\ ~IsTwap(f) /\ At(f) >= start /\ At(f) \in 0..clock
  <2>1. \A f \in Asked(w, start) : f \in Heard /\ Of(f) = w /\ ~IsTwap(f) /\ At(f) >= start BY DEF Asked
  <2>2. \A f \in Asked(w, start) : At(f) \in Nat BY <1>3, FillsAre DEF WalletState
  <2> QED BY <2>1, <2>2 DEF WalletState
<1>5. ASSUME Capped(P) PROVE M \in Stamps(P) /\ \A f \in P : At(f) <= M
  <2>1. Stamps(P) \in SUBSET Nat /\ Stamps(P) # {} /\ \A x \in Stamps(P) : x <= clock
    BY <1>3, <1>4, <1>5 DEF Stamps
  <2>2. M \in Stamps(P) /\ \A x \in Stamps(P) : x <= M BY <1>1, <2>1, MaxOfIds
  <2> QED BY <2>2 DEF Stamps
<1>6. ASSUME Capped(P) PROVE M \in Nat /\ M >= start /\ M <= clock BY <1>1, <1>3, <1>4, <1>5, <1>6 DEF Stamps
<1> HIDE DEF M
<1>7. Consumed(P) = IF Capped(P) THEN {f \in P : At(f) < M} ELSE P BY DEF Consumed, M
<1>8. ASSUME NEW f \in NewFills(w)
      PROVE  /\ f \in Heard /\ Wanted(f) /\ ~IsTwap(f) /\ Of(f) = w
             /\ At(f) >= start /\ f \notin poller.seen /\ f \in P /\ At(f) \in 0..clock
             /\ Capped(P) => At(f) < M
  <2>1. f \in Consumed(P) /\ Wanted(f) /\ f \notin poller.seen BY <1>2
  <2>2. f \in P /\ (Capped(P) => At(f) < M) BY <1>7, <2>1
  <2> QED BY <1>3, <1>4, <2>1, <2>2
<1>9. ASSUME NEW f \in P, Wanted(f), Capped(P) => At(f) < M PROVE f \in taken
  <2>1. f \in Consumed(P) BY <1>7, <1>9
  <2> QED BY <1>2, <1>9, <2>1
<1>10. ASSUME NEW f \in Heard, Wanted(f), ~IsTwap(f), Of(f) = w, At(f) >= start
       PROVE  f \in Asked(w, start)
  BY <1>10 DEF Asked
<1>11. ASSUME NEW f \in Heard, NEW g \in NewFills(w),
              Wanted(f), ~IsTwap(f), Of(f) = w, At(f) >= start, At(f) < At(g)
       PROVE  f \in taken
  <2>1. f \in Asked(w, start) BY <1>10, <1>11
  <2>2. g \in P /\ (Capped(P) => At(g) < M) /\ At(g) \in Nat BY <1>8
  <2>3. f \in P BY <1>3, <1>11, <2>1, <2>2
  <2>4. Capped(P) => At(f) < M
    <3>1. At(f) \in Nat BY <1>4, <2>1
    <3> QED BY <1>6, <1>11, <2>2, <3>1
  <2> QED BY <1>9, <1>11, <2>3, <2>4
<1>12. Boundary(w) \in 0..clock /\ (Boundary(w) # 0 => Capped(P) /\ Boundary(w) = M)
       /\ (Boundary(w) # 0 => Boundary(w) >= start) /\ (Boundary(w) = 0 => ~Capped(P))
  BY <1>1, <1>2, <1>6
<1>13. ASSUME NEW f \in Heard, Wanted(f), ~IsTwap(f), Of(f) = w, At(f) >= start,
              Boundary(w) = 0 \/ At(f) < Boundary(w)
       PROVE  f \in taken
  <2>1. f \in Asked(w, start) BY <1>10, <1>13
  <2>2. CASE ~Capped(P)
    <3>1. f \in P BY <1>3, <2>1, <2>2
    <3> QED BY <1>9, <1>13, <2>2, <3>1
  <2>3. CASE Capped(P)
    <3>1. At(f) < M BY <1>12, <1>13, <2>3
    <3>2. PICK g \in P : At(g) = M BY <1>5, <2>3 DEF Stamps, M
    <3>3. f \in P BY <1>3, <2>1, <3>1, <3>2
    <3> QED BY <1>9, <1>13, <3>1, <3>3
  <2> QED BY <2>2, <2>3
<1>14. /\ Highwater(w) \in 0..clock /\ poller.high[w] <= Highwater(w)
       /\ \A f \in NewFills(w) : At(f) <= Highwater(w)
       /\ Boundary(w) # 0 => Highwater(w) \in {poller.high[w], Boundary(w)}
  <2> DEFINE S == {poller.high[w], Boundary(w)} \cup Stamps(NewFills(w))
  <2>1. S \in SUBSET Nat /\ \A x \in S : x <= clock
    <3>1. \A f \in NewFills(w) : At(f) \in 0..clock BY <1>8
    <3>2. \A x \in Stamps(NewFills(w)) : x \in 0..clock BY <3>1 DEF Stamps
    <3> QED BY <1>1, <1>12, <3>2
  <2>2. poller.high[w] \in S /\ Boundary(w) \in S /\ \A f \in NewFills(w) : At(f) \in S BY DEF Stamps
  <2>3. Highwater(w) = Max(S) BY DEF Highwater
  <2>0. \A x \in S : x = poller.high[w] \/ x = Boundary(w) \/ \E f \in NewFills(w) : x = At(f) BY DEF Stamps
  <2> HIDE DEF S
  <2>4. Max(S) \in S /\ \A x \in S : x <= Max(S) BY <1>1, <2>1, <2>2, MaxOfIds
  <2>5. Highwater(w) \in S /\ poller.high[w] <= Highwater(w) BY <2>2, <2>3, <2>4
  <2>6. Highwater(w) \in Nat /\ Highwater(w) <= clock BY <2>1, <2>5
  <2>7. \A f \in NewFills(w) : At(f) <= Highwater(w) BY <2>2, <2>3, <2>4
  <2>8. ASSUME Boundary(w) # 0, Highwater(w) \notin {poller.high[w], Boundary(w)} PROVE FALSE
    <3>1. PICK f \in NewFills(w) : Highwater(w) = At(f) BY <2>0, <2>5, <2>8
    <3>2. At(f) < Boundary(w) /\ At(f) \in Nat BY <1>8, <1>12, <2>8
    <3>3. Boundary(w) <= Highwater(w) BY <2>2, <2>3, <2>4
    <3> QED BY <1>12, <3>1, <3>2, <3>3
  <2> QED BY <1>1, <2>5, <2>6, <2>7, <2>8
<1>15. \A f \in Heard, g \in NewFills(w) :
          Wanted(f) /\ ~IsTwap(f) /\ Of(f) = w /\ At(f) >= start /\ At(f) < At(g) => f \in taken
  BY <1>11
<1>16. \A f \in Heard :
          /\ Wanted(f) /\ ~IsTwap(f) /\ Of(f) = w /\ At(f) >= start
          /\ Boundary(w) = 0 \/ At(f) < Boundary(w)
          => f \in taken
  BY <1>13
<1> HIDE DEF taken
<1> QED BY <1>8, <1>12, <1>14, <1>15, <1>16 DEF taken, start

\* The slices a poll emits are no older than the last ones.
LEMMA SlicesAre ==
    ASSUME NEW w
    PROVE  \A f \in Emittable(w) : /\ f \in Heard /\ Wanted(f) /\ IsTwap(f) /\ Of(f) = w
                                   /\ f \notin poller.seen /\ At(f) >= poller.twapLast[w]
                                   /\ At(f) >= poller.horizon
BY DEF Emittable, Unseen, TwapWindow

\* What a sweep does to the memory of the poller.
LEMMA SweptIs ==
    ASSUME WalletState, Live, NEW read \in SUBSET Wallets, NEW twapRead \in SUBSET Wallets,
           poller' = Swept(read, twapRead)
    PROVE  /\ poller' \in Memory /\ poller'.run = poller.run
           /\ poller'.born = poller.born /\ poller'.horizon = poller.horizon /\ poller'.beside = poller.beside
           /\ poller'.seen = poller.seen \cup (UNION {NewFills(w) : w \in read})
                                         \cup (UNION {Emittable(w) : w \in twapRead})
           /\ \A w \in Wallets :
                /\ poller'.high[w] = IF w \in read THEN Highwater(w) ELSE poller.high[w]
                /\ poller'.page[w] = IF w \in read THEN Boundary(w) ELSE poller.page[w]
                /\ poller'.floor[w] = IF w \in read THEN ResumeFloor(w) ELSE poller.floor[w]
                /\ poller.twapLast[w] <= poller'.twapLast[w]
                /\ w \in twapRead => \A f \in Emittable(w) : At(f) <= poller'.twapLast[w]
                /\ {poller'.high[w], poller'.page[w], poller'.floor[w]} \subseteq 0..clock
<1>1. poller \in Memory /\ clock \in Nat BY DEF WalletState, PollerTyped
<1> DEFINE s == poller.seen \cup (UNION {NewFills(w) : w \in read}) \cup (UNION {Emittable(w) : w \in twapRead})
           hi == [w \in Wallets |-> IF w \in read THEN Highwater(w) ELSE poller.high[w]]
           pg == [w \in Wallets |-> IF w \in read THEN Boundary(w) ELSE poller.page[w]]
           fl == [w \in Wallets |-> IF w \in read THEN ResumeFloor(w) ELSE poller.floor[w]]
           tl == [w \in Wallets |->
                    IF w \in twapRead THEN Max({poller.twapLast[w]} \cup Stamps(Emittable(w)))
                    ELSE poller.twapLast[w]]
           po == IF TwapEvery = 0 THEN 0 ELSE (poller.polls + 1) % TwapEvery
<1>2. poller' = [poller EXCEPT !.seen = s, !.high = hi, !.page = pg, !.floor = fl,
                               !.twapLast = tl, !.polls = po]
  BY DEF Swept
<1>3. s \in SUBSET Fills
  <2>1. \A w \in Wallets : NewFills(w) \subseteq Fills
    <3>1. \A w \in Wallets : \A f \in NewFills(w) : f \in Heard BY TurnIs
    <3>2. Heard \in SUBSET Fills BY HeardIs DEF WalletState
    <3> QED BY <3>1, <3>2
  <2>2. \A w \in Wallets : Emittable(w) \subseteq Fills
    <3>1. Heard \in SUBSET Fills BY HeardIs DEF WalletState
    <3> QED BY <3>1, SlicesAre
  <2>3. poller.seen \in SUBSET Fills BY <1>1 DEF Memory
  <2>4. (UNION {NewFills(w) : w \in read}) \subseteq Fills BY <2>1
  <2>5. (UNION {Emittable(w) : w \in twapRead}) \subseteq Fills BY <2>2
  <2> QED BY <2>3, <2>4, <2>5
<1>4. ASSUME NEW w \in Wallets
      PROVE  /\ Highwater(w) \in 0..clock /\ Boundary(w) \in 0..clock /\ ResumeFloor(w) \in 0..clock
             /\ poller.high[w] \in 0..clock /\ poller.page[w] \in 0..clock /\ poller.floor[w] \in 0..clock
  <2>1. poller.high[w] \in 0..clock /\ poller.page[w] \in 0..clock /\ poller.floor[w] \in 0..clock
    <3>1. poller.high[w] \in Nat /\ poller.page[w] \in Nat /\ poller.floor[w] \in Nat BY <1>1 DEF Memory
    <3> QED BY <1>1, <3>1 DEF WalletState, PollerTyped
  <2>2. Highwater(w) \in 0..clock /\ Boundary(w) \in 0..clock BY TurnIs
  <2> QED BY <2>1, <2>2 DEF ResumeFloor
<1>5. ASSUME NEW w \in Wallets
      PROVE  /\ tl[w] \in Nat /\ poller.twapLast[w] <= tl[w]
             /\ w \in twapRead => \A f \in Emittable(w) : At(f) <= tl[w]
  <2>1. poller.twapLast[w] \in Nat BY <1>1 DEF Memory
  <2>2. CASE w \notin twapRead BY <2>1, <2>2
  <2>3. CASE w \in twapRead
    <3> DEFINE S == {poller.twapLast[w]} \cup Stamps(Emittable(w))
               b == clock + poller.twapLast[w]
    <3>1. \A f \in Emittable(w) : At(f) \in Nat /\ At(f) <= clock
      <4>1. \A f \in Emittable(w) : f \in Fills /\ f \in Heard BY SlicesAre, HeardIs DEF WalletState
      <4> QED BY <4>1, FillsAre DEF WalletState
    <3>2. S \in SUBSET Nat /\ S # {} /\ b \in Nat /\ \A x \in S : x <= b
      BY <1>1, <2>1, <3>1 DEF Stamps
    <3>3. tl[w] = Max(S) BY <2>3
    <3>4. poller.twapLast[w] \in S /\ \A f \in Emittable(w) : At(f) \in S BY DEF Stamps
    <3> HIDE DEF S, b
    <3>5. Max(S) \in S /\ \A x \in S : x <= Max(S) BY <3>2, MaxOfIds
    <3> HIDE DEF tl
    <3> QED BY <3>2, <3>3, <3>4, <3>5
  <2> QED BY <2>2, <2>3
<1>6. po \in Nat
  <2>1. TwapEvery \in Nat /\ poller.polls \in Nat BY <1>1, WalletFlowAssumption DEF Memory
  <2> QED BY <2>1
<1>7. hi \in [Wallets -> Nat] /\ pg \in [Wallets -> Nat] /\ fl \in [Wallets -> Nat] BY <1>1, <1>4
<1>8. tl \in [Wallets -> Nat]
  <2>1. \A w \in Wallets : tl[w] \in Nat BY <1>5
  <2> QED BY <2>1
<1>9. \A w \in Wallets : /\ hi[w] = IF w \in read THEN Highwater(w) ELSE poller.high[w]
                         /\ pg[w] = IF w \in read THEN Boundary(w) ELSE poller.page[w]
                         /\ fl[w] = IF w \in read THEN ResumeFloor(w) ELSE poller.floor[w]
  OBVIOUS
<1> HIDE DEF s, hi, pg, fl, tl, po
<1>10. /\ poller' \in Memory /\ poller'.run = poller.run /\ poller'.seen = s /\ poller'.high = hi
       /\ poller'.page = pg /\ poller'.floor = fl /\ poller'.twapLast = tl
       /\ poller'.born = poller.born /\ poller'.horizon = poller.horizon /\ poller'.beside = poller.beside
  BY <1>1, <1>2, <1>3, <1>6, <1>7, <1>8 DEF Memory
<1>11. \A w \in Wallets : {poller'.high[w], poller'.page[w], poller'.floor[w]} \subseteq 0..clock
  BY <1>4, <1>9, <1>10
<1>12. poller'.seen = poller.seen \cup (UNION {NewFills(w) : w \in read})
                                  \cup (UNION {Emittable(w) : w \in twapRead})
  BY <1>10 DEF s
<1> QED BY <1>5, <1>9, <1>10, <1>11, <1>12

\* What a poll does: its rows, in the order of their times, are remembered at once; the
\* requests never go back; what they pass, and what comes before a row, was seen.
LEMMA PollTakes ==
    ASSUME WalletState, NEW failed \in SUBSET Fillers, NEW twapFailed \in SUBSET Slicers,
           Poll(failed, twapFailed)
    PROVE  /\ Live /\ batch = <<>>
           /\ poller' \in Memory /\ poller'.run = poller.run
           /\ poller'.born = poller.born /\ poller'.horizon = poller.horizon /\ poller'.beside = poller.beside
           /\ poller'.seen = poller.seen \cup ToSet(batch')
           /\ batch' \in Seq(Fills)
           /\ \A k, l \in DOMAIN batch' : k < l => At(batch'[k]) <= At(batch'[l])
           /\ \A k, l \in DOMAIN batch' : batch'[k] = batch'[l] => k = l
           /\ \A f \in ToSet(batch') :
                /\ f \in Heard /\ Wanted(f) /\ f \notin poller.seen
                /\ ~IsTwap(f) => /\ At(f) >= RequestStart(poller, Of(f))
                                 /\ At(f) <= poller'.high[Of(f)]
                /\ IsTwap(f) => /\ poller.twapLast[Of(f)] <= At(f)
                                /\ At(f) <= poller'.twapLast[Of(f)]
                                /\ At(f) >= poller.horizon
           /\ \A w \in Wallets :
                /\ poller.high[w] <= poller'.high[w]
                /\ AfterOverlap(poller.high[w]) <= RequestStart(poller, w)
                        => AfterOverlap(poller'.high[w]) <= RequestStart(poller', w)
                /\ RequestStart(poller, w) <= RequestStart(poller', w)
                /\ poller.twapLast[w] <= poller'.twapLast[w]
                /\ {poller'.high[w], poller'.page[w], poller'.floor[w]} \subseteq 0..clock
           /\ \A f \in Heard :
                /\ Wanted(f) /\ ~IsTwap(f) /\ At(f) >= RequestStart(poller, Of(f))
                /\ \/ At(f) < RequestStart(poller', Of(f))
                   \/ \E g \in ToSet(batch') : ~IsTwap(g) /\ Of(g) = Of(f) /\ At(f) < At(g)
                => f \in poller'.seen
<1> DEFINE read == {w \in Wallets \ failed : ~Unpageable(Answer(w))}
           twapRead == IF TwapDue THEN Wallets \ twapFailed ELSE {}
           E == (UNION {NewFills(w) : w \in read}) \cup (UNION {Emittable(w) : w \in twapRead})
<1>1. Live /\ batch = <<>> /\ poller' = Swept(read, twapRead) /\ batch' = InTimeOrder(E)
  BY DEF Poll, Emitted
<1>2. read \in SUBSET Wallets /\ twapRead \in SUBSET Wallets OBVIOUS
<1> HIDE DEF read, twapRead
<1>3. poller \in Memory /\ clock \in Nat /\ Heard \in SUBSET Fills /\ fill \in Histories
  BY <1>1, HeardIs DEF WalletState, PollerTyped
<1>4. /\ poller' \in Memory /\ poller'.run = poller.run
      /\ poller'.born = poller.born /\ poller'.horizon = poller.horizon /\ poller'.beside = poller.beside
      /\ poller'.seen = poller.seen \cup E
      /\ \A w \in Wallets :
            /\ poller'.high[w] = IF w \in read THEN Highwater(w) ELSE poller.high[w]
            /\ poller'.page[w] = IF w \in read THEN Boundary(w) ELSE poller.page[w]
            /\ poller'.floor[w] = IF w \in read THEN ResumeFloor(w) ELSE poller.floor[w]
            /\ poller.twapLast[w] <= poller'.twapLast[w]
            /\ w \in twapRead => \A f \in Emittable(w) : At(f) <= poller'.twapLast[w]
            /\ {poller'.high[w], poller'.page[w], poller'.floor[w]} \subseteq 0..clock
  <2>1. poller.seen \cup (UNION {NewFills(w) : w \in read}) \cup (UNION {Emittable(w) : w \in twapRead})
        = poller.seen \cup E OBVIOUS
  <2> HIDE DEF E
  <2> QED BY <1>1, <1>2, <2>1, SweptIs
<1>5. ASSUME NEW f \in E
      PROVE  /\ f \in Heard /\ f \in Fills /\ Wanted(f) /\ f \notin poller.seen /\ Of(f) \in Wallets
             /\ ~IsTwap(f) => /\ At(f) >= RequestStart(poller, Of(f))
                              /\ f \in NewFills(Of(f)) /\ Of(f) \in read
                              /\ At(f) <= poller'.high[Of(f)]
             /\ IsTwap(f) => /\ poller.twapLast[Of(f)] <= At(f) /\ At(f) <= poller'.twapLast[Of(f)]
                             /\ At(f) >= poller.horizon
  <2>1. CASE \E w \in read : f \in NewFills(w)
    <3>1. PICK w \in read : f \in NewFills(w) BY <2>1
    <3>2. /\ f \in Heard /\ Wanted(f) /\ ~IsTwap(f) /\ Of(f) = w
          /\ At(f) >= RequestStart(poller, w) /\ f \notin poller.seen /\ At(f) <= Highwater(w)
      BY <1>1, <1>2, <3>1, TurnIs
    <3>3. poller'.high[w] = Highwater(w) BY <1>2, <1>4, <3>1
    <3> HIDE DEF E
    <3> QED BY <1>2, <1>3, <3>1, <3>2, <3>3
  <2>2. CASE \E w \in twapRead : f \in Emittable(w)
    <3>1. PICK w \in twapRead : f \in Emittable(w) BY <2>2
    <3>2. /\ f \in Heard /\ Wanted(f) /\ IsTwap(f) /\ Of(f) = w
          /\ f \notin poller.seen /\ At(f) >= poller.twapLast[w] /\ At(f) >= poller.horizon
      BY <3>1, SlicesAre
    <3>3. At(f) <= poller'.twapLast[w] BY <1>2, <1>4, <3>1
    <3>4. At(f) \in Nat BY <1>3, <3>2, FillsAre
    <3>5. poller.twapLast[w] \in Nat BY <1>2, <1>3, <3>1 DEF Memory
    <3>6. poller.twapLast[w] <= At(f) BY <3>2, <3>4, <3>5
    <3>7. f \in Fills /\ w \in Wallets BY <1>2, <1>3, <3>2
    <3> HIDE DEF E
    <3> QED BY <3>2, <3>3, <3>6, <3>7
  <2> QED BY <2>1, <2>2
<1> HIDE DEF E
<1>6. /\ batch' \in Seq(Fills) /\ ToSet(batch') = E
      /\ \A k, l \in DOMAIN batch' : k < l => At(batch'[k]) <= At(batch'[l])
      /\ \A k, l \in DOMAIN batch' : batch'[k] = batch'[l] => k = l
  <2>1. E \in SUBSET Fills BY <1>5
  <2>2. /\ batch' \in Seq(E) /\ ToSet(batch') = E
        /\ \A k, l \in DOMAIN batch' : k < l => At(batch'[k]) <= At(batch'[l])
        /\ \A k, l \in DOMAIN batch' : batch'[k] = batch'[l] => k = l
    BY <1>1, <1>3, <2>1, OrderIs
  <2> QED BY <2>1, <2>2, SeqMonotonic
<1>7. ASSUME NEW w \in Wallets
      PROVE  /\ RequestStart(poller, w) <= RequestStart(poller', w)
             /\ w \notin read => RequestStart(poller', w) = RequestStart(poller, w)
             /\ w \in read /\ Boundary(w) # 0 => RequestStart(poller', w) = Boundary(w)
             /\ poller.high[w] <= poller'.high[w]
             /\ AfterOverlap(poller.high[w]) <= RequestStart(poller, w)
                    => AfterOverlap(poller'.high[w]) <= RequestStart(poller', w)
  <2>1. /\ RequestStart(poller, w) \in Nat /\ RequestStart(poller', w) \in Nat
        /\ RequestStart(poller, w) =
             IF poller.page[w] # 0 THEN poller.page[w]
             ELSE IF AfterOverlap(poller.high[w]) >= poller.floor[w] THEN AfterOverlap(poller.high[w])
                  ELSE poller.floor[w]
        /\ RequestStart(poller', w) =
             IF poller'.page[w] # 0 THEN poller'.page[w]
             ELSE IF AfterOverlap(poller'.high[w]) >= poller'.floor[w] THEN AfterOverlap(poller'.high[w])
                  ELSE poller'.floor[w]
        /\ AfterOverlap(poller.high[w]) \in Nat /\ AfterOverlap(poller'.high[w]) \in Nat
    BY <1>3, <1>4, StartOf
  <2>2. poller.high[w] \in Nat /\ poller.page[w] \in Nat /\ poller.floor[w] \in Nat
        /\ poller'.high[w] \in Nat /\ poller'.page[w] \in Nat /\ poller'.floor[w] \in Nat
    BY <1>3, <1>4 DEF Memory
  <2>3. /\ poller'.high[w] = IF w \in read THEN Highwater(w) ELSE poller.high[w]
        /\ poller'.page[w] = IF w \in read THEN Boundary(w) ELSE poller.page[w]
        /\ poller'.floor[w] = IF w \in read THEN ResumeFloor(w) ELSE poller.floor[w]
    BY <1>4
  <2>4. CASE w \notin read BY <2>1, <2>2, <2>3, <2>4
  <2>5. CASE w \in read /\ Boundary(w) # 0
    <3>1. Boundary(w) >= RequestStart(poller, w) BY <1>1, <2>5, TurnIs
    <3>2. RequestStart(poller', w) = Boundary(w) BY <2>1, <2>3, <2>5
    <3>3. poller.high[w] <= poller'.high[w] /\ poller'.high[w] \in {poller.high[w], Boundary(w)}
      BY <1>1, <2>3, <2>5, TurnIs
    <3>4. Boundary(w) \in Nat \ {0} BY <2>1, <2>5, <3>2
    <3>5. AfterOverlap(Boundary(w)) <= Boundary(w)
      <4>1. Overlap \in Nat BY WalletFlowAssumption
      <4> QED BY <3>4, <4>1, OverlapIs
    <3> QED BY <2>1, <2>5, <3>1, <3>2, <3>3, <3>4, <3>5
  <2>6. CASE w \in read /\ Boundary(w) = 0
    <3>1. poller.high[w] <= poller'.high[w] BY <1>1, <2>3, <2>6, TurnIs
    <3>2. AfterOverlap(poller.high[w]) <= AfterOverlap(poller'.high[w])
      <4>1. Overlap \in Nat BY WalletFlowAssumption
      <4> QED BY <2>2, <3>1, <4>1, OverlapIs
    <3>3. poller'.page[w] = 0 BY <2>3, <2>6
    <3>4. poller'.floor[w] = IF poller.page[w] # 0 THEN poller.page[w] ELSE poller.floor[w]
      BY <2>3, <2>6 DEF ResumeFloor
    <3> QED BY <2>1, <2>2, <2>6, <3>1, <3>2, <3>3, <3>4
  <2> QED BY <2>4, <2>5, <2>6
<1>8. ASSUME NEW f \in Heard,
             Wanted(f) /\ ~IsTwap(f) /\ At(f) >= RequestStart(poller, Of(f)),
             \/ At(f) < RequestStart(poller', Of(f))
             \/ \E g \in E : ~IsTwap(g) /\ Of(g) = Of(f) /\ At(f) < At(g)
      PROVE  f \in poller'.seen
  <2>1. PICK w \in Wallets : w = Of(f) BY <1>3, FillsAre
  <2>2. At(f) \in Nat /\ RequestStart(poller, w) \in Nat BY <1>3, <2>1, FillsAre, StartOf
  <2>3. w \in read => f \in poller.seen \cup NewFills(w)
    <3>1. CASE \E g \in E : ~IsTwap(g) /\ Of(g) = Of(f) /\ At(f) < At(g)
      <4>1. PICK g \in E : ~IsTwap(g) /\ Of(g) = Of(f) /\ At(f) < At(g) BY <3>1
      <4>2. g \in NewFills(w) BY <1>5, <2>1, <4>1
      <4> QED BY <1>1, <1>8, <2>1, <4>1, <4>2, TurnIs
    <3>2. CASE w \in read /\ At(f) < RequestStart(poller', w)
      <4>1. Boundary(w) = 0 \/ At(f) < Boundary(w) BY <1>7, <3>2
      <4> QED BY <1>1, <1>8, <2>1, <4>1, TurnIs
    <3> QED BY <1>8, <2>1, <3>1, <3>2
  <2>4. w \in read
    <3>1. CASE w \notin read
      <4>1. RequestStart(poller', w) = RequestStart(poller, w) BY <1>7, <3>1
      <4>2. ~(At(f) < RequestStart(poller', w)) BY <1>8, <2>1, <2>2, <4>1
      <4>3. PICK g \in E : ~IsTwap(g) /\ Of(g) = Of(f) BY <1>8, <2>1, <4>2
      <4> QED BY <1>5, <2>1, <3>1, <4>3
    <3> QED BY <3>1
  <2>5. NewFills(w) \subseteq E BY <2>4 DEF E
  <2> QED BY <1>4, <2>3, <2>4, <2>5
<1>9. \A w \in Wallets :
        /\ poller.high[w] <= poller'.high[w]
        /\ AfterOverlap(poller.high[w]) <= RequestStart(poller, w)
                => AfterOverlap(poller'.high[w]) <= RequestStart(poller', w)
        /\ RequestStart(poller, w) <= RequestStart(poller', w)
        /\ poller.twapLast[w] <= poller'.twapLast[w]
        /\ {poller'.high[w], poller'.page[w], poller'.floor[w]} \subseteq 0..clock
  BY <1>4, <1>7
<1> QED BY <1>1, <1>4, <1>5, <1>6, <1>8, <1>9

-----------------------------------------------------------------------------
(* What a step does to the runs.                                             *)

\* The runs but one are as they were.
OnlyRun(o) ==
    /\ runs' \in Seq(FlowRun) /\ DOMAIN runs' = DOMAIN runs /\ Len(runs') = Len(runs)
    /\ o \in DOMAIN runs /\ \A i \in DOMAIN runs : i # o => runs'[i] = runs[i]

\* A step that replaces one run leaves the others.
LEMMA RunReplaced ==
    ASSUME runs \in Seq(FlowRun), NEW o \in DOMAIN runs, NEW r \in FlowRun,
           runs' = [runs EXCEPT ![o] = r]
    PROVE  OnlyRun(o) /\ runs'[o] = r
<1>1. runs \in [1..Len(runs) -> FlowRun] /\ Len(runs) \in Nat /\ DOMAIN runs = 1..Len(runs) OBVIOUS
<1>2. runs' \in [1..Len(runs) -> FlowRun] /\ runs'[o] = r /\ \A i \in DOMAIN runs : i # o => runs'[i] = runs[i]
  BY <1>1
<1>3. runs' \in Seq(FlowRun) BY <1>1, <1>2
<1>4. Len(runs') = Len(runs) /\ DOMAIN runs' = DOMAIN runs BY <1>1, <1>2, <1>3
<1> QED BY <1>2, <1>3, <1>4 DEF OnlyRun

\* A row is written: the head of the batch.
LEMMA WriteIs ==
    ASSUME WalletState, Deliver
    PROVE  /\ Live /\ OnlyRun(poller.run) /\ ~runs[poller.run].node /\ runs[poller.run].state = "open"
           /\ runs'[poller.run] = [runs[poller.run] EXCEPT !.rows = runs'[poller.run].rows]
           /\ runs'[poller.run].rows \in Seq(Fills)
           /\ DOMAIN runs'[poller.run].rows = 1..(Len(runs[poller.run].rows) + 1)
           /\ Len(runs'[poller.run].rows) = Len(runs[poller.run].rows) + 1
           /\ \A j \in DOMAIN runs[poller.run].rows : runs'[poller.run].rows[j] = runs[poller.run].rows[j]
           /\ runs'[poller.run].rows[Len(runs[poller.run].rows) + 1] = batch[1]
           /\ 1 \in DOMAIN batch /\ batch' \in Seq(Fills)
           /\ \A k \in DOMAIN batch' : k + 1 \in DOMAIN batch /\ batch'[k] = batch[k + 1]
           /\ \A k \in DOMAIN batch : k = 1 \/ (k - 1 \in DOMAIN batch' /\ batch'[k - 1] = batch[k])
<1> DEFINE o == poller.run
           rows == runs[o].rows
           t == Append(rows, Head(batch))
           r == [runs[o] EXCEPT !.rows = t]
<1>1. /\ batch \in Seq(Fills) /\ batch # <<>> /\ Live /\ o \in DOMAIN runs /\ runs \in Seq(FlowRun)
      /\ ~runs[o].node /\ runs[o].state = "open"
  BY DEF WalletState, PollerTyped, RunsTyped, Deliver
<1>2. Head(batch) \in Fills /\ Head(batch) = batch[1] /\ 1 \in DOMAIN batch BY <1>1
<1>3. runs[o] \in FlowRun /\ rows \in Seq(Fills) BY <1>1, RunTyped DEF WalletState
<1>4. /\ t \in Seq(Fills) /\ DOMAIN t = 1..(Len(rows) + 1)
      /\ \A k \in DOMAIN rows : t[k] = rows[k]
      /\ t[Len(rows) + 1] = Head(batch) /\ Len(rows) \in Nat
  BY <1>2, <1>3, RowsAppended
<1>5. runs' = [runs EXCEPT ![o] = r] BY DEF Deliver
<1> HIDE DEF t
<1>6. r \in FlowRun /\ r.rows = t BY <1>3, <1>4 DEF FlowRun
<1>7. OnlyRun(o) /\ runs'[o] = r BY <1>1, <1>5, <1>6, RunReplaced
<1>8. /\ batch' \in Seq(Fills)
      /\ \A k \in DOMAIN batch' : k + 1 \in DOMAIN batch /\ batch'[k] = batch[k + 1]
      /\ \A k \in DOMAIN batch : k = 1 \/ (k - 1 \in DOMAIN batch' /\ batch'[k - 1] = batch[k])
  <2>1. batch' = Tail(batch) BY DEF Deliver
  <2>2. /\ batch' \in Seq(Fills) /\ Len(batch') = Len(batch) - 1
        /\ \A k \in 1..Len(batch') : batch'[k] = batch[k + 1]
    BY <1>1, <2>1, HeadTailProperties
  <2>3. DOMAIN batch = 1..Len(batch) /\ Len(batch) \in Nat /\ DOMAIN batch' = 1..Len(batch') BY <1>1, <2>2
  <2> QED BY <2>2, <2>3
<1>9. Len(t) = Len(rows) + 1 BY <1>4
<1>10. runs'[o] = [runs[o] EXCEPT !.rows = runs'[o].rows] /\ runs'[o].rows = t BY <1>3, <1>6, <1>7 DEF FlowRun
<1> QED BY <1>1, <1>2, <1>4, <1>7, <1>8, <1>9, <1>10

\* A segment ends: the open run is closed, or dead and short of a row.
LEMMA StopIs ==
    ASSUME WalletState, EndSegment \/ KillPoller
    PROVE  /\ Live /\ OnlyRun(poller.run) /\ ~runs[poller.run].node /\ ~runs'[poller.run].node
           /\ runs'[poller.run].state # "open"
           /\ runs'[poller.run].born = runs[poller.run].born
           /\ runs'[poller.run].place = runs[poller.run].place
           /\ DOMAIN runs'[poller.run].rows \subseteq DOMAIN runs[poller.run].rows
           /\ \A j \in DOMAIN runs'[poller.run].rows : runs'[poller.run].rows[j] = runs[poller.run].rows[j]
           /\ \A j \in DOMAIN runs[poller.run].rows :
                j < Len(runs[poller.run].rows) => j \in DOMAIN runs'[poller.run].rows
           /\ poller' = NoPoller /\ batch' = <<>>
<1> DEFINE o == poller.run
           rows == runs[o].rows
<1>1. Live /\ o \in DOMAIN runs /\ runs \in Seq(FlowRun) /\ ~runs[o].node /\ poller' = NoPoller /\ batch' = <<>>
  BY DEF WalletState, PollerTyped, RunsTyped, EndSegment, KillPoller
<1>2. runs[o] \in FlowRun /\ rows \in Seq(Fills) /\ Len(rows) \in Nat /\ DOMAIN rows = 1..Len(rows)
  BY <1>1, RunTyped DEF WalletState
<1>3. CASE EndSegment
  <2> DEFINE r == [runs[o] EXCEPT !.state = "closed"]
  <2>1. runs' = [runs EXCEPT ![o] = r] BY <1>3 DEF EndSegment
  <2>2. r \in FlowRun /\ r.rows = rows /\ r.node = runs[o].node /\ r.state # "open" /\ r.born = runs[o].born
        /\ r.place = runs[o].place
    BY <1>2 DEF FlowRun
  <2> HIDE DEF r
  <2>3. OnlyRun(o) /\ runs'[o] = r BY <1>1, <2>1, <2>2, RunReplaced
  <2> QED BY <1>1, <2>2, <2>3
<1>4. CASE KillPoller
  <2>1. PICK lost \in 0..1 :
          /\ lost <= Len(rows)
          /\ runs' = [runs EXCEPT ![o].state = "dead", ![o].rows = SubSeq(@, 1, Len(@) - lost)]
    BY <1>4 DEF KillPoller
  <2> DEFINE t == SubSeq(rows, 1, Len(rows) - lost)
             r == [runs[o] EXCEPT !.state = "dead", !.rows = t]
  <2>2. runs' = [runs EXCEPT ![o] = r]
    <3>1. runs \in [1..Len(runs) -> FlowRun] /\ o \in 1..Len(runs) BY <1>1
    <3> QED BY <1>2, <2>1, <3>1 DEF FlowRun
  <2>3. /\ t \in Seq(Fills) /\ DOMAIN t = 1..(Len(rows) - lost) /\ DOMAIN t \subseteq DOMAIN rows
        /\ \A k \in DOMAIN t : t[k] = rows[k]
    BY <1>2, <2>1, RowsCut
  <2> HIDE DEF t
  <2>4. r \in FlowRun /\ r.rows = t /\ r.node = runs[o].node /\ r.state = "dead" /\ r.born = runs[o].born
        /\ r.place = runs[o].place
    BY <1>2, <2>3 DEF FlowRun
  <2> HIDE DEF r
  <2>5. OnlyRun(o) /\ runs'[o] = r BY <1>1, <2>2, <2>4, RunReplaced
  <2>6. \A j \in DOMAIN rows : j < Len(rows) => j \in DOMAIN t BY <1>2, <2>3
  <2> QED BY <1>1, <2>3, <2>4, <2>5, <2>6
<1> QED BY <1>3, <1>4

\* A run moves, rows and all.
LEMMA MoveIs ==
    ASSUME WalletState, NEW i \in DOMAIN runs, Promote(i) \/ Quarantine(i) \/ Offload(i)
    PROVE  /\ OnlyRun(i) /\ runs'[i].rows = runs[i].rows /\ runs'[i].node = runs[i].node
           /\ runs'[i].state = runs[i].state /\ runs'[i].born = runs[i].born
           /\ i \in HotRuns
           /\ UNCHANGED <<fill, clock, heard, poller, batch, plan, crashes, backfills, forgotten, passed>>
<1>1. PICK to \in {"promoted", "quarantined", "cold"} : \E from \in {"raw", "promoted"} : Moves(i, from, to)
  <2>1. CASE Promote(i) BY <2>1 DEF Promote
  <2>2. CASE Quarantine(i) BY <2>2 DEF Quarantine
  <2>3. CASE Offload(i) BY <2>3 DEF Offload
  <2> QED BY <2>1, <2>2, <2>3
<1>2. /\ runs' = [runs EXCEPT ![i].place = to] /\ runs[i].place \in {"raw", "promoted"}
      /\ UNCHANGED <<fill, clock, heard, poller, batch, plan, crashes, backfills, forgotten, passed>>
  BY <1>1 DEF Moves
<1> DEFINE r == [runs[i] EXCEPT !.place = to]
<1>3. runs' = [runs EXCEPT ![i] = r] /\ runs \in Seq(FlowRun) BY <1>2 DEF WalletState, RunsTyped
<1>4. r \in FlowRun /\ r.rows = runs[i].rows /\ r.node = runs[i].node /\ r.state = runs[i].state
      /\ r.born = runs[i].born
  BY RunTyped DEF FlowRun, WalletState
<1> HIDE DEF r
<1>5. OnlyRun(i) /\ runs'[i] = r BY <1>3, <1>4, RunReplaced
<1>6. i \in HotRuns BY <1>2 DEF HotRuns, InPlaces
<1> QED BY <1>2, <1>4, <1>5, <1>6

\* A run begins.
LEMMA RunAdded ==
    ASSUME WalletState, NEW r \in FlowRun, runs' = Append(runs, r)
    PROVE  /\ runs' \in Seq(FlowRun) /\ DOMAIN runs = 1..Len(runs) /\ Len(runs) \in Nat
           /\ DOMAIN runs' = 1..(Len(runs) + 1)
           /\ runs'[Len(runs) + 1] = r /\ \A i \in DOMAIN runs : runs'[i] = runs[i]
BY RowsAppended DEF WalletState, RunsTyped

\* A segment starts with what it finds on disk.
LEMMA StartIs ==
    ASSUME WalletState, StartSegment
    PROVE  /\ ~Live /\ batch' = <<>>
           /\ \E r \in FlowRun : /\ runs' = Append(runs, r) /\ r.rows = <<>> /\ ~r.node
                                 /\ r.state = "open" /\ r.born = clock
           /\ poller' \in Memory /\ poller'.run = Len(runs) + 1 /\ poller'.seen = RowsIn(HotRuns)
           /\ poller'.born = clock /\ poller'.horizon = Horizon(clock) /\ (poller'.beside <=> plan # NoPlan)
           /\ \A w \in Wallets :
                /\ poller'.high[w] = DurableHighwater(w)
                /\ poller'.high[w] \in 0..clock /\ poller'.page[w] = 0 /\ poller'.floor[w] = 0
                /\ RequestStart(poller', w) = AfterOverlap(DurableHighwater(w))
<1>1. ~Live /\ batch' = <<>> /\ poller' = NewPoller /\ runs' = Append(runs, NewRun(<<>>, FALSE, "raw", "open"))
  BY DEF StartSegment
<1>2. runs \in Seq(FlowRun) /\ Len(runs) \in Nat /\ clock \in Nat BY DEF WalletState, RunsTyped
<1>3. NewRun(<<>>, FALSE, "raw", "open") \in FlowRun BY <1>2 DEF NewRun, FlowRun
<1>4. \A w \in Wallets : DurableHighwater(w) \in 0..clock BY HighwaterIs
<1>5. RowsIn(HotRuns) \in SUBSET Fills
  <2>1. HotRuns \in SUBSET DOMAIN runs BY DEF HotRuns, InPlaces
  <2>2. ASSUME NEW f \in RowsIn(HotRuns) PROVE f \in Fills
    <3>1. PICK i \in HotRuns : \E j \in DOMAIN runs[i].rows : runs[i].rows[j] = f BY <2>1, RecordedIs
    <3> QED BY <2>1, <3>1, RunTyped DEF WalletState
  <2> QED BY <2>2
<1>6. Horizon(clock) \in Nat
  <2> DEFINE S == {clock} \cup {runs[i].born : i \in HotRuns}
  <2>1. \A i \in HotRuns : runs[i].born \in Nat
    <3>1. HotRuns \in SUBSET DOMAIN runs BY DEF HotRuns, InPlaces
    <3> QED BY <3>1, RunTyped DEF WalletState, FlowRun
  <2>2. S \in SUBSET Nat /\ S # {} BY <1>2, <2>1
  <2>3. Horizon(clock) = Min(S) + TwapMargin BY DEF Horizon
  <2> HIDE DEF S
  <2>4. Min(S) \in S BY <2>2, MinOfIds
  <2>5. TwapMargin \in Nat BY WalletFlowAssumption
  <2>6. Min(S) \in Nat BY <2>2, <2>4
  <2> QED BY <2>3, <2>5, <2>6
<1>7. (HotRuns = {}) \in BOOLEAN /\ (plan # NoPlan) \in BOOLEAN OBVIOUS
<1> DEFINE hi == [w \in Wallets |-> DurableHighwater(w)]
           z == [w \in Wallets |-> 0]
<1>8. hi \in [Wallets -> Nat] /\ z \in [Wallets -> Nat] BY <1>2, <1>4
<1>9. poller' = [run |-> Len(runs) + 1, born |-> clock, alone |-> HotRuns = {}, beside |-> plan # NoPlan,
                 seen |-> RowsIn(HotRuns), high |-> hi, page |-> z, floor |-> z, twapLast |-> z,
                 horizon |-> Horizon(clock), polls |-> 0]
  BY <1>1 DEF NewPoller
<1>10. \A w \in Wallets : hi[w] = DurableHighwater(w) /\ z[w] = 0 OBVIOUS
<1> HIDE DEF hi, z
<1>11. poller' \in Memory /\ poller'.run = Len(runs) + 1 /\ poller'.seen = RowsIn(HotRuns)
       /\ poller'.high = hi /\ poller'.page = z /\ poller'.floor = z
       /\ poller'.born = clock /\ poller'.horizon = Horizon(clock) /\ (poller'.beside <=> plan # NoPlan)
  <2>1. Len(runs) + 1 \in Nat \ {0} /\ 0 \in Nat BY <1>2
  <2> QED BY <1>2, <1>5, <1>6, <1>7, <1>8, <1>9, <2>1 DEF Memory
<1>12. ASSUME NEW w \in Wallets
       PROVE  /\ poller'.high[w] = DurableHighwater(w)
              /\ poller'.high[w] \in 0..clock /\ poller'.page[w] = 0 /\ poller'.floor[w] = 0
              /\ RequestStart(poller', w) = AfterOverlap(DurableHighwater(w))
  <2>1. poller'.high[w] = DurableHighwater(w) /\ poller'.page[w] = 0 /\ poller'.floor[w] = 0
    BY <1>10, <1>11
  <2>2. /\ RequestStart(poller', w) =
             IF poller'.page[w] # 0 THEN poller'.page[w]
             ELSE IF AfterOverlap(poller'.high[w]) >= poller'.floor[w] THEN AfterOverlap(poller'.high[w])
                  ELSE poller'.floor[w]
        /\ AfterOverlap(poller'.high[w]) \in Nat \ {0}
    BY <1>11, StartOf
  <2> QED BY <1>4, <2>1, <2>2
<1>13. \E r \in FlowRun : /\ runs' = Append(runs, r) /\ r.rows = <<>> /\ ~r.node
                          /\ r.state = "open" /\ r.born = clock
  <2>1. NewRun(<<>>, FALSE, "raw", "open").rows = <<>> /\ ~NewRun(<<>>, FALSE, "raw", "open").node
        /\ NewRun(<<>>, FALSE, "raw", "open").state = "open" /\ NewRun(<<>>, FALSE, "raw", "open").born = clock
    BY DEF NewRun
  <2> QED BY <1>1, <1>3, <2>1
<1> QED BY <1>1, <1>11, <1>12, <1>13

\* A backfill writes a run of its own, in the order of times.
LEMMA BackfillIs ==
    ASSUME WalletState, BackfillWrite
    PROVE  \E r \in FlowRun :
            /\ runs' = Append(runs, r) /\ r.node /\ r.state = "closed" /\ r.born = clock
            /\ \A j \in DOMAIN r.rows : r.rows[j] \in plan.fills
            /\ \A f \in plan.fills : \E j \in DOMAIN r.rows : r.rows[j] = f
            /\ \A k, l \in DOMAIN r.rows : k < l => At(r.rows[k]) <= At(r.rows[l])
            /\ r.place = "raw" /\ \A k, l \in DOMAIN r.rows : r.rows[k] = r.rows[l] => k = l
<1> DEFINE s == InTimeOrder(plan.fills)
           r == NewRun(s, TRUE, "raw", "closed")
<1>1. plan.fills \in SUBSET Fills /\ fill \in Histories /\ clock \in Nat BY DEF WalletState
<1>2. /\ s \in Seq(plan.fills) /\ ToSet(s) = plan.fills
      /\ \A k, l \in DOMAIN s : k < l => At(s[k]) <= At(s[l])
      /\ \A k, l \in DOMAIN s : s[k] = s[l] => k = l
  BY <1>1, OrderIs
<1> HIDE DEF s
<1>3. s \in Seq(Fills) BY <1>1, <1>2, SeqMonotonic
<1>4. r \in FlowRun /\ r.rows = s /\ r.node /\ r.state = "closed" /\ r.born = clock /\ r.place = "raw"
  BY <1>1, <1>3 DEF NewRun, FlowRun
<1>5. runs' = Append(runs, r) BY DEF BackfillWrite, s
<1>6. /\ \A j \in DOMAIN s : s[j] \in plan.fills
      /\ \A f \in plan.fills : \E j \in DOMAIN s : s[j] = f
  BY <1>2 DEF ToSet
<1> HIDE DEF r
<1> QED BY <1>2, <1>4, <1>5, <1>6

\* What the other steps leave alone.
Rest == UNCHANGED <<fill, clock, heard, passed>>

\* Of the steps of the lane: which ones move what.
LEMMA StepCases ==
    ASSUME WalletState, WalletNext
    PROVE  /\ fill' = fill /\ fill' \in Histories
           /\ \/ StartSegment \/ Deliver \/ EndSegment \/ KillPoller
              \/ \E failed \in SUBSET Fillers, twapFailed \in SUBSET Slicers : Poll(failed, twapFailed)
              \/ \E i \in DOMAIN runs : Promote(i) \/ Quarantine(i) \/ Offload(i)
              \/ \E w \in Wallets : BackfillScan(w)
              \/ BackfillWrite
              \/ \E f \in Fills : Publish(f)
              \/ ClockTick
           /\ Rest \/ (\E f \in Fills : Publish(f)) \/ ClockTick
           /\ UNCHANGED plan \/ (\E w \in Wallets : BackfillScan(w)) \/ BackfillWrite
<1> USE DEF Rest
<1>1. CASE StartSegment BY <1>1 DEF WalletState, StartSegment
<1>2. CASE Deliver BY <1>2 DEF WalletState, Deliver
<1>3. CASE EndSegment BY <1>3 DEF WalletState, EndSegment
<1>4. CASE KillPoller BY <1>4 DEF WalletState, KillPoller
<1>5. CASE \E failed \in SUBSET Fillers, twapFailed \in SUBSET Slicers : Poll(failed, twapFailed)
  BY <1>5 DEF WalletState, Poll
<1>6. CASE \E i \in DOMAIN runs : Promote(i) \/ Quarantine(i) \/ Offload(i)
  BY <1>6 DEF WalletState, Promote, Quarantine, Offload, Moves
<1>7. CASE \E w \in Wallets : BackfillScan(w) BY <1>7 DEF WalletState, BackfillScan
<1>8. CASE BackfillWrite BY <1>8 DEF WalletState, BackfillWrite
<1>9. CASE \E f \in Fills : Publish(f) BY <1>9 DEF WalletState, Publish
<1>10. CASE ClockTick BY <1>10 DEF WalletState, ClockTick
<1> QED BY <1>1, <1>2, <1>3, <1>4, <1>5, <1>6, <1>7, <1>8, <1>9, <1>10 DEF WalletNext

\* A row of a step's runs is an old one, the head of the batch in the live run, or a fill
\* of the plan in a run of a backfill.
RowsFromBefore ==
    \A i \in DOMAIN runs' : \A j \in DOMAIN runs'[i].rows :
        \/ /\ i \in DOMAIN runs /\ j \in DOMAIN runs[i].rows
           /\ runs'[i].rows[j] = runs[i].rows[j] /\ runs'[i].node = runs[i].node
        \/ /\ Deliver /\ i = poller.run /\ i \in DOMAIN runs /\ ~runs'[i].node
           /\ j = Len(runs[i].rows) + 1 /\ 1 \in DOMAIN batch /\ runs'[i].rows[j] = batch[1]
        \/ /\ BackfillWrite /\ i \notin DOMAIN runs /\ runs'[i].node /\ runs'[i].rows[j] \in plan.fills

\* And the old ones stay, but for the last row of a run whose process is killed.
RowsStay ==
    \A i \in DOMAIN runs : \A j \in DOMAIN runs[i].rows :
        \/ /\ i \in DOMAIN runs' /\ j \in DOMAIN runs'[i].rows /\ runs'[i].rows[j] = runs[i].rows[j]
           /\ j < Len(runs[i].rows) => j < Len(runs'[i].rows) \/ runs'[i].state # "open"
           /\ runs[i].state # "open" => runs'[i].state # "open"
        \/ KillPoller /\ i = poller.run /\ j = Len(runs[i].rows)

\* What a step does to the rows of all the runs.
LEMMA RowsMove == ASSUME WalletState, WalletNext PROVE RowsFromBefore /\ RowsStay /\ runs' \in Seq(FlowRun)
<1>0. /\ runs \in Seq(FlowRun)
      /\ \A i \in DOMAIN runs : DOMAIN runs[i].rows = 1..Len(runs[i].rows) /\ Len(runs[i].rows) \in Nat
  BY RunTyped DEF WalletState, RunsTyped
<1>1. CASE runs' = runs BY <1>0, <1>1 DEF RowsFromBefore, RowsStay
<1>2. CASE Deliver
  <2> DEFINE o == poller.run
  <2>1. /\ OnlyRun(o) /\ ~runs[o].node
        /\ runs'[o] = [runs[o] EXCEPT !.rows = runs'[o].rows]
        /\ DOMAIN runs'[o].rows = 1..(Len(runs[o].rows) + 1)
        /\ Len(runs'[o].rows) = Len(runs[o].rows) + 1
        /\ \A j \in DOMAIN runs[o].rows : runs'[o].rows[j] = runs[o].rows[j]
        /\ runs'[o].rows[Len(runs[o].rows) + 1] = batch[1] /\ 1 \in DOMAIN batch
    BY <1>2, WriteIs
  <2>2. /\ DOMAIN runs' = DOMAIN runs /\ o \in DOMAIN runs /\ runs' \in Seq(FlowRun)
        /\ \A i \in DOMAIN runs : i # o => runs'[i] = runs[i]
    BY <2>1 DEF OnlyRun
  <2>3. runs'[o].node = runs[o].node /\ runs'[o].state = runs[o].state
    <3>1. runs[o] \in FlowRun BY <2>2, RunTyped DEF WalletState
    <3> QED BY <2>1, <3>1 DEF FlowRun
  <2> HIDE DEF o
  <2>4. RowsFromBefore
    <3>1. ASSUME NEW i \in DOMAIN runs', NEW j \in DOMAIN runs'[i].rows
          PROVE  \/ /\ i \in DOMAIN runs /\ j \in DOMAIN runs[i].rows
                    /\ runs'[i].rows[j] = runs[i].rows[j] /\ runs'[i].node = runs[i].node
                 \/ /\ i = o /\ i \in DOMAIN runs /\ ~runs'[i].node
                    /\ j = Len(runs[i].rows) + 1 /\ 1 \in DOMAIN batch /\ runs'[i].rows[j] = batch[1]
      <4>1. CASE i # o BY <2>2, <4>1
      <4>2. CASE i = o /\ j \in DOMAIN runs[o].rows BY <2>1, <2>2, <2>3, <4>2
      <4>3. CASE i = o /\ j \notin DOMAIN runs[o].rows
        <5>1. j = Len(runs[o].rows) + 1 BY <1>0, <2>1, <2>2, <4>3
        <5> QED BY <2>1, <2>2, <2>3, <4>3, <5>1
      <4> QED BY <4>1, <4>2, <4>3
    <3> QED BY <1>2, <3>1 DEF RowsFromBefore, o
  <2>5. RowsStay
    <3>1. ASSUME NEW i \in DOMAIN runs, NEW j \in DOMAIN runs[i].rows
          PROVE  /\ i \in DOMAIN runs' /\ j \in DOMAIN runs'[i].rows /\ runs'[i].rows[j] = runs[i].rows[j]
                 /\ j < Len(runs[i].rows) => j < Len(runs'[i].rows)
                 /\ runs'[i].state = runs[i].state
      <4>1. CASE i # o BY <2>2, <4>1
      <4>2. CASE i = o BY <1>0, <2>1, <2>2, <2>3, <4>2
      <4> QED BY <4>1, <4>2
    <3> QED BY <3>1 DEF RowsStay
  <2> QED BY <2>2, <2>4, <2>5
<1>3. CASE EndSegment \/ KillPoller
  <2> DEFINE o == poller.run
  <2>1. /\ OnlyRun(o) /\ ~runs[o].node /\ ~runs'[o].node /\ runs'[o].state # "open"
        /\ DOMAIN runs'[o].rows \subseteq DOMAIN runs[o].rows
        /\ \A j \in DOMAIN runs'[o].rows : runs'[o].rows[j] = runs[o].rows[j]
        /\ \A j \in DOMAIN runs[o].rows : j < Len(runs[o].rows) => j \in DOMAIN runs'[o].rows
    BY <1>3, StopIs
  <2>2. /\ DOMAIN runs' = DOMAIN runs /\ o \in DOMAIN runs /\ runs' \in Seq(FlowRun)
        /\ \A i \in DOMAIN runs : i # o => runs'[i] = runs[i]
    BY <2>1 DEF OnlyRun
  <2>3. EndSegment => DOMAIN runs'[o].rows = DOMAIN runs[o].rows
    <3>1. ASSUME EndSegment PROVE runs'[o] = [runs[o] EXCEPT !.state = "closed"]
      <4>1. runs' = [runs EXCEPT ![o].state = "closed"] BY <3>1 DEF EndSegment
      <4> QED BY <1>0, <2>2, <4>1
    <3>2. runs[o] \in FlowRun BY <2>2, RunTyped DEF WalletState
    <3> QED BY <3>1, <3>2 DEF FlowRun
  <2>4. RowsFromBefore
    <3>1. ASSUME NEW i \in DOMAIN runs', NEW j \in DOMAIN runs'[i].rows
          PROVE  /\ i \in DOMAIN runs /\ j \in DOMAIN runs[i].rows
                 /\ runs'[i].rows[j] = runs[i].rows[j] /\ runs'[i].node = runs[i].node
      <4>1. CASE i # o BY <2>2, <4>1
      <4>2. CASE i = o
        <5>1. runs[o] \in FlowRun /\ runs'[o] \in FlowRun BY <2>2, RunTyped DEF WalletState
        <5>2. runs'[o].node = runs[o].node BY <2>1, <5>1 DEF FlowRun
        <5> QED BY <2>1, <2>2, <4>2, <5>2
      <4> QED BY <4>1, <4>2
    <3> QED BY <3>1 DEF RowsFromBefore
  <2>5. RowsStay
    <3>1. ASSUME NEW i \in DOMAIN runs, NEW j \in DOMAIN runs[i].rows
          PROVE  \/ /\ i \in DOMAIN runs' /\ j \in DOMAIN runs'[i].rows /\ runs'[i].rows[j] = runs[i].rows[j]
                    /\ j < Len(runs[i].rows) => j < Len(runs'[i].rows) \/ runs'[i].state # "open"
                    /\ runs[i].state # "open" => runs'[i].state # "open"
                 \/ KillPoller /\ i = o /\ j = Len(runs[i].rows)
      <4>1. CASE i # o BY <2>2, <4>1
      <4>2. CASE i = o /\ j \in DOMAIN runs'[o].rows BY <2>1, <2>2, <4>2
      <4>3. CASE i = o /\ j \notin DOMAIN runs'[o].rows
        <5>1. ~EndSegment BY <2>3, <4>3
        <5>2. j = Len(runs[i].rows) BY <1>0, <2>1, <4>3
        <5> QED BY <1>3, <4>3, <5>1, <5>2
      <4> QED BY <4>1, <4>2, <4>3
    <3> QED BY <3>1 DEF RowsStay
  <2> QED BY <2>2, <2>4, <2>5
<1>4. CASE \E i \in DOMAIN runs : Promote(i) \/ Quarantine(i) \/ Offload(i)
  <2>1. PICK o \in DOMAIN runs : Promote(o) \/ Quarantine(o) \/ Offload(o) BY <1>4
  <2>2. /\ OnlyRun(o) /\ runs'[o].rows = runs[o].rows /\ runs'[o].node = runs[o].node
        /\ runs'[o].state = runs[o].state
    BY <2>1, MoveIs
  <2>3. /\ DOMAIN runs' = DOMAIN runs /\ runs' \in Seq(FlowRun)
        /\ \A i \in DOMAIN runs : i # o => runs'[i] = runs[i]
    BY <2>2 DEF OnlyRun
  <2>4. \A i \in DOMAIN runs : runs'[i].rows = runs[i].rows /\ runs'[i].node = runs[i].node
                               /\ runs'[i].state = runs[i].state
    BY <2>2, <2>3
  <2> QED BY <2>3, <2>4 DEF RowsFromBefore, RowsStay
<1>5. CASE StartSegment
  <2>1. PICK r \in FlowRun : runs' = Append(runs, r) /\ r.rows = <<>> BY <1>5, StartIs
  <2>2. /\ runs' \in Seq(FlowRun) /\ DOMAIN runs = 1..Len(runs) /\ Len(runs) \in Nat
        /\ DOMAIN runs' = 1..(Len(runs) + 1)
        /\ runs'[Len(runs) + 1] = r /\ \A i \in DOMAIN runs : runs'[i] = runs[i]
    BY <2>1, RunAdded
  <2>3. \A i \in DOMAIN runs' : i \in DOMAIN runs \/ DOMAIN runs'[i].rows = {}
    <3>1. DOMAIN r.rows = {} BY <2>1
    <3> QED BY <2>2, <3>1
  <2>4. DOMAIN runs \subseteq DOMAIN runs' BY <2>2
  <2> QED BY <2>2, <2>3, <2>4 DEF RowsFromBefore, RowsStay
<1>6. CASE BackfillWrite
  <2>1. PICK r \in FlowRun : /\ runs' = Append(runs, r) /\ r.node
                             /\ \A j \in DOMAIN r.rows : r.rows[j] \in plan.fills
    BY <1>6, BackfillIs
  <2>2. /\ runs' \in Seq(FlowRun) /\ DOMAIN runs = 1..Len(runs) /\ Len(runs) \in Nat
        /\ DOMAIN runs' = 1..(Len(runs) + 1)
        /\ runs'[Len(runs) + 1] = r /\ \A i \in DOMAIN runs : runs'[i] = runs[i]
    BY <2>1, RunAdded
  <2>3. \A i \in DOMAIN runs' : i \in DOMAIN runs \/ (i \notin DOMAIN runs /\ runs'[i] = r) BY <2>2
  <2>4. DOMAIN runs \subseteq DOMAIN runs' BY <2>2
  <2>5. RowsFromBefore BY <1>6, <2>1, <2>2, <2>3 DEF RowsFromBefore
  <2>6. RowsStay BY <2>2, <2>4 DEF RowsStay
  <2> QED BY <2>2, <2>5, <2>6
<1>7. \/ runs' = runs \/ Deliver \/ EndSegment \/ KillPoller \/ StartSegment \/ BackfillWrite
      \/ \E i \in DOMAIN runs : Promote(i) \/ Quarantine(i) \/ Offload(i)
  <2>1. (\E failed \in SUBSET Fillers, twapFailed \in SUBSET Slicers : Poll(failed, twapFailed)) => runs' = runs
    BY DEF Poll
  <2>2. (\E w \in Wallets : BackfillScan(w)) => runs' = runs BY DEF BackfillScan
  <2>3. (\E f \in Fills : Publish(f)) => runs' = runs BY DEF Publish
  <2>4. ClockTick => runs' = runs BY DEF ClockTick
  <2> QED BY <2>1, <2>2, <2>3, <2>4, StepCases
<1> QED BY <1>1, <1>2, <1>3, <1>4, <1>5, <1>6, <1>7

-----------------------------------------------------------------------------
(* The types of the state.                                                   *)

\* The venue serves one fill more.
LEMMA PublishIs ==
    ASSUME WalletState, NEW f \in Fills, Publish(f)
    PROVE  /\ Heard' = Heard \cup {f} /\ f \notin Heard /\ At(f) <= clock
           /\ heard' \in Seq(Fills) /\ DOMAIN heard = 1..Len(heard) /\ Len(heard) \in Nat
           /\ DOMAIN heard' = 1..(Len(heard) + 1) /\ heard'[Len(heard) + 1] = f
           /\ \A i \in DOMAIN heard : heard'[i] = heard[i]
           /\ IsInjective(heard')
           /\ passed' = (IF TooLate(f) THEN passed \cup {f} ELSE passed) /\ passed' \in SUBSET Fills
           /\ UNCHANGED <<fill, clock, runs, poller, batch, plan, forgotten>>
<1>1. heard \in Seq(Fills) /\ heard' = Append(heard, f) /\ f \notin Heard /\ At(f) <= clock
  BY DEF WalletState, Publish
<1>2. /\ heard' \in Seq(Fills) /\ DOMAIN heard = 1..Len(heard) /\ Len(heard) \in Nat
      /\ DOMAIN heard' = 1..(Len(heard) + 1) /\ heard'[Len(heard) + 1] = f
      /\ \A i \in DOMAIN heard : heard'[i] = heard[i]
      /\ ToSet(heard') = ToSet(heard) \cup {f}
  BY <1>1, RowsAppended
<1>3. Heard' = Heard \cup {f} BY <1>2 DEF Heard
<1>4. \A i \in DOMAIN heard : heard[i] # f BY <1>1 DEF Heard, ToSet
<1>5. \A a, b \in DOMAIN heard : heard[a] = heard[b] => a = b BY DEF WalletState, IsInjective
<1>6. \A i \in DOMAIN heard' : i \in DOMAIN heard \/ i = Len(heard) + 1 BY <1>2
<1>7. IsInjective(heard') BY <1>2, <1>4, <1>5, <1>6 DEF IsInjective
<1>8. passed' = (IF TooLate(f) THEN passed \cup {f} ELSE passed) BY DEF Publish
<1>9. passed \in SUBSET Fills BY DEF WalletState
<1>10. UNCHANGED <<fill, clock, runs, poller, batch, plan, forgotten>> BY DEF Publish
<1> QED BY <1>1, <1>2, <1>3, <1>7, <1>8, <1>9, <1>10

\* Time goes on, and what was heard stays heard, in its order.
LEMMA TimesMove ==
    ASSUME WalletState, WalletNext
    PROVE  /\ clock' \in 1..MaxTime /\ clock <= clock' /\ clock \in Nat /\ clock' \in Nat
           /\ heard' \in Seq(Fills) /\ IsInjective(heard')
           /\ Heard \subseteq Heard' /\ Heard' \in SUBSET Fills /\ \A f \in Heard' : At(f) <= clock'
           /\ \A f, g : ServedBefore(f, g) => ServedBefore(f, g)'
           /\ passed \subseteq passed' /\ passed' \in SUBSET Fills
<1>0. /\ clock \in 1..MaxTime /\ MaxTime \in Nat /\ heard \in Seq(Fills) /\ IsInjective(heard)
      /\ \A f \in Heard : At(f) <= clock
      /\ passed \in SUBSET Fills /\ Heard \in SUBSET Fills /\ fill' = fill
  BY StepCases, HeardIs, WalletFlowAssumption DEF WalletState
<1>1. CASE Rest
  <2>1. clock' = clock /\ heard' = heard /\ passed' = passed BY <1>1 DEF Rest
  <2>2. Heard' = Heard /\ \A f, g : ServedBefore(f, g) = ServedBefore(f, g)' BY <2>1 DEF Heard, ServedBefore
  <2> QED BY <1>0, <2>1, <2>2
<1>2. CASE \E f \in Fills : Publish(f)
  <2>1. PICK f \in Fills : Publish(f) BY <1>2
  <2>2. /\ Heard' = Heard \cup {f} /\ At(f) <= clock
        /\ heard' \in Seq(Fills) /\ IsInjective(heard')
        /\ DOMAIN heard \subseteq DOMAIN heard' /\ \A i \in DOMAIN heard : heard'[i] = heard[i]
        /\ passed \subseteq passed' /\ passed' \in SUBSET Fills
        /\ clock' = clock
    BY <2>1, PublishIs
  <2>3. \A g, h : ServedBefore(g, h) => ServedBefore(g, h)' BY <2>2 DEF ServedBefore
  <2> QED BY <1>0, <2>2, <2>3
<1>3. CASE ClockTick
  <2>1. clock' = clock + 1 /\ clock < MaxTime /\ heard' = heard /\ passed' = passed BY <1>3 DEF ClockTick
  <2>2. Heard' = Heard /\ \A f, g : ServedBefore(f, g) = ServedBefore(f, g)' BY <2>1 DEF Heard, ServedBefore
  <2>3. \A f \in Heard : At(f) \in Nat BY <1>0, FillsAre DEF WalletState
  <2>4. \A f \in Heard : At(f) <= clock + 1 BY <1>0, <2>3
  <2> QED BY <1>0, <2>1, <2>2, <2>4
<1> QED BY <1>1, <1>2, <1>3, StepCases

\* The rows are wanted, and those of a poller were served.
LEMMA RowsTyped ==
    ASSUME WalletState, WalletNext
    PROVE  \A i \in DOMAIN runs' : \A j \in DOMAIN runs'[i].rows :
                /\ Wanted(runs'[i].rows[j]) /\ At(runs'[i].rows[j]) <= clock'
                /\ ~runs'[i].node => runs'[i].rows[j] \in Heard'
<1>1. fill' = fill /\ fill \in Histories BY StepCases DEF WalletState
<1>2. SUFFICES ASSUME NEW i \in DOMAIN runs', NEW j \in DOMAIN runs'[i].rows
               PROVE  /\ Wanted(runs'[i].rows[j]) /\ At(runs'[i].rows[j]) <= clock'
                      /\ ~runs'[i].node => runs'[i].rows[j] \in Heard'
  OBVIOUS
<1>3. clock <= clock' /\ clock \in Nat /\ clock' \in Nat /\ Heard \subseteq Heard' BY TimesMove
<1>4. PICK x : x = runs'[i].rows[j] OBVIOUS
<1>5. x \in Fills /\ Wanted(x) /\ At(x) <= clock /\ (~runs'[i].node => x \in Heard)
  <2>1. CASE /\ i \in DOMAIN runs /\ j \in DOMAIN runs[i].rows
             /\ runs'[i].rows[j] = runs[i].rows[j] /\ runs'[i].node = runs[i].node
    <3>1. runs[i].rows[j] \in Fills BY <2>1, RunTyped DEF WalletState
    <3>2. /\ Wanted(runs[i].rows[j]) /\ At(runs[i].rows[j]) <= clock
          /\ ~runs[i].node => runs[i].rows[j] \in Heard
      BY <2>1 DEF WalletState, RunsTyped
    <3> QED BY <1>4, <2>1, <3>1, <3>2
  <2>2. CASE 1 \in DOMAIN batch /\ runs'[i].rows[j] = batch[1]
    <3>1. batch[1] \in Heard /\ Wanted(batch[1]) BY <2>2 DEF WalletState
    <3>2. batch[1] \in Fills /\ At(batch[1]) <= clock BY <3>1, HeardIs DEF WalletState
    <3> QED BY <1>4, <2>2, <3>1, <3>2
  <2>3. CASE runs'[i].node /\ runs'[i].rows[j] \in plan.fills
    <3>1. x \in plan.fills BY <1>4, <2>3
    <3>2. x \in Fills /\ Wanted(x) /\ At(x) <= clock BY <3>1 DEF WalletState
    <3> QED BY <2>3, <3>2
  <2> QED BY <2>1, <2>2, <2>3, RowsMove DEF RowsFromBefore
<1>6. At(x) \in Nat BY <1>1, <1>5, FillsAre
<1>7. At(x) <= clock' BY <1>3, <1>5, <1>6
<1> QED BY <1>3, <1>4, <1>5, <1>7

\* The open run is the live poller's, and every run has begun.
LEMMA RunsKept == ASSUME WalletState, WalletNext PROVE RunsTyped'
<1>0. /\ runs \in Seq(FlowRun) /\ fill' = fill
      /\ \A i \in DOMAIN runs : runs[i].born \in 1..clock /\ (runs[i].state = "open" <=> Live /\ i = poller.run)
  BY StepCases DEF WalletState, RunsTyped
<1>1. clock' \in Nat /\ clock \in Nat /\ clock <= clock' /\ 1 <= clock BY TimesMove DEF WalletState
<1>2. runs' \in Seq(FlowRun) BY RowsMove
<1> DEFINE Fine(i) == runs'[i].born \in 1..clock' /\ (runs'[i].state = "open" <=> Live' /\ i = poller'.run)
<1>3. ASSUME NEW i \in DOMAIN runs' PROVE Fine(i)
  <2>1. CASE Deliver
    <3> DEFINE o == poller.run
    <3>1. /\ OnlyRun(o) /\ runs'[o] = [runs[o] EXCEPT !.rows = runs'[o].rows]
      BY <2>1, WriteIs
    <3>2. o \in DOMAIN runs /\ DOMAIN runs' = DOMAIN runs /\ \A k \in DOMAIN runs : k # o => runs'[k] = runs[k]
      BY <3>1 DEF OnlyRun
    <3>3. runs[o] \in FlowRun BY <3>2, RunTyped DEF WalletState
    <3>4. runs'[o].born = runs[o].born /\ runs'[o].state = runs[o].state BY <3>1, <3>3 DEF FlowRun
    <3>5. runs'[i].born = runs[i].born /\ runs'[i].state = runs[i].state BY <3>2, <3>4
    <3>6. poller' = poller /\ Live' = Live BY <2>1 DEF Deliver, Live
    <3> HIDE DEF o
    <3> QED BY <1>0, <1>1, <3>2, <3>5, <3>6
  <2>2. CASE EndSegment \/ KillPoller
    <3> DEFINE o == poller.run
    <3>1. /\ OnlyRun(o) /\ runs'[o].state # "open" /\ runs'[o].born = runs[o].born /\ poller' = NoPoller
      BY <2>2, StopIs
    <3>2. o \in DOMAIN runs /\ DOMAIN runs' = DOMAIN runs /\ \A k \in DOMAIN runs : k # o => runs'[k] = runs[k]
      BY <3>1 DEF OnlyRun
    <3>3. ~Live' BY <3>1 DEF Live
    <3>4. runs'[i].born = runs[i].born /\ runs'[i].state # "open" BY <1>0, <3>1, <3>2
    <3> HIDE DEF o
    <3> QED BY <1>0, <1>1, <3>2, <3>3, <3>4
  <2>3. CASE \E k \in DOMAIN runs : Promote(k) \/ Quarantine(k) \/ Offload(k)
    <3>1. PICK o \in DOMAIN runs : Promote(o) \/ Quarantine(o) \/ Offload(o) BY <2>3
    <3>2. /\ OnlyRun(o) /\ runs'[o].state = runs[o].state /\ runs'[o].born = runs[o].born
          /\ poller' = poller
      BY <3>1, MoveIs
    <3>3. DOMAIN runs' = DOMAIN runs /\ \A k \in DOMAIN runs : k # o => runs'[k] = runs[k]
      BY <3>2 DEF OnlyRun
    <3>4. runs'[i].born = runs[i].born /\ runs'[i].state = runs[i].state /\ Live' = Live
      BY <3>2, <3>3 DEF Live
    <3> QED BY <1>0, <1>1, <3>2, <3>3, <3>4
  <2>4. CASE StartSegment
    <3>1. PICK r \in FlowRun : runs' = Append(runs, r) /\ r.state = "open" /\ r.born = clock BY <2>4, StartIs
    <3>2. /\ DOMAIN runs = 1..Len(runs) /\ Len(runs) \in Nat /\ DOMAIN runs' = 1..(Len(runs) + 1)
          /\ runs'[Len(runs) + 1] = r /\ \A k \in DOMAIN runs : runs'[k] = runs[k]
      BY <3>1, RunAdded
    <3>3. ~Live /\ poller'.run = Len(runs) + 1 BY <2>4, StartIs
    <3>4. Live' BY <3>2, <3>3 DEF Live, NoPoller
    <3>5. CASE i \in DOMAIN runs
      <4>1. i # Len(runs) + 1 BY <3>2, <3>5
      <4> QED BY <1>0, <1>1, <3>2, <3>3, <3>5, <4>1
    <3>6. CASE i = Len(runs) + 1 BY <1>1, <3>1, <3>2, <3>3, <3>4, <3>6
    <3> QED BY <3>2, <3>5, <3>6
  <2>5. CASE BackfillWrite
    <3>1. PICK r \in FlowRun : runs' = Append(runs, r) /\ r.state = "closed" /\ r.born = clock
      BY <2>5, BackfillIs
    <3>2. /\ DOMAIN runs = 1..Len(runs) /\ Len(runs) \in Nat /\ DOMAIN runs' = 1..(Len(runs) + 1)
          /\ runs'[Len(runs) + 1] = r /\ \A k \in DOMAIN runs : runs'[k] = runs[k]
      BY <3>1, RunAdded
    <3>3. poller' = poller /\ Live' = Live BY <2>5 DEF BackfillWrite, Live
    <3>4. CASE i \in DOMAIN runs BY <1>0, <1>1, <3>2, <3>3, <3>4
    <3>5. CASE i = Len(runs) + 1
      <4>1. Live => poller.run # i BY <3>2, <3>5 DEF WalletState, PollerTyped
      <4> QED BY <1>1, <3>1, <3>2, <3>3, <3>5, <4>1
    <3> QED BY <3>2, <3>4, <3>5
  <2>6. CASE runs' = runs /\ (Live' <=> Live) /\ (Live => poller'.run = poller.run)
    BY <1>0, <1>1, <2>6
  <2>7. \/ Deliver \/ EndSegment \/ KillPoller \/ StartSegment \/ BackfillWrite
        \/ \E k \in DOMAIN runs : Promote(k) \/ Quarantine(k) \/ Offload(k)
        \/ runs' = runs /\ (Live' <=> Live) /\ (Live => poller'.run = poller.run)
    <3>1. ASSUME NEW failed \in SUBSET Fillers, NEW twapFailed \in SUBSET Slicers, Poll(failed, twapFailed)
          PROVE  runs' = runs /\ (Live' <=> Live) /\ (Live => poller'.run = poller.run)
      <4>1. runs' = runs BY <3>1 DEF Poll
      <4>2. Live /\ poller' \in Memory /\ poller'.run = poller.run BY <3>1, PollTakes
      <4>3. Live' BY <4>2 DEF Live, Memory, NoPoller
      <4> QED BY <4>1, <4>2, <4>3
    <3>2. (\E w \in Wallets : BackfillScan(w)) => runs' = runs /\ poller' = poller BY DEF BackfillScan
    <3>3. (\E f \in Fills : Publish(f)) => runs' = runs /\ poller' = poller BY DEF Publish
    <3>4. ClockTick => runs' = runs /\ poller' = poller BY DEF ClockTick
    <3>5. poller' = poller => (Live' <=> Live) /\ (Live => poller'.run = poller.run) BY DEF Live
    <3> QED BY <3>1, <3>2, <3>3, <3>4, <3>5, StepCases
  <2> QED BY <2>1, <2>2, <2>3, <2>4, <2>5, <2>6, <2>7
<1>4. \A i \in DOMAIN runs' : \A j \in DOMAIN runs'[i].rows :
        /\ Wanted(runs'[i].rows[j]) /\ At(runs'[i].rows[j]) <= clock'
        /\ ~runs'[i].node => runs'[i].rows[j] \in Heard'
  BY RowsTyped
<1> QED BY <1>0, <1>2, <1>3, <1>4 DEF RunsTyped

\* The poller remembers what is there.
LEMMA PollerKept == ASSUME WalletState, WalletNext PROVE PollerTyped'
<1>1. clock' \in Nat /\ clock \in Nat /\ clock <= clock' BY TimesMove
<1>2. ASSUME Live PROVE /\ poller \in Memory /\ poller.run \in DOMAIN runs /\ ~runs[poller.run].node
                        /\ \A w \in Wallets : /\ poller.high[w] \in 0..clock /\ poller.page[w] \in 0..clock
                                              /\ poller.floor[w] \in 0..clock
  BY <1>1, <1>2 DEF WalletState, PollerTyped, Memory
<1> DEFINE Fine(p, rs, c) ==
        /\ p \in Memory /\ p.run \in DOMAIN rs /\ ~rs[p.run].node
        /\ \A w \in Wallets : p.high[w] <= c /\ p.page[w] <= c /\ p.floor[w] <= c
<1>3. SUFFICES ASSUME Live' PROVE Fine(poller', runs', clock') BY DEF PollerTyped
<1>4. CASE poller' = poller
  <2>1. Live BY <1>3, <1>4 DEF Live
  <2>2. \A w \in Wallets : poller.high[w] <= clock' /\ poller.page[w] <= clock' /\ poller.floor[w] <= clock'
    BY <1>1, <1>2, <2>1
  <2>3. poller.run \in DOMAIN runs' /\ ~runs'[poller.run].node
    <3>1. CASE runs' = runs BY <1>2, <2>1, <3>1
    <3>2. CASE Deliver
      <4>1. OnlyRun(poller.run) /\ runs'[poller.run] = [runs[poller.run] EXCEPT !.rows = runs'[poller.run].rows]
        BY <3>2, WriteIs
      <4>2. runs[poller.run] \in FlowRun BY <1>2, <2>1, RunTyped DEF WalletState
      <4>3. runs'[poller.run].node = runs[poller.run].node BY <4>1, <4>2 DEF FlowRun
      <4> QED BY <1>2, <2>1, <4>1, <4>3 DEF OnlyRun
    <3>3. CASE \E k \in DOMAIN runs : Promote(k) \/ Quarantine(k) \/ Offload(k)
      <4>1. PICK o \in DOMAIN runs : Promote(o) \/ Quarantine(o) \/ Offload(o) BY <3>3
      <4>2. OnlyRun(o) /\ runs'[o].node = runs[o].node BY <4>1, MoveIs
      <4> QED BY <1>2, <2>1, <4>2 DEF OnlyRun
    <3>4. CASE BackfillWrite
      <4>1. PICK r \in FlowRun : runs' = Append(runs, r) BY <3>4, BackfillIs
      <4>2. /\ DOMAIN runs = 1..Len(runs) /\ Len(runs) \in Nat /\ DOMAIN runs' = 1..(Len(runs) + 1)
            /\ \A k \in DOMAIN runs : runs'[k] = runs[k]
        BY <4>1, RunAdded
      <4> QED BY <1>2, <2>1, <4>2
    <3>5. CASE StartSegment BY <2>1, <3>5, StartIs
    <3>6. CASE EndSegment \/ KillPoller
      <4>1. poller' = NoPoller BY <3>6, StopIs
      <4> QED BY <1>3, <4>1 DEF Live
    <3>7. \/ runs' = runs \/ Deliver \/ EndSegment \/ KillPoller \/ StartSegment \/ BackfillWrite
          \/ \E i \in DOMAIN runs : Promote(i) \/ Quarantine(i) \/ Offload(i)
      <4>1. (\E failed \in SUBSET Fillers, twapFailed \in SUBSET Slicers : Poll(failed, twapFailed)) => runs' = runs
        BY DEF Poll
      <4>2. (\E w \in Wallets : BackfillScan(w)) => runs' = runs BY DEF BackfillScan
      <4>3. (\E f \in Fills : Publish(f)) => runs' = runs BY DEF Publish
      <4>4. ClockTick => runs' = runs BY DEF ClockTick
      <4> QED BY <4>1, <4>2, <4>3, <4>4, StepCases
    <3> QED BY <3>1, <3>2, <3>3, <3>4, <3>5, <3>6, <3>7
  <2> QED BY <1>2, <1>4, <2>1, <2>2, <2>3
<1>5. CASE StartSegment
  <2>1. /\ poller' \in Memory /\ poller'.run = Len(runs) + 1
        /\ \A w \in Wallets : poller'.high[w] \in 0..clock /\ poller'.page[w] = 0 /\ poller'.floor[w] = 0
    BY <1>5, StartIs
  <2>2. PICK r \in FlowRun : runs' = Append(runs, r) /\ ~r.node BY <1>5, StartIs
  <2>3. /\ Len(runs) \in Nat /\ DOMAIN runs' = 1..(Len(runs) + 1) /\ runs'[Len(runs) + 1] = r
    BY <2>2, RunAdded
  <2>4. clock' = clock BY <1>5 DEF StartSegment
  <2>5. \A w \in Wallets : poller'.high[w] <= clock' /\ poller'.page[w] <= clock' /\ poller'.floor[w] <= clock'
    BY <1>1, <2>1, <2>4
  <2>6. poller'.run \in DOMAIN runs' /\ ~runs'[poller'.run].node BY <2>1, <2>2, <2>3
  <2> QED BY <2>1, <2>5, <2>6
<1>6. CASE EndSegment \/ KillPoller
  <2>1. poller' = NoPoller BY <1>6, StopIs
  <2> QED BY <1>3, <2>1 DEF Live
<1>7. ASSUME NEW failed \in SUBSET Fillers, NEW twapFailed \in SUBSET Slicers, Poll(failed, twapFailed)
      PROVE  Fine(poller', runs', clock')
  <2>1. /\ Live /\ poller' \in Memory /\ poller'.run = poller.run
        /\ \A w \in Wallets : {poller'.high[w], poller'.page[w], poller'.floor[w]} \subseteq 0..clock
    BY <1>7, PollTakes
  <2>2. runs' = runs /\ clock' = clock BY <1>7 DEF Poll
  <2>3. \A w \in Wallets : poller'.high[w] <= clock' /\ poller'.page[w] <= clock' /\ poller'.floor[w] <= clock'
    BY <1>1, <2>1, <2>2
  <2> QED BY <1>2, <2>1, <2>2, <2>3
<1>8. \/ poller' = poller \/ StartSegment \/ EndSegment \/ KillPoller
      \/ \E failed \in SUBSET Fillers, twapFailed \in SUBSET Slicers : Poll(failed, twapFailed)
  <2>1. Deliver => poller' = poller BY DEF Deliver
  <2>2. (\E i \in DOMAIN runs : Promote(i) \/ Quarantine(i) \/ Offload(i)) => poller' = poller BY MoveIs
  <2>3. (\E w \in Wallets : BackfillScan(w)) => poller' = poller BY DEF BackfillScan
  <2>4. (\E f \in Fills : Publish(f)) => poller' = poller BY DEF Publish
  <2>5. ClockTick => poller' = poller BY DEF ClockTick
  <2>6. BackfillWrite => poller' = poller BY DEF BackfillWrite
  <2> QED BY <2>1, <2>2, <2>3, <2>4, <2>5, <2>6, StepCases
<1> HIDE DEF Fine
<1> QED BY <1>4, <1>5, <1>6, <1>7, <1>8

\* A batch holds what was served and is wanted, and there is none without a poller.
LEMMA BatchKept ==
    ASSUME WalletState, WalletNext
    PROVE  /\ batch' \in Seq(Fills) /\ (batch' # <<>> => Live')
           /\ \A k \in DOMAIN batch' : batch'[k] \in Heard' /\ Wanted(batch'[k])
<1>0. /\ batch \in Seq(Fills) /\ (batch # <<>> => Live) /\ Heard \subseteq Heard'
      /\ \A k \in DOMAIN batch : batch[k] \in Heard /\ Wanted(batch[k])
  BY TimesMove DEF WalletState
<1>1. CASE batch' = batch /\ poller' = poller BY <1>0, <1>1 DEF Live
<1>2. CASE batch' = <<>> BY <1>2
<1>3. CASE Deliver
  <2>1. /\ Live /\ batch' \in Seq(Fills)
        /\ \A k \in DOMAIN batch' : k + 1 \in DOMAIN batch /\ batch'[k] = batch[k + 1]
    BY <1>3, WriteIs
  <2>2. Live' BY <1>3, <2>1 DEF Deliver, Live
  <2>3. \A k \in DOMAIN batch' : batch'[k] \in Heard' /\ Wanted(batch'[k]) BY <1>0, <2>1
  <2> QED BY <2>1, <2>2, <2>3
<1>4. ASSUME NEW failed \in SUBSET Fillers, NEW twapFailed \in SUBSET Slicers, Poll(failed, twapFailed)
      PROVE  /\ batch' \in Seq(Fills) /\ (batch' # <<>> => Live')
             /\ \A k \in DOMAIN batch' : batch'[k] \in Heard' /\ Wanted(batch'[k])
  <2>1. /\ poller' \in Memory /\ batch' \in Seq(Fills)
        /\ \A f \in ToSet(batch') : f \in Heard /\ Wanted(f)
    BY <1>4, PollTakes
  <2>2. \A k \in DOMAIN batch' : batch'[k] \in ToSet(batch') BY DEF ToSet
  <2>3. Live' BY <2>1 DEF Live, Memory, NoPoller
  <2> QED BY <1>0, <2>1, <2>2, <2>3
<1>5. \/ (batch' = batch /\ poller' = poller) \/ batch' = <<>> \/ Deliver
      \/ \E failed \in SUBSET Fillers, twapFailed \in SUBSET Slicers : Poll(failed, twapFailed)
  <2>1. StartSegment \/ EndSegment \/ KillPoller => batch' = <<>> BY StartIs, StopIs
  <2>2. (\E i \in DOMAIN runs : Promote(i) \/ Quarantine(i) \/ Offload(i)) => batch' = batch /\ poller' = poller
    BY MoveIs
  <2>3. (\E w \in Wallets : BackfillScan(w)) => batch' = batch /\ poller' = poller BY DEF BackfillScan
  <2>4. (\E f \in Fills : Publish(f)) => batch' = batch /\ poller' = poller BY DEF Publish
  <2>5. ClockTick => batch' = batch /\ poller' = poller BY DEF ClockTick
  <2>6. BackfillWrite => batch' = batch /\ poller' = poller BY DEF BackfillWrite
  <2> QED BY <2>1, <2>2, <2>3, <2>4, <2>5, <2>6, StepCases
<1> QED BY <1>1, <1>2, <1>3, <1>4, <1>5

\* A plan holds what the archive has.
LEMMA PlanTyped ==
    ASSUME WalletState, WalletNext
    PROVE  /\ plan' \in [fills : SUBSET Fills, runs : Nat]
           /\ \A f \in plan'.fills : Wanted(f) /\ At(f) <= clock'
<1>0. /\ plan \in [fills : SUBSET Fills, runs : Nat]
      /\ \A f \in plan.fills : Wanted(f) /\ At(f) <= clock
      /\ clock <= clock' /\ clock \in Nat /\ clock' \in Nat /\ fill \in Histories
  BY TimesMove DEF WalletState
<1>1. CASE plan' = plan
  <2>1. \A f \in plan.fills : At(f) \in Nat BY <1>0, FillsAre
  <2>2. \A f \in plan.fills : At(f) <= clock' BY <1>0, <2>1
  <2> QED BY <1>0, <1>1, <2>2
<1>2. CASE BackfillWrite
  <2>1. plan' = NoPlan BY <1>2 DEF BackfillWrite
  <2> QED BY <2>1 DEF NoPlan
<1>3. CASE \E w \in Wallets : BackfillScan(w)
  <2>1. PICK w \in Wallets : BackfillScan(w) BY <1>3
  <2> DEFINE p == {f \in Missing(w) : At(f) <= SafeEnd(w)}
  <2>2. plan' = [fills |-> p, runs |-> RunsBefore] /\ clock' = clock BY <2>1 DEF BackfillScan
  <2>3. \A f \in p : f \in Fills /\ Wanted(f) /\ At(f) <= clock BY DEF Missing, Archive
  <2>4. RunsBefore \in Nat BY DEF RunsBefore, WalletState, RunsTyped
  <2> HIDE DEF p
  <2> QED BY <2>2, <2>3, <2>4
<1> QED BY <1>1, <1>2, <1>3, StepCases

\* What cannot be known to be recorded is a fill.
LEMMA ForgottenTyped == ASSUME WalletState, WalletNext PROVE forgotten' \in SUBSET Fills
<1>0. forgotten \in SUBSET Fills /\ plan.fills \in SUBSET Fills BY DEF WalletState
<1>1. CASE StartSegment
  <2>1. \A f \in OutOfSight : f \in Fills
    <3>1. SUFFICES ASSUME NEW f \in OutOfSight PROVE f \in Fills OBVIOUS
    <3>2. f \in RowsIn(InPlaces({"cold"})) BY DEF OutOfSight, ColdOnly
    <3>3. InPlaces({"cold"}) \in SUBSET DOMAIN runs BY DEF InPlaces
    <3>4. PICK i \in InPlaces({"cold"}) : \E j \in DOMAIN runs[i].rows : runs[i].rows[j] = f
      BY <3>2, <3>3, RecordedIs
    <3> QED BY <3>3, <3>4, RunTyped DEF WalletState
  <2> QED BY <1>0, <1>1, <2>1 DEF StartSegment
<1>2. CASE BackfillWrite
  <2>1. Contested \subseteq plan.fills BY DEF Contested
  <2> QED BY <1>0, <1>2, <2>1 DEF BackfillWrite
<1>3. StartSegment \/ BackfillWrite \/ forgotten' = forgotten
  <2>1. (\E failed \in SUBSET Fillers, twapFailed \in SUBSET Slicers : Poll(failed, twapFailed))
            => forgotten' = forgotten BY DEF Poll
  <2>2. (\E i \in DOMAIN runs : Promote(i) \/ Quarantine(i) \/ Offload(i)) => forgotten' = forgotten BY MoveIs
  <2>3. (\E w \in Wallets : BackfillScan(w)) => forgotten' = forgotten BY DEF BackfillScan
  <2>4. (\E f \in Fills : Publish(f)) => forgotten' = forgotten BY DEF Publish
  <2>5. ClockTick => forgotten' = forgotten BY DEF ClockTick
  <2>6. Deliver \/ EndSegment \/ KillPoller => forgotten' = forgotten BY DEF Deliver, EndSegment, KillPoller
  <2> QED BY <2>1, <2>2, <2>3, <2>4, <2>5, <2>6, StepCases
<1> QED BY <1>0, <1>1, <1>2, <1>3

\* Every step keeps the types.
LEMMA WalletStateKept == ASSUME WalletState, WalletNext PROVE WalletState'
<1>1. fill' = fill /\ fill' \in Histories BY StepCases
<1>2. /\ clock' \in 1..MaxTime /\ heard' \in Seq(Fills) /\ IsInjective(heard')
      /\ \A f \in Heard' : At(f) <= clock'
      /\ passed' \in SUBSET Fills
  BY TimesMove
<1>3. /\ batch' \in Seq(Fills) /\ (batch' # <<>> => Live')
      /\ \A k \in DOMAIN batch' : batch'[k] \in Heard' /\ Wanted(batch'[k])
  BY BatchKept
<1>4. /\ plan' \in [fills : SUBSET Fills, runs : Nat]
      /\ \A f \in plan'.fills : Wanted(f) /\ At(f) <= clock'
  BY PlanTyped
<1>5. forgotten' \in SUBSET Fills BY ForgottenTyped
<1>6. RunsTyped' /\ PollerTyped' BY RunsKept, PollerKept
<1> QED BY <1>1, <1>2, <1>3, <1>4, <1>5, <1>6 DEF WalletState

-----------------------------------------------------------------------------
(* The order of the rows.                                                    *)

LiveRows == ToSet(runs[poller.run].rows)
Batch == ToSet(batch)
ServedIn(h, g, f) == \E i, j \in DOMAIN h : i < j /\ h[i] = g /\ h[j] = f

\* A row that goes back in time is one that was served late.
InOrder(rs, h) ==
    \A i \in DOMAIN rs : \A j \in DOMAIN rs[i].rows : \A k \in 1..(j - 1) :
        /\ Of(rs[i].rows[k]) = Of(rs[i].rows[j])
        /\ Stream(rs[i], rs[i].rows[k]) = Stream(rs[i], rs[i].rows[j])
        /\ At(rs[i].rows[k]) > At(rs[i].rows[j])
        => /\ ~IsTwap(rs[i].rows[j])
           /\ \E m \in 1..(j - 1) :
                /\ Of(rs[i].rows[m]) = Of(rs[i].rows[j])
                /\ At(rs[i].rows[m]) > At(rs[i].rows[j])
                /\ ServedIn(h, rs[i].rows[m], rs[i].rows[j])

\* A batch is in the order of times.
BatchSorted == \A k, l \in DOMAIN batch : k < l => At(batch[k]) <= At(batch[l])
\* The poller knows the newest slice it has taken,
SlicesInv == Live => \A g \in LiveRows \cup Batch : IsTwap(g) => At(g) <= poller.twapLast[Of(g)]
\* what it has taken and not written goes behind the rows, unless it was served late,
BehindRows ==
    Live => \A g \in LiveRows, f \in Batch :
        Of(f) = Of(g) /\ IsTwap(f) = IsTwap(g) /\ At(f) < At(g) => ~IsTwap(f) /\ ServedIn(heard, g, f)
\* and what comes before the fills it has taken and was not served after them, it has
\* seen, or will not ask for.
LateInv ==
    Live => \A g \in LiveRows \cup Batch : \A f \in Heard :
        /\ ~IsTwap(g) /\ Wanted(f) /\ ~IsTwap(f) /\ Of(f) = Of(g) /\ At(f) < At(g)
        /\ ~ServedIn(heard, g, f)
        => f \in poller.seen \/ At(f) < RequestStart(poller, Of(f))

OrderInv == OnlyLateFillsBreakOrder /\ BatchSorted /\ SlicesInv /\ BehindRows /\ LateInv

\* The order of the rows, with the state spelled out,
LEMMA OrderMeans == OnlyLateFillsBreakOrder <=> InOrder(runs, heard)
BY DEF OnlyLateFillsBreakOrder, InOrder, GoesBack, ServedBefore, ServedIn

\* before a step and after it.
LEMMA OrderMeansNext == ASSUME fill' = fill PROVE OnlyLateFillsBreakOrder' <=> InOrder(runs', heard')
BY DEF OnlyLateFillsBreakOrder, InOrder, GoesBack, ServedBefore, ServedIn, Stream

\* What a step does to the live run.
LEMMA LiveCases ==
    ASSUME WalletState, WalletNext, Live'
    PROVE  \/ LiveRows' = {} /\ batch' = <<>> /\ Batch' = {} /\ StartSegment
           \/ /\ Live /\ LiveRows' = LiveRows
              /\ \E failed \in SUBSET Fillers, twapFailed \in SUBSET Slicers : Poll(failed, twapFailed)
           \/ /\ Live /\ Deliver /\ LiveRows' = LiveRows \cup {batch[1]} /\ poller' = poller
              /\ Batch' \subseteq Batch /\ Batch \subseteq Batch' \cup {batch[1]} /\ 1 \in DOMAIN batch
           \/ Live /\ LiveRows' = LiveRows /\ batch' = batch /\ Batch' = Batch /\ poller' = poller
<1>1. CASE StartSegment
  <2>1. batch' = <<>> /\ poller'.run = Len(runs) + 1 BY <1>1, StartIs
  <2>2. PICK r \in FlowRun : runs' = Append(runs, r) /\ r.rows = <<>> BY <1>1, StartIs
  <2>3. runs'[Len(runs) + 1] = r BY <2>2, RunAdded
  <2>4. runs'[poller'.run].rows = <<>> BY <2>1, <2>2, <2>3
  <2>5. LiveRows' = {} /\ Batch' = {} BY <2>1, <2>4 DEF LiveRows, Batch, ToSet
  <2> QED BY <1>1, <2>1, <2>5
<1>2. ASSUME NEW failed \in SUBSET Fillers, NEW twapFailed \in SUBSET Slicers, Poll(failed, twapFailed)
      PROVE  Live /\ LiveRows' = LiveRows
  <2>1. Live /\ poller'.run = poller.run BY <1>2, PollTakes
  <2>2. runs' = runs BY <1>2 DEF Poll
  <2> QED BY <2>1, <2>2 DEF LiveRows
<1>3. CASE Deliver
  <2> DEFINE rows == runs[poller.run].rows
             new == runs'[poller.run].rows
  <2>1. /\ Live /\ poller.run \in DOMAIN runs
        /\ DOMAIN new = 1..(Len(rows) + 1) /\ \A j \in DOMAIN rows : new[j] = rows[j]
        /\ new[Len(rows) + 1] = batch[1] /\ 1 \in DOMAIN batch
        /\ \A k \in DOMAIN batch' : k + 1 \in DOMAIN batch /\ batch'[k] = batch[k + 1]
        /\ \A k \in DOMAIN batch : k = 1 \/ (k - 1 \in DOMAIN batch' /\ batch'[k - 1] = batch[k])
    BY <1>3, WriteIs DEF OnlyRun
  <2>2. DOMAIN rows = 1..Len(rows) /\ Len(rows) \in Nat BY <2>1, RunTyped DEF WalletState
  <2>3. poller' = poller BY <1>3 DEF Deliver
  <2> HIDE DEF rows, new
  <2>4. DOMAIN new = DOMAIN rows \cup {Len(rows) + 1} BY <2>1, <2>2
  <2>5. ToSet(new) = ToSet(rows) \cup {batch[1]}
    <3>1. ASSUME NEW x \in ToSet(new) PROVE x \in ToSet(rows) \/ x = batch[1]
      <4>1. PICK j \in DOMAIN new : x = new[j] BY DEF ToSet
      <4>2. CASE j \in DOMAIN rows
        <5>1. x = rows[j] BY <2>1, <4>1, <4>2
        <5> QED BY <4>2, <5>1 DEF ToSet
      <4>3. CASE j = Len(rows) + 1 BY <2>1, <4>1, <4>3
      <4> QED BY <2>4, <4>2, <4>3
    <3>2. ASSUME NEW x \in ToSet(rows) PROVE x \in ToSet(new)
      <4>1. PICK j \in DOMAIN rows : x = rows[j] BY DEF ToSet
      <4>2. j \in DOMAIN new /\ x = new[j] BY <2>1, <2>4, <4>1
      <4> QED BY <4>2 DEF ToSet
    <3>3. batch[1] \in ToSet(new)
      <4>1. Len(rows) + 1 \in DOMAIN new BY <2>4
      <4> QED BY <2>1, <4>1 DEF ToSet
    <3> QED BY <3>1, <3>2, <3>3
  <2>6. Batch' \subseteq Batch /\ Batch \subseteq Batch' \cup {batch[1]}
    <3>1. \A x \in Batch' : x \in Batch BY <2>1 DEF Batch, ToSet
    <3>2. \A x \in Batch : x \in Batch' \/ x = batch[1] BY <2>1 DEF Batch, ToSet
    <3> QED BY <3>1, <3>2
  <2>7. LiveRows' = LiveRows \cup {batch[1]} BY <2>3, <2>5 DEF LiveRows, rows, new
  <2> QED BY <1>3, <2>1, <2>3, <2>6, <2>7
<1>4. CASE EndSegment \/ KillPoller
  <2>1. poller' = NoPoller BY <1>4, StopIs
  <2> QED BY <2>1 DEF Live
<1>5. CASE BackfillWrite
  <2>1. poller' = poller /\ batch' = batch BY <1>5 DEF BackfillWrite
  <2>2. Live /\ poller.run \in DOMAIN runs BY <2>1 DEF Live, WalletState, PollerTyped
  <2>3. PICK r \in FlowRun : runs' = Append(runs, r) BY <1>5, BackfillIs
  <2>4. runs'[poller.run] = runs[poller.run] BY <2>2, <2>3, RunAdded
  <2> QED BY <2>1, <2>2, <2>4 DEF LiveRows, Batch
<1>6. CASE \E i \in DOMAIN runs : Promote(i) \/ Quarantine(i) \/ Offload(i)
  <2>1. PICK o \in DOMAIN runs : Promote(o) \/ Quarantine(o) \/ Offload(o) BY <1>6
  <2>2. poller' = poller /\ batch' = batch /\ OnlyRun(o) /\ runs'[o].rows = runs[o].rows BY <2>1, MoveIs
  <2>3. Live /\ poller.run \in DOMAIN runs BY <2>2 DEF Live, WalletState, PollerTyped
  <2>4. runs'[poller.run].rows = runs[poller.run].rows BY <2>2, <2>3 DEF OnlyRun
  <2> QED BY <2>2, <2>3, <2>4 DEF LiveRows, Batch
<1>7. CASE runs' = runs /\ poller' = poller /\ batch' = batch BY <1>7 DEF LiveRows, Batch, Live
<1>8. \/ StartSegment \/ Deliver \/ EndSegment \/ KillPoller \/ BackfillWrite
      \/ \E failed \in SUBSET Fillers, twapFailed \in SUBSET Slicers : Poll(failed, twapFailed)
      \/ \E i \in DOMAIN runs : Promote(i) \/ Quarantine(i) \/ Offload(i)
      \/ runs' = runs /\ poller' = poller /\ batch' = batch
  <2>1. (\E w \in Wallets : BackfillScan(w)) => runs' = runs /\ poller' = poller /\ batch' = batch
    BY DEF BackfillScan
  <2>2. (\E f \in Fills : Publish(f)) => runs' = runs /\ poller' = poller /\ batch' = batch BY DEF Publish
  <2>3. ClockTick => runs' = runs /\ poller' = poller /\ batch' = batch BY DEF ClockTick
  <2> QED BY <2>1, <2>2, <2>3, StepCases
<1> QED BY <1>1, <1>2, <1>3, <1>4, <1>5, <1>6, <1>7, <1>8

\* What the live run and the batch hold was served, at a time.
LEMMA TakenIs ==
    ASSUME WalletState, Live
    PROVE  \A g \in LiveRows \cup Batch :
                g \in Heard /\ g \in Fills /\ At(g) \in Nat /\ Of(g) \in Wallets
<1>1. Heard \in SUBSET Fills /\ fill \in Histories BY HeardIs DEF WalletState
<1>2. poller.run \in DOMAIN runs /\ ~runs[poller.run].node BY DEF WalletState, PollerTyped
<1>3. \A g \in LiveRows : g \in Heard BY <1>2 DEF WalletState, RunsTyped, LiveRows, ToSet
<1>4. \A g \in Batch : g \in Heard BY DEF WalletState, Batch, ToSet
<1> QED BY <1>1, <1>3, <1>4, FillsAre

\* A batch stays sorted: a poll sorts it, and rows leave it at its head.
LEMMA SortedKept == ASSUME WalletState, BatchSorted, WalletNext PROVE BatchSorted'
<1>0. fill' = fill BY StepCases
<1> DEFINE Sorted(b) == \A k, l \in DOMAIN b : k < l => At(b[k]) <= At(b[l])
<1>1. SUFFICES Sorted(batch') BY <1>0 DEF BatchSorted
<1>2. CASE batch' = batch BY <1>2 DEF BatchSorted
<1>3. CASE batch' = <<>> BY <1>3
<1>4. CASE Deliver
  <2>1. \A k \in DOMAIN batch' : k + 1 \in DOMAIN batch /\ batch'[k] = batch[k + 1] BY <1>4, WriteIs
  <2>2. \A k \in DOMAIN batch' : k \in Int
    <3>1. batch' \in Seq(Fills) BY <1>4, WriteIs
    <3> QED BY <3>1
  <2>3. ASSUME NEW k \in DOMAIN batch', NEW l \in DOMAIN batch', k < l
        PROVE  At(batch'[k]) <= At(batch'[l])
    <3>1. k + 1 < l + 1 BY <2>2, <2>3
    <3>2. At(batch[k + 1]) <= At(batch[l + 1]) BY <2>1, <3>1 DEF BatchSorted
    <3> QED BY <2>1, <3>2
  <2> QED BY <2>3
<1>5. ASSUME NEW failed \in SUBSET Fillers, NEW twapFailed \in SUBSET Slicers, Poll(failed, twapFailed)
      PROVE  Sorted(batch')
  BY <1>5, PollTakes
<1>6. \/ batch' = batch \/ batch' = <<>> \/ Deliver
      \/ \E failed \in SUBSET Fillers, twapFailed \in SUBSET Slicers : Poll(failed, twapFailed)
  <2>1. StartSegment \/ EndSegment \/ KillPoller => batch' = <<>> BY StartIs, StopIs
  <2>2. (\E i \in DOMAIN runs : Promote(i) \/ Quarantine(i) \/ Offload(i)) => batch' = batch BY MoveIs
  <2>3. (\E w \in Wallets : BackfillScan(w)) => batch' = batch BY DEF BackfillScan
  <2>4. (\E f \in Fills : Publish(f)) => batch' = batch BY DEF Publish
  <2>5. ClockTick => batch' = batch BY DEF ClockTick
  <2>6. BackfillWrite => batch' = batch BY DEF BackfillWrite
  <2> QED BY <2>1, <2>2, <2>3, <2>4, <2>5, <2>6, StepCases
<1> HIDE DEF Sorted
<1> QED BY <1>2, <1>3, <1>4, <1>5, <1>6

\* A poll takes no slice older than the newest it took before.
LEMMA SlicesKept == ASSUME WalletState, SlicesInv, WalletNext PROVE SlicesInv'
<1>0. fill' = fill BY StepCases
<1>1. SUFFICES ASSUME Live', NEW g \in LiveRows' \cup Batch', IsTwap(g)
               PROVE  At(g) <= poller'.twapLast[Of(g)]
  BY <1>0 DEF SlicesInv
<1>2. CASE StartSegment /\ LiveRows' = {} /\ Batch' = {} BY <1>1, <1>2
<1>3. CASE /\ Live /\ LiveRows' = LiveRows
           /\ \E failed \in SUBSET Fillers, twapFailed \in SUBSET Slicers : Poll(failed, twapFailed)
  <2>1. PICK failed \in SUBSET Fillers, twapFailed \in SUBSET Slicers : Poll(failed, twapFailed) BY <1>3
  <2>2. /\ poller' \in Memory
        /\ \A f \in ToSet(batch') : IsTwap(f) => At(f) <= poller'.twapLast[Of(f)]
        /\ \A w \in Wallets : poller.twapLast[w] <= poller'.twapLast[w]
    BY <2>1, PollTakes
  <2>3. CASE g \in Batch' BY <1>1, <2>2, <2>3 DEF Batch
  <2>4. CASE g \in LiveRows
    <3>1. At(g) <= poller.twapLast[Of(g)] BY <1>1, <1>3, <2>4 DEF SlicesInv
    <3>2. At(g) \in Nat /\ Of(g) \in Wallets BY <1>3, <2>4, TakenIs
    <3>3. poller.twapLast[Of(g)] \in Nat /\ poller'.twapLast[Of(g)] \in Nat
      BY <1>3, <2>2, <3>2 DEF WalletState, PollerTyped, Memory
    <3> QED BY <2>2, <3>1, <3>2, <3>3
  <2> QED BY <1>1, <1>3, <2>3, <2>4
<1>4. CASE /\ Live /\ LiveRows' \cup Batch' \subseteq LiveRows \cup Batch /\ poller' = poller
  BY <1>1, <1>4 DEF SlicesInv
<1>5. 1 \in DOMAIN batch => batch[1] \in Batch BY DEF Batch, ToSet
<1> QED BY <1>1, <1>2, <1>3, <1>4, <1>5, LiveCases

\* What was served later is served later still.
LEMMA ServedLasts ==
    ASSUME WalletState, WalletNext, NEW g, NEW f, ServedIn(heard, g, f) PROVE ServedIn(heard', g, f)
<1>1. ServedBefore(g, f) BY DEF ServedBefore, ServedIn
<1>2. ServedBefore(g, f)' BY <1>1, TimesMove
<1> QED BY <1>2 DEF ServedBefore, ServedIn

\* What a poll takes goes behind the rows that are there.
LEMMA BehindKept ==
    ASSUME WalletState, BatchSorted, SlicesInv, BehindRows, LateInv, WalletNext PROVE BehindRows'
<1>0. fill' = fill BY StepCases
<1>1. SUFFICES ASSUME Live', NEW g \in LiveRows', NEW f \in Batch',
                      Of(f) = Of(g), IsTwap(f) = IsTwap(g), At(f) < At(g)
               PROVE  ~IsTwap(f) /\ ServedIn(heard', g, f)
  BY <1>0 DEF BehindRows
<1>2. CASE LiveRows' = {} BY <1>1, <1>2
<1>3. CASE /\ Live /\ LiveRows' = LiveRows
           /\ \E failed \in SUBSET Fillers, twapFailed \in SUBSET Slicers : Poll(failed, twapFailed)
  <2>1. PICK failed \in SUBSET Fillers, twapFailed \in SUBSET Slicers : Poll(failed, twapFailed) BY <1>3
  <2>2. /\ poller' \in Memory
        /\ f \in Heard /\ Wanted(f) /\ f \notin poller.seen
        /\ ~IsTwap(f) => At(f) >= RequestStart(poller, Of(f))
        /\ IsTwap(f) => poller.twapLast[Of(f)] <= At(f)
    BY <1>1, <2>1, PollTakes DEF Batch
  <2>3. g \in LiveRows /\ At(g) \in Nat /\ Of(g) \in Wallets /\ poller \in Memory
    BY <1>1, <1>3, TakenIs DEF WalletState, PollerTyped
  <2>4. f \in Fills /\ At(f) \in Nat BY <2>2, HeardIs, FillsAre DEF WalletState
  <2>5. ~IsTwap(f)
    <3>1. SUFFICES ASSUME IsTwap(f) PROVE FALSE OBVIOUS
    <3>2. At(g) <= poller.twapLast[Of(g)] BY <1>1, <1>3, <2>3, <3>1 DEF SlicesInv
    <3>3. poller.twapLast[Of(g)] \in Nat BY <2>3 DEF Memory
    <3> QED BY <1>1, <2>2, <2>3, <2>4, <3>1, <3>2, <3>3
  <2>6. ServedIn(heard, g, f)
    <3>1. SUFFICES ASSUME ~ServedIn(heard, g, f) PROVE FALSE OBVIOUS
    <3>2. f \in poller.seen \/ At(f) < RequestStart(poller, Of(f))
      BY <1>1, <1>3, <2>2, <2>3, <2>5, <3>1 DEF LateInv
    <3>3. RequestStart(poller, Of(f)) \in Nat BY <1>1, <2>3, StartOf
    <3> QED BY <2>2, <2>4, <2>5, <3>2, <3>3
  <2> QED BY <2>5, <2>6, ServedLasts
<1>4. CASE /\ Live /\ Deliver /\ LiveRows' = LiveRows \cup {batch[1]} /\ poller' = poller
           /\ Batch' \subseteq Batch /\ 1 \in DOMAIN batch
  <2>1. CASE g \in LiveRows
    <3>1. ~IsTwap(f) /\ ServedIn(heard, g, f) BY <1>1, <1>4, <2>1 DEF BehindRows
    <3> QED BY <3>1, ServedLasts
  <2>2. CASE g = batch[1]
    <3>1. PICK k \in DOMAIN batch' : f = batch'[k] BY <1>1 DEF Batch, ToSet
    <3>2. k + 1 \in DOMAIN batch /\ batch'[k] = batch[k + 1] /\ batch' \in Seq(Fills) BY <1>4, WriteIs
    <3>3. 1 < k + 1 BY <3>2
    <3>4. At(g) <= At(f) BY <1>4, <2>2, <3>1, <3>2, <3>3 DEF BatchSorted
    <3>5. g \in Batch /\ f \in Batch BY <1>1, <1>4, <2>2 DEF Batch, ToSet
    <3>6. At(f) \in Nat /\ At(g) \in Nat BY <1>4, <3>5, TakenIs
    <3> QED BY <1>1, <3>4, <3>6
  <2> QED BY <1>1, <1>4, <2>1, <2>2
<1>5. CASE Live /\ LiveRows' = LiveRows /\ Batch' = Batch
  <2>1. ~IsTwap(f) /\ ServedIn(heard, g, f) BY <1>1, <1>5 DEF BehindRows
  <2> QED BY <2>1, ServedLasts
<1> QED BY <1>1, <1>2, <1>3, <1>4, <1>5, LiveCases

\* What is served after a newer fill was taken is late.
LEMMA LateKept == ASSUME WalletState, LateInv, WalletNext PROVE LateInv'
<1>0. fill' = fill /\ fill \in Histories BY StepCases DEF WalletState
<1>1. SUFFICES ASSUME Live', NEW g \in LiveRows' \cup Batch', NEW f \in Heard',
                      ~IsTwap(g), Wanted(f), ~IsTwap(f), Of(f) = Of(g), At(f) < At(g),
                      ~ServedIn(heard', g, f)
               PROVE  f \in poller'.seen \/ At(f) < RequestStart(poller', Of(f))
  BY <1>0 DEF LateInv, RequestStart, AfterOverlap
<1>2. CASE LiveRows' = {} /\ Batch' = {} BY <1>1, <1>2
<1>3. ~ServedIn(heard, g, f) BY <1>1, ServedLasts
<1>4. ASSUME Live, g \in LiveRows \cup Batch, Rest \/ ClockTick \/ \E h \in Fills : Publish(h)
      PROVE  f \in poller.seen \/ At(f) < RequestStart(poller, Of(f))
  <2>1. f \in Heard
    <3>1. CASE Rest BY <1>1, <3>1 DEF Rest, Heard
    <3>2. CASE ClockTick BY <1>1, <3>2 DEF ClockTick, Heard
    <3>3. CASE \E h \in Fills : Publish(h)
      <4>1. PICK h \in Fills : Publish(h) BY <3>3
      <4>2. /\ Heard' = Heard \cup {h} /\ DOMAIN heard = 1..Len(heard) /\ Len(heard) \in Nat
            /\ DOMAIN heard' = 1..(Len(heard) + 1) /\ heard'[Len(heard) + 1] = h
            /\ \A i \in DOMAIN heard : heard'[i] = heard[i]
        BY <4>1, PublishIs
      <4>3. PICK i \in DOMAIN heard : heard[i] = g BY <1>4, TakenIs DEF Heard, ToSet
      <4>4. /\ i \in DOMAIN heard' /\ Len(heard) + 1 \in DOMAIN heard' /\ i < Len(heard) + 1
            /\ heard'[i] = g
        BY <4>2, <4>3
      <4>5. f # h BY <1>1, <4>2, <4>4 DEF ServedIn
      <4> QED BY <1>1, <4>2, <4>5
    <3> QED BY <1>4, <3>1, <3>2, <3>3
  <2> QED BY <1>1, <1>3, <1>4, <2>1 DEF LateInv
<1>5. CASE /\ Live /\ LiveRows' = LiveRows
           /\ \E failed \in SUBSET Fillers, twapFailed \in SUBSET Slicers : Poll(failed, twapFailed)
  <2>1. PICK failed \in SUBSET Fillers, twapFailed \in SUBSET Slicers : Poll(failed, twapFailed) BY <1>5
  <2>2. /\ poller' \in Memory /\ poller'.seen = poller.seen \cup ToSet(batch')
        /\ \A w \in Wallets : RequestStart(poller, w) <= RequestStart(poller', w)
        /\ \A h \in ToSet(batch') : ~IsTwap(h) => At(h) >= RequestStart(poller, Of(h))
        /\ \A h \in Heard :
            /\ Wanted(h) /\ ~IsTwap(h) /\ At(h) >= RequestStart(poller, Of(h))
            /\ \/ At(h) < RequestStart(poller', Of(h))
               \/ \E e \in ToSet(batch') : ~IsTwap(e) /\ Of(e) = Of(h) /\ At(h) < At(e)
            => h \in poller'.seen
    BY <2>1, PollTakes
  <2>3. heard' = heard /\ Heard' = Heard BY <2>1 DEF Poll, Heard
  <2>4. f \in Fills /\ At(f) \in Nat /\ Of(f) \in Wallets BY <1>0, <1>1, <2>3, HeardIs, FillsAre DEF WalletState
  <2>5. poller \in Memory BY <1>5 DEF WalletState, PollerTyped
  <2>6. RequestStart(poller, Of(f)) \in Nat /\ RequestStart(poller', Of(f)) \in Nat
    BY <2>2, <2>4, <2>5, StartOf
  <2>7. CASE g \in LiveRows
    <3>1. f \in poller.seen \/ At(f) < RequestStart(poller, Of(f))
      <4>1. Rest BY <2>1 DEF Poll, Rest
      <4> QED BY <1>4, <1>5, <2>7, <4>1
    <3> QED BY <2>2, <2>4, <2>6, <3>1
  <2>8. CASE g \in Batch'
    <3>1. CASE At(f) >= RequestStart(poller, Of(f))
      BY <1>1, <2>2, <2>3, <2>8, <3>1 DEF Batch
    <3>2. CASE At(f) < RequestStart(poller, Of(f)) BY <2>2, <2>4, <2>6, <3>2
    <3> QED BY <2>4, <2>6, <3>1, <3>2
  <2> QED BY <1>1, <1>5, <2>7, <2>8
<1>6. CASE Live /\ LiveRows' \cup Batch' \subseteq LiveRows \cup Batch /\ poller' = poller
  BY <1>1, <1>4, <1>6, StepCases
<1>7. 1 \in DOMAIN batch => batch[1] \in Batch BY DEF Batch, ToSet
<1> QED BY <1>1, <1>2, <1>5, <1>6, <1>7, LiveCases

\* The row that is written goes behind the others, unless it was served late.
LEMMA InOrderKept == ASSUME WalletState, OnlyLateFillsBreakOrder, BehindRows, WalletNext
                     PROVE  OnlyLateFillsBreakOrder'
<1>0. fill' = fill /\ InOrder(runs, heard) /\ fill \in Histories BY StepCases, OrderMeans DEF WalletState
<1> DEFINE Excused(i, j) ==
        /\ ~IsTwap(runs'[i].rows[j])
        /\ \E m \in 1..(j - 1) :
            /\ Of(runs'[i].rows[m]) = Of(runs'[i].rows[j])
            /\ At(runs'[i].rows[m]) > At(runs'[i].rows[j])
            /\ ServedIn(heard', runs'[i].rows[m], runs'[i].rows[j])
<1>1. SUFFICES ASSUME NEW i \in DOMAIN runs', NEW j \in DOMAIN runs'[i].rows, NEW k \in 1..(j - 1),
                      Of(runs'[i].rows[k]) = Of(runs'[i].rows[j]),
                      Stream(runs'[i], runs'[i].rows[k]) = Stream(runs'[i], runs'[i].rows[j]),
                      At(runs'[i].rows[k]) > At(runs'[i].rows[j])
               PROVE  Excused(i, j)
  <2>1. SUFFICES InOrder(runs', heard') BY <1>0, OrderMeansNext
  <2> QED BY DEF InOrder
<1>2. /\ RowsFromBefore /\ runs' \in Seq(FlowRun) BY RowsMove
<1>3. runs'[i].rows \in Seq(Fills)
  <2>1. runs'[i] \in FlowRun BY <1>2
  <2> QED BY <2>1 DEF FlowRun
<1>4. j \in Nat /\ \A m \in 1..(j - 1) : m \in DOMAIN runs'[i].rows /\ m < j BY <1>3
<1>5. CASE /\ i \in DOMAIN runs /\ j \in DOMAIN runs[i].rows
           /\ runs'[i].rows[j] = runs[i].rows[j] /\ runs'[i].node = runs[i].node
  <2>1. DOMAIN runs[i].rows = 1..Len(runs[i].rows) /\ Len(runs[i].rows) \in Nat
    BY <1>5, RunTyped DEF WalletState
  <2>2. ASSUME NEW m \in 1..(j - 1) PROVE m \in DOMAIN runs[i].rows /\ runs'[i].rows[m] = runs[i].rows[m]
    <3>1. m \in DOMAIN runs'[i].rows /\ m # Len(runs[i].rows) + 1 BY <1>4, <1>5, <2>1
    <3> QED BY <1>2, <1>5, <3>1 DEF RowsFromBefore
  <2>3. /\ Of(runs[i].rows[k]) = Of(runs[i].rows[j])
        /\ Stream(runs[i], runs[i].rows[k]) = Stream(runs[i], runs[i].rows[j])
        /\ At(runs[i].rows[k]) > At(runs[i].rows[j])
    <3>1. runs'[i].rows[k] = runs[i].rows[k] BY <2>2
    <3> QED BY <1>1, <1>5, <3>1 DEF Stream
  <2>4. /\ ~IsTwap(runs[i].rows[j])
        /\ \E m \in 1..(j - 1) :
            /\ Of(runs[i].rows[m]) = Of(runs[i].rows[j])
            /\ At(runs[i].rows[m]) > At(runs[i].rows[j])
            /\ ServedIn(heard, runs[i].rows[m], runs[i].rows[j])
    <3>1. i \in DOMAIN runs /\ j \in DOMAIN runs[i].rows BY <1>5
    <3> HIDE DEF Of, At, IsTwap
    <3> QED BY <1>0, <2>3, <3>1 DEF InOrder
  <2>5. PICK m \in 1..(j - 1) :
            /\ Of(runs[i].rows[m]) = Of(runs[i].rows[j])
            /\ At(runs[i].rows[m]) > At(runs[i].rows[j])
            /\ ServedIn(heard, runs[i].rows[m], runs[i].rows[j])
    BY <2>4
  <2>6. ServedIn(heard', runs'[i].rows[m], runs'[i].rows[j])
    <3>1. ServedIn(heard', runs[i].rows[m], runs[i].rows[j]) BY <2>5, ServedLasts
    <3> QED BY <1>5, <2>2, <3>1
  <2>7. runs'[i].rows[m] = runs[i].rows[m] BY <2>2
  <2>8. /\ Of(runs'[i].rows[m]) = Of(runs'[i].rows[j])
        /\ At(runs'[i].rows[m]) > At(runs'[i].rows[j])
        /\ ~IsTwap(runs'[i].rows[j])
    BY <1>5, <2>4, <2>5, <2>7
  <2> QED BY <2>6, <2>8
<1>6. CASE /\ Deliver /\ i = poller.run /\ i \in DOMAIN runs /\ ~runs'[i].node
           /\ j = Len(runs[i].rows) + 1 /\ 1 \in DOMAIN batch /\ runs'[i].rows[j] = batch[1]
  <2>1. Live /\ \A m \in DOMAIN runs[i].rows : runs'[i].rows[m] = runs[i].rows[m] BY <1>6, WriteIs
  <2>2. DOMAIN runs[i].rows = 1..(j - 1) BY <1>6, RunTyped DEF WalletState
  <2>3. PICK g : g = runs'[i].rows[k] OBVIOUS
  <2>4. PICK f : f = runs'[i].rows[j] OBVIOUS
  <2>5. g \in LiveRows /\ f \in Batch
    <3>1. g = runs[i].rows[k] /\ k \in DOMAIN runs[i].rows BY <2>1, <2>2, <2>3
    <3> QED BY <1>6, <2>4, <3>1 DEF LiveRows, Batch, ToSet
  <2>6. Of(f) = Of(g) /\ IsTwap(f) = IsTwap(g) /\ At(f) < At(g)
    <3>1. At(f) \in Nat /\ At(g) \in Nat BY <2>1, <2>5, TakenIs
    <3>2. Stream(runs'[i], g) = Stream(runs'[i], f) BY <1>1, <2>3, <2>4
    <3>3. IsTwap(f) = IsTwap(g) BY <1>6, <3>2 DEF Stream
    <3> QED BY <1>1, <2>3, <2>4, <3>1, <3>3
  <2>7. ~IsTwap(f) /\ ServedIn(heard, g, f) BY <2>1, <2>5, <2>6 DEF BehindRows
  <2>8. ServedIn(heard', g, f) BY <2>7, ServedLasts
  <2> QED BY <1>1, <2>3, <2>4, <2>7, <2>8
<1>7. CASE BackfillWrite /\ i \notin DOMAIN runs
  <2>1. PICK r \in FlowRun :
            /\ runs' = Append(runs, r)
            /\ \A m, l \in DOMAIN r.rows : m < l => At(r.rows[m]) <= At(r.rows[l])
            /\ \A m \in DOMAIN r.rows : r.rows[m] \in plan.fills
    BY <1>7, BackfillIs
  <2>2. /\ DOMAIN runs = 1..Len(runs) /\ Len(runs) \in Nat /\ DOMAIN runs' = 1..(Len(runs) + 1)
        /\ runs'[Len(runs) + 1] = r
    BY <2>1, RunAdded
  <2>3. runs'[i] = r BY <1>7, <2>2
  <2>4. k \in DOMAIN r.rows /\ k < j /\ j \in DOMAIN r.rows BY <1>4, <2>3
  <2>5. At(r.rows[k]) <= At(r.rows[j]) BY <2>1, <2>4
  <2>6. r.rows[k] \in Fills /\ r.rows[j] \in Fills BY <2>1, <2>4 DEF WalletState
  <2>7. At(r.rows[k]) \in Nat /\ At(r.rows[j]) \in Nat BY <1>0, <2>6, FillsAre
  <2> QED BY <1>1, <2>3, <2>5, <2>7
<1> HIDE DEF Excused
<1> QED BY <1>2, <1>5, <1>6, <1>7 DEF RowsFromBefore

\* Every step keeps the order.
LEMMA OrderKept == ASSUME WalletState, OrderInv, WalletNext PROVE OrderInv'
BY SortedKept, SlicesKept, BehindKept, LateKept, InOrderKept DEF OrderInv

-----------------------------------------------------------------------------
(* Nothing is skipped.                                                       *)

\* A fill the lane should have.
Due(f) == f \in Heard \ passed /\ Wanted(f) /\ ~IsTwap(f)
\* So far behind another one that a request which starts for that one misses it.
Behind(f, g) == Of(f) = Of(g) /\ At(f) + Overlap < At(g)
\* Recorded for good: not in the last row of the open run.
Firm(f) ==
    \E i \in DOMAIN runs : \E j \in DOMAIN runs[i].rows :
        runs[i].rows[j] = f /\ (runs[i].state = "open" => j < Len(runs[i].rows))

\* The fills a poller has seen, and those its next request will not ask for, are recorded
\* or about to be.
RememberedInv == Live => \A f \in poller.seen : Recorded(f) \/ f \in Batch
AskedInv == Live => \A f \in Heard : Due(f) /\ At(f) < RequestStart(poller, Of(f)) => Recorded(f) \/ f \in Batch
\* What is behind a row of the batch is recorded before it,
BatchInv ==
    \A k \in DOMAIN batch : \A f \in Heard :
        ~IsTwap(batch[k]) /\ Due(f) /\ Behind(f, batch[k])
            => Recorded(f) \/ \E l \in 1..(k - 1) : batch[l] = f
\* so what is behind a row that moves the high-water mark is recorded for good,
FirmInv ==
    \A i \in DOMAIN runs : \A j \in DOMAIN runs[i].rows : \A f \in Heard :
        MovesHighwater(runs[i], runs[i].rows[j]) /\ Due(f) /\ Behind(f, runs[i].rows[j]) => Firm(f)
\* and so is what is behind a fill a backfill will write.
PlanInv == \A h \in plan.fills : \A f \in Heard : Due(f) /\ Behind(f, h) => Firm(f)

KeptInv == RememberedInv /\ AskedInv /\ BatchInv /\ FirmInv /\ PlanInv

\* A recorded fill is in a row, before a step
LEMMA RecordedMeans ==
    \A f : Recorded(f) <=> \E i \in DOMAIN runs : \E j \in DOMAIN runs[i].rows : runs[i].rows[j] = f
BY RecordedIs DEF Recorded

\* and after it.
LEMMA RecordedNext ==
    \A f : Recorded(f)' <=> \E i \in DOMAIN runs' : \E j \in DOMAIN runs'[i].rows : runs'[i].rows[j] = f
BY DEF Recorded, RowsIn, ToSet

\* A row stays, unless it is the last one of a run whose process is killed.
LEMMA RecordedLasts ==
    ASSUME WalletState, WalletNext, ~KillPoller PROVE \A f : Recorded(f) => Recorded(f)'
<1>1. SUFFICES ASSUME NEW f, Recorded(f) PROVE Recorded(f)' OBVIOUS
<1>2. PICK i \in DOMAIN runs : \E j \in DOMAIN runs[i].rows : runs[i].rows[j] = f BY <1>1, RecordedMeans
<1>3. PICK j \in DOMAIN runs[i].rows : runs[i].rows[j] = f BY <1>2
<1>4. i \in DOMAIN runs' /\ j \in DOMAIN runs'[i].rows /\ runs'[i].rows[j] = f BY <1>3, RowsMove DEF RowsStay
<1> QED BY <1>4, RecordedNext

\* What is not in the last row of the open run stays, come what may.
LEMMA FirmLasts == ASSUME WalletState, WalletNext PROVE \A f : Firm(f) => Firm(f)'
<1>1. SUFFICES ASSUME NEW f, Firm(f) PROVE Firm(f)' OBVIOUS
<1>2. PICK i \in DOMAIN runs : \E j \in DOMAIN runs[i].rows :
        runs[i].rows[j] = f /\ (runs[i].state = "open" => j < Len(runs[i].rows))
  BY <1>1 DEF Firm
<1>3. PICK j \in DOMAIN runs[i].rows :
        runs[i].rows[j] = f /\ (runs[i].state = "open" => j < Len(runs[i].rows))
  BY <1>2
<1>4. ~(KillPoller /\ i = poller.run /\ j = Len(runs[i].rows))
  <2>1. SUFFICES ASSUME KillPoller, i = poller.run, j = Len(runs[i].rows) PROVE FALSE OBVIOUS
  <2>2. Live BY <2>1 DEF KillPoller
  <2>3. runs[i].state = "open" BY <1>3, <2>1, <2>2 DEF WalletState, RunsTyped
  <2>4. Len(runs[i].rows) \in Nat BY <1>3, RunTyped DEF WalletState
  <2> QED BY <1>3, <2>1, <2>3, <2>4
<1>5. /\ i \in DOMAIN runs' /\ j \in DOMAIN runs'[i].rows /\ runs'[i].rows[j] = runs[i].rows[j]
      /\ j < Len(runs[i].rows) => j < Len(runs'[i].rows) \/ runs'[i].state # "open"
      /\ runs[i].state # "open" => runs'[i].state # "open"
  BY <1>3, <1>4, RowsMove DEF RowsStay
<1>6. runs'[i].rows[j] = f /\ (runs'[i].state = "open" => j < Len(runs'[i].rows)) BY <1>3, <1>5
<1> QED BY <1>5, <1>6 DEF Firm

\* What is recorded for good is recorded.
LEMMA FirmIsRecorded == \A f : Firm(f) => Recorded(f)
BY RecordedMeans DEF Firm

\* A fill becomes due when it is served, and then it is not behind what has happened.
LEMMA DueBefore ==
    ASSUME WalletState, WalletNext, NEW f \in Heard', f \notin passed', Wanted(f), ~IsTwap(f)
    PROVE  /\ f \in Fills /\ At(f) \in Nat /\ Of(f) \in Wallets
           /\ \/ Due(f) /\ f \in Heard
              \/ /\ Publish(f) /\ clock <= At(f) + Overlap
                 /\ Live /\ At(f) < RequestStart(poller, Of(f))
                        => poller.page[Of(f)] = 0 /\ poller.floor[Of(f)] = 0
<1>0. Heard' \in SUBSET Fills /\ clock \in Nat /\ fill \in Histories /\ Overlap \in Nat
  BY TimesMove, WalletFlowAssumption DEF WalletState
<1>1. f \in Fills /\ At(f) \in Nat /\ Of(f) \in Wallets BY <1>0, FillsAre
<1>2. CASE Rest \/ ClockTick
  <2>1. Heard' = Heard /\ passed' = passed BY <1>2 DEF Rest, ClockTick, Heard
  <2> QED BY <1>1, <2>1 DEF Due
<1>3. CASE \E g \in Fills : Publish(g)
  <2>1. PICK g \in Fills : Publish(g) BY <1>3
  <2>2. Heard' = Heard \cup {g} /\ passed \subseteq passed' /\ passed' = (IF TooLate(g) THEN passed \cup {g} ELSE passed)
    BY <2>1, PublishIs, TimesMove
  <2>3. CASE f = g
    <3>1. ~TooLate(f) BY <2>2, <2>3
    <3> QED BY <1>0, <1>1, <2>1, <2>3, <3>1 DEF TooLate
  <2>4. CASE f # g BY <1>1, <2>2, <2>4 DEF Due
  <2> QED BY <2>3, <2>4
<1> QED BY <1>2, <1>3, StepCases

\* What a request of the next poller starts above is recorded.
LEMMA BelowHighwater ==
    ASSUME WalletState, FirmInv, NEW f \in Heard, Due(f), At(f) < AfterOverlap(DurableHighwater(Of(f)))
    PROVE  Firm(f)
<1>1. f \in Fills /\ At(f) \in Nat /\ Of(f) \in Wallets /\ 1 <= At(f) /\ Overlap \in Nat /\ clock \in Nat
  <2>1. f \in Fills BY HeardIs DEF WalletState
  <2>2. At(f) >= 1 BY DEF Due, Prospective
  <2> QED BY <2>1, <2>2, FillsAre, WalletFlowAssumption DEF WalletState
<1>2. PICK h : h = DurableHighwater(Of(f)) OBVIOUS
<1>3. h \in Nat BY <1>1, <1>2, HighwaterIs
<1>4. AfterOverlap(h) = IF h = 0 \/ h - Overlap < 1 THEN 1 ELSE h - Overlap BY <1>3, OverlapIs
<1>5. h # 0 /\ At(f) + Overlap < h BY <1>1, <1>2, <1>3, <1>4
<1>6. PICK i \in DOMAIN runs : \E j \in DOMAIN runs[i].rows :
        /\ MovesHighwater(runs[i], runs[i].rows[j]) /\ Of(runs[i].rows[j]) = Of(f)
        /\ At(runs[i].rows[j]) = h
  BY <1>1, <1>2, <1>5, HighwaterIs
<1>7. PICK j \in DOMAIN runs[i].rows :
        /\ MovesHighwater(runs[i], runs[i].rows[j]) /\ Of(runs[i].rows[j]) = Of(f)
        /\ At(runs[i].rows[j]) = h
  BY <1>6
<1>8. Behind(f, runs[i].rows[j]) BY <1>5, <1>7 DEF Behind
<1> QED BY <1>7, <1>8 DEF FirmInv

\* The head of a batch becomes a row.
LEMMA HeadRecorded == ASSUME WalletState, Deliver, NEW x, x = batch[1] PROVE Recorded(x)'
<1>1. /\ poller.run \in DOMAIN runs'
      /\ DOMAIN runs'[poller.run].rows = 1..(Len(runs[poller.run].rows) + 1)
      /\ runs'[poller.run].rows[Len(runs[poller.run].rows) + 1] = batch[1]
  BY WriteIs DEF OnlyRun
<1>2. Len(runs[poller.run].rows) \in Nat BY WriteIs, RunTyped DEF OnlyRun, WalletState
<1>3. \E i \in DOMAIN runs' : \E j \in DOMAIN runs'[i].rows : runs'[i].rows[j] = x BY <1>1, <1>2
<1> QED BY <1>3, RecordedNext

\* A poller that starts has seen what is recorded, and what a poll takes is in its batch.
LEMMA RememberedKept == ASSUME WalletState, RememberedInv, WalletNext PROVE RememberedInv'
<1>1. SUFFICES ASSUME Live', NEW f \in poller'.seen PROVE Recorded(f)' \/ f \in Batch'
  BY DEF RememberedInv
<1>2. ~KillPoller
  <2>1. KillPoller => poller' = NoPoller BY DEF KillPoller
  <2> QED BY <1>1, <2>1 DEF Live
<1>3. CASE StartSegment
  <2>1. f \in RowsIn(HotRuns) BY <1>1, <1>3, StartIs
  <2>2. HotRuns \in SUBSET DOMAIN runs BY DEF HotRuns, InPlaces
  <2>3. Recorded(f) BY <2>1, <2>2, RecordedIs, RecordedMeans
  <2> QED BY <1>2, <2>3, RecordedLasts
<1>4. ASSUME NEW failed \in SUBSET Fillers, NEW twapFailed \in SUBSET Slicers, Poll(failed, twapFailed)
      PROVE  Recorded(f)' \/ f \in Batch'
  <2>1. Live /\ batch = <<>> /\ poller'.seen = poller.seen \cup ToSet(batch') BY <1>4, PollTakes
  <2>2. CASE f \in ToSet(batch') BY <2>2 DEF Batch
  <2>3. CASE f \in poller.seen
    <3>1. Batch = {} BY <2>1 DEF Batch, ToSet
    <3>2. Recorded(f) BY <2>1, <2>3, <3>1 DEF RememberedInv
    <3> QED BY <1>2, <3>2, RecordedLasts
  <2> QED BY <1>1, <2>1, <2>2, <2>3
<1>5. CASE Live /\ Deliver /\ poller' = poller /\ Batch \subseteq Batch' \cup {batch[1]}
  <2>1. Recorded(f) \/ f \in Batch BY <1>1, <1>5 DEF RememberedInv
  <2>2. CASE Recorded(f) BY <1>2, <2>2, RecordedLasts
  <2>3. CASE f = batch[1] BY <1>5, <2>3, HeadRecorded
  <2> QED BY <1>5, <2>1, <2>2, <2>3
<1>6. CASE Live /\ Batch' = Batch /\ poller' = poller
  <2>1. Recorded(f) \/ f \in Batch BY <1>1, <1>6 DEF RememberedInv
  <2> QED BY <1>2, <1>6, <2>1, RecordedLasts
<1> QED BY <1>1, <1>3, <1>4, <1>5, <1>6, LiveCases

\* A request moves on only over what is taken.
LEMMA AskedKept == ASSUME WalletState, RememberedInv, AskedInv, FirmInv, WalletNext PROVE AskedInv'
<1>0. fill' = fill BY StepCases
<1>1. SUFFICES ASSUME Live', NEW f \in Heard', f \notin passed', Wanted(f), ~IsTwap(f),
                      At(f) < RequestStart(poller', Of(f))
               PROVE  Recorded(f)' \/ f \in Batch'
  BY <1>0 DEF AskedInv, Due, RequestStart, AfterOverlap
<1>2. ~KillPoller
  <2>1. KillPoller => poller' = NoPoller BY DEF KillPoller
  <2> QED BY <1>1, <2>1 DEF Live
<1>3. /\ f \in Fills /\ At(f) \in Nat /\ Of(f) \in Wallets
      /\ \/ Due(f) /\ f \in Heard
         \/ /\ Publish(f) /\ clock <= At(f) + Overlap
            /\ Live /\ At(f) < RequestStart(poller, Of(f))
                   => poller.page[Of(f)] = 0 /\ poller.floor[Of(f)] = 0
  BY <1>1, DueBefore
<1>4. CASE Publish(f)
  <2>1. poller' = poller /\ ~(Due(f) /\ f \in Heard) BY <1>3, <1>4 DEF Publish
  <2>2. Live BY <1>1, <2>1 DEF Live
  <2>3. poller.page[Of(f)] = 0 /\ poller.floor[Of(f)] = 0 /\ clock <= At(f) + Overlap BY <1>1, <1>3, <2>1, <2>2
  <2>4. /\ poller \in Memory /\ poller.high[Of(f)] \in Nat /\ poller.high[Of(f)] <= clock /\ clock \in Nat
        /\ Overlap \in Nat /\ 1 <= At(f)
    <3>1. poller \in Memory /\ poller.high[Of(f)] <= clock /\ clock \in Nat
      BY <1>3, <2>2 DEF WalletState, PollerTyped
    <3>2. At(f) >= 1 BY <1>1 DEF Prospective
    <3> QED BY <1>3, <3>1, <3>2, WalletFlowAssumption DEF Memory
  <2>5. RequestStart(poller, Of(f)) = AfterOverlap(poller.high[Of(f)])
    <3>1. AfterOverlap(poller.high[Of(f)]) \in Nat BY <1>3, <2>4, StartOf
    <3> QED BY <1>3, <2>3, <2>4, <3>1, StartOf
  <2>6. AfterOverlap(poller.high[Of(f)]) =
          IF poller.high[Of(f)] = 0 \/ poller.high[Of(f)] - Overlap < 1 THEN 1
          ELSE poller.high[Of(f)] - Overlap
    BY <2>4, OverlapIs
  <2> QED BY <1>1, <1>3, <2>1, <2>3, <2>4, <2>5, <2>6
<1>5. CASE Due(f) /\ f \in Heard
  <2>1. CASE StartSegment
    <3>1. RequestStart(poller', Of(f)) = AfterOverlap(DurableHighwater(Of(f))) BY <1>3, <2>1, StartIs
    <3>2. Recorded(f) BY <1>1, <1>5, <3>1, BelowHighwater, FirmIsRecorded
    <3> QED BY <1>2, <3>2, RecordedLasts
  <2>2. ASSUME NEW failed \in SUBSET Fillers, NEW twapFailed \in SUBSET Slicers, Poll(failed, twapFailed)
        PROVE  Recorded(f)' \/ f \in Batch'
    <3>1. /\ Live /\ batch = <<>> /\ poller'.seen = poller.seen \cup ToSet(batch')
          /\ At(f) >= RequestStart(poller, Of(f)) => f \in poller'.seen
      BY <1>1, <1>5, <2>2, PollTakes
    <3>2. Batch = {} BY <3>1 DEF Batch, ToSet
    <3>3. RequestStart(poller, Of(f)) \in Nat BY <1>3, <3>1, StartOf DEF WalletState, PollerTyped
    <3>4. CASE f \in ToSet(batch') BY <3>4 DEF Batch
    <3>5. CASE f \in poller.seen
      <4>1. Recorded(f) BY <3>1, <3>2, <3>5 DEF RememberedInv
      <4> QED BY <1>2, <4>1, RecordedLasts
    <3>6. CASE At(f) < RequestStart(poller, Of(f))
      <4>1. Recorded(f) BY <1>5, <3>1, <3>2, <3>6 DEF AskedInv
      <4> QED BY <1>2, <4>1, RecordedLasts
    <3> QED BY <1>3, <3>1, <3>3, <3>4, <3>5, <3>6
  <2>3. CASE Live /\ Deliver /\ poller' = poller /\ Batch \subseteq Batch' \cup {batch[1]}
    <3>1. Recorded(f) \/ f \in Batch BY <1>1, <1>5, <2>3 DEF AskedInv
    <3>2. CASE Recorded(f) BY <1>2, <3>2, RecordedLasts
    <3>3. CASE f = batch[1] BY <2>3, <3>3, HeadRecorded
    <3> QED BY <2>3, <3>1, <3>2, <3>3
  <2>4. CASE Live /\ Batch' = Batch /\ poller' = poller
    <3>1. Recorded(f) \/ f \in Batch BY <1>1, <1>5, <2>4 DEF AskedInv
    <3> QED BY <1>2, <2>4, <3>1, RecordedLasts
  <2> QED BY <1>1, <2>1, <2>2, <2>3, <2>4, LiveCases
<1> QED BY <1>3, <1>4, <1>5

\* A batch holds all that is behind its newest rows, and is written in order.
LEMMA BatchInvKept ==
    ASSUME WalletState, BatchSorted, RememberedInv, AskedInv, BatchInv, WalletNext PROVE BatchInv'
<1>0. fill' = fill BY StepCases
<1>1. SUFFICES ASSUME NEW k \in DOMAIN batch', NEW f \in Heard', f \notin passed', Wanted(f), ~IsTwap(f),
                      ~IsTwap(batch'[k]), Behind(f, batch'[k])
               PROVE  Recorded(f)' \/ \E l \in 1..(k - 1) : batch'[l] = f
  BY <1>0 DEF BatchInv, Due, Behind
<1>2. /\ f \in Fills /\ At(f) \in Nat /\ Of(f) \in Wallets /\ Overlap \in Nat /\ clock \in Nat
      /\ \/ Due(f) /\ f \in Heard
         \/ Publish(f) /\ clock <= At(f) + Overlap
  BY <1>1, DueBefore, WalletFlowAssumption DEF WalletState
<1>3. ~(batch' = <<>>) BY <1>1
<1>4. ~KillPoller /\ ~StartSegment /\ ~EndSegment /\ Live'
  <2>1. KillPoller \/ StartSegment \/ EndSegment => batch' = <<>> BY StartIs, StopIs
  <2> QED BY <1>3, <2>1, BatchKept
<1>5. CASE ~(Due(f) /\ f \in Heard)
  <2>1. Publish(f) /\ clock <= At(f) + Overlap BY <1>2, <1>5
  <2>2. batch' = batch BY <2>1 DEF Publish
  <2>3. batch[k] \in Heard /\ batch[k] \in Fills BY <1>1, <2>2, HeardIs DEF WalletState
  <2>4. At(batch[k]) <= clock /\ At(batch[k]) \in Nat BY <2>3, FillsAre DEF WalletState
  <2> QED BY <1>1, <1>2, <2>1, <2>2, <2>4 DEF Behind
<1>6. CASE Due(f) /\ f \in Heard
  <2>1. ASSUME NEW failed \in SUBSET Fillers, NEW twapFailed \in SUBSET Slicers, Poll(failed, twapFailed)
        PROVE  Recorded(f)' \/ \E l \in 1..(k - 1) : batch'[l] = f
    <3>1. /\ Live /\ batch = <<>> /\ poller'.seen = poller.seen \cup ToSet(batch')
          /\ batch' \in Seq(Fills)
          /\ \A a, b \in DOMAIN batch' : a < b => At(batch'[a]) <= At(batch'[b])
          /\ /\ At(f) >= RequestStart(poller, Of(f))
             /\ \E g \in ToSet(batch') : ~IsTwap(g) /\ Of(g) = Of(f) /\ At(f) < At(g)
             => f \in poller'.seen
      BY <1>1, <1>6, <2>1, PollTakes
    <3>2. Batch = {} BY <3>1 DEF Batch, ToSet
    <3>3. RequestStart(poller, Of(f)) \in Nat BY <1>2, <3>1, StartOf DEF WalletState, PollerTyped
    <3>4. /\ batch'[k] \in ToSet(batch') /\ Of(batch'[k]) = Of(f) /\ At(batch'[k]) \in Nat
          /\ At(f) < At(batch'[k])
      <4>1. batch'[k] \in Fills BY <1>1, <3>1
      <4>2. At(batch'[k]) \in Nat BY <4>1, FillsAre DEF WalletState
      <4> QED BY <1>1, <1>2, <4>2 DEF ToSet, Behind
    <3>5. CASE f \in ToSet(batch')
      <4>1. PICK l \in DOMAIN batch' : f = batch'[l] BY <3>5 DEF ToSet
      <4>2. ~(k <= l)
        <5>1. CASE k = l BY <1>2, <3>4, <4>1, <5>1
        <5>2. CASE k < l
          <6>1. At(batch'[k]) <= At(batch'[l]) BY <1>1, <3>1, <5>2
          <6> QED BY <1>2, <3>4, <4>1, <6>1
        <5>3. k \in Int /\ l \in Int BY <1>1, <3>1
        <5> QED BY <5>1, <5>2, <5>3
      <4>3. l \in 1..(k - 1) BY <1>1, <3>1, <4>2
      <4> QED BY <4>1, <4>3
    <3>6. CASE f \in poller.seen
      <4>1. Recorded(f) BY <3>1, <3>2, <3>6 DEF RememberedInv
      <4> QED BY <1>4, <4>1, RecordedLasts
    <3>7. CASE At(f) < RequestStart(poller, Of(f))
      <4>1. Recorded(f) BY <1>6, <3>1, <3>2, <3>7 DEF AskedInv
      <4> QED BY <1>4, <4>1, RecordedLasts
    <3>8. At(f) >= RequestStart(poller, Of(f)) \/ At(f) < RequestStart(poller, Of(f)) BY <1>2, <3>3
    <3> QED BY <1>1, <3>1, <3>4, <3>5, <3>6, <3>7, <3>8
  <2>2. CASE Deliver
    <3>1. /\ k + 1 \in DOMAIN batch /\ batch'[k] = batch[k + 1] /\ batch' \in Seq(Fills)
          /\ \A l \in DOMAIN batch : l = 1 \/ (l - 1 \in DOMAIN batch' /\ batch'[l - 1] = batch[l])
      BY <1>1, <2>2, WriteIs
    <3>2. Recorded(f) \/ \E l \in 1..((k + 1) - 1) : batch[l] = f BY <1>1, <1>6, <3>1 DEF BatchInv
    <3>3. CASE Recorded(f) BY <1>4, <3>3, RecordedLasts
    <3>4. ASSUME NEW l \in 1..((k + 1) - 1), batch[l] = f
          PROVE  Recorded(f)' \/ \E m \in 1..(k - 1) : batch'[m] = f
      <4>1. CASE l = 1 BY <2>2, <3>4, <4>1, HeadRecorded
      <4>2. CASE l # 1
        <5>1. k \in Int BY <1>1, <3>1
        <5>2. l \in DOMAIN batch
          <6>1. batch \in Seq(Fills) BY DEF WalletState
          <6> QED BY <3>1, <5>1, <6>1
        <5>3. batch'[l - 1] = f BY <3>1, <3>4, <4>2, <5>2
        <5>4. l - 1 \in 1..(k - 1) BY <4>2, <5>1
        <5> QED BY <5>3, <5>4
      <4> QED BY <4>1, <4>2
    <3> QED BY <3>2, <3>3, <3>4
  <2>3. CASE batch' = batch
    <3>1. Recorded(f) \/ \E l \in 1..(k - 1) : batch[l] = f BY <1>1, <1>6, <2>3 DEF BatchInv
    <3> QED BY <1>4, <2>3, <3>1, RecordedLasts
  <2> QED BY <1>3, <1>4, <2>1, <2>2, <2>3, LiveCases
<1> QED BY <1>5, <1>6

\* What happens is not news that is behind what is there already.
LEMMA NewsIsAhead ==
    ASSUME WalletState, WalletNext, NEW f \in Heard', f \notin passed', Wanted(f), ~IsTwap(f),
           NEW g \in Fills, At(g) <= clock, Behind(f, g)
    PROVE  Due(f) /\ f \in Heard
<1>1. /\ At(f) \in Nat
      /\ \/ Due(f) /\ f \in Heard
         \/ Publish(f) /\ clock <= At(f) + Overlap
  BY DueBefore
<1>2. At(g) \in Nat /\ clock \in Nat /\ Overlap \in Nat BY FillsAre, WalletFlowAssumption DEF WalletState
<1>3. At(f) + Overlap < At(g) BY DEF Behind
<1> QED BY <1>1, <1>2, <1>3

\* When a row is written, the rows before it are there for good.
LEMMA WriteFirms == ASSUME WalletState, Deliver, NEW f, Recorded(f) PROVE Firm(f)'
<1> DEFINE o == poller.run
<1>1. PICK i \in DOMAIN runs : \E j \in DOMAIN runs[i].rows : runs[i].rows[j] = f BY RecordedMeans
<1>2. PICK j \in DOMAIN runs[i].rows : runs[i].rows[j] = f BY <1>1
<1>3. /\ OnlyRun(o) /\ Len(runs'[o].rows) = Len(runs[o].rows) + 1
      /\ DOMAIN runs'[o].rows = 1..(Len(runs[o].rows) + 1)
      /\ \A k \in DOMAIN runs[o].rows : runs'[o].rows[k] = runs[o].rows[k]
  BY WriteIs
<1>4. /\ o \in DOMAIN runs /\ DOMAIN runs' = DOMAIN runs
      /\ \A k \in DOMAIN runs : k # o => runs'[k] = runs[k]
  BY <1>3 DEF OnlyRun
<1>5. runs[i].state = "open" => i = o BY DEF WalletState, RunsTyped
<1> HIDE DEF o
<1>6. CASE i = o
  <2>1. j \in 1..Len(runs[o].rows) /\ Len(runs[o].rows) \in Nat BY <1>4, <1>6, RunTyped DEF WalletState
  <2>2. j \in DOMAIN runs'[o].rows /\ runs'[o].rows[j] = f /\ j < Len(runs'[o].rows) BY <1>2, <1>3, <1>6, <2>1
  <2> QED BY <1>4, <2>2 DEF Firm
<1>7. CASE i # o
  <2>1. i \in DOMAIN runs' /\ runs'[i] = runs[i] /\ runs[i].state # "open" BY <1>4, <1>5, <1>7
  <2> QED BY <1>2, <2>1 DEF Firm
<1> QED BY <1>6, <1>7

\* A row is written after all that is behind it.
LEMMA FirmInvKept == ASSUME WalletState, BatchInv, FirmInv, PlanInv, WalletNext PROVE FirmInv'
<1>1. fill' = fill BY StepCases
<1>2. SUFFICES ASSUME NEW i \in DOMAIN runs', NEW j \in DOMAIN runs'[i].rows, NEW f \in Heard',
                      MovesHighwater(runs'[i], runs'[i].rows[j]),
                      f \notin passed', Wanted(f), ~IsTwap(f), Behind(f, runs'[i].rows[j])
               PROVE  Firm(f)'
  BY <1>1 DEF FirmInv, Due, Behind, MovesHighwater
<1>3. CASE /\ i \in DOMAIN runs /\ j \in DOMAIN runs[i].rows
           /\ runs'[i].rows[j] = runs[i].rows[j] /\ runs'[i].node = runs[i].node
  <2>1. runs[i].rows[j] \in Fills /\ At(runs[i].rows[j]) <= clock BY <1>3, RunTyped DEF WalletState, RunsTyped
  <2>2. Behind(f, runs[i].rows[j]) /\ MovesHighwater(runs[i], runs[i].rows[j])
    BY <1>2, <1>3 DEF MovesHighwater
  <2>3. Due(f) /\ f \in Heard BY <1>2, <2>1, <2>2, NewsIsAhead
  <2>4. Firm(f) BY <1>3, <2>2, <2>3 DEF FirmInv
  <2> QED BY <2>4, FirmLasts
<1>4. CASE /\ Deliver /\ ~runs'[i].node /\ 1 \in DOMAIN batch /\ runs'[i].rows[j] = batch[1]
  <2>1. batch[1] \in Fills /\ At(batch[1]) <= clock
    <3>1. batch[1] \in Heard BY <1>4 DEF WalletState
    <3> QED BY <3>1, HeardIs DEF WalletState
  <2>2. Behind(f, batch[1]) /\ ~IsTwap(batch[1]) BY <1>2, <1>4 DEF MovesHighwater
  <2>3. Due(f) /\ f \in Heard BY <1>2, <2>1, <2>2, NewsIsAhead
  <2>4. Recorded(f) \/ \E l \in 1..(1 - 1) : batch[l] = f BY <1>4, <2>2, <2>3 DEF BatchInv
  <2>5. Recorded(f) BY <2>4
  <2> QED BY <1>4, <2>5, WriteFirms
<1>5. CASE runs'[i].rows[j] \in plan.fills
  <2>1. runs'[i].rows[j] \in Fills /\ At(runs'[i].rows[j]) <= clock BY <1>5 DEF WalletState
  <2>2. Due(f) /\ f \in Heard BY <1>2, <2>1, NewsIsAhead
  <2>3. Firm(f) BY <1>2, <1>5, <2>2 DEF PlanInv
  <2> QED BY <2>3, FirmLasts
<1> QED BY <1>3, <1>4, <1>5, RowsMove DEF RowsFromBefore

\* A backfill stays behind the high-water mark.
LEMMA PlanInvKept == ASSUME WalletState, FirmInv, PlanInv, WalletNext PROVE PlanInv'
<1>1. fill' = fill BY StepCases
<1>2. SUFFICES ASSUME NEW h \in plan'.fills, NEW f \in Heard',
                      f \notin passed', Wanted(f), ~IsTwap(f), Behind(f, h)
               PROVE  Firm(f)'
  BY <1>1 DEF PlanInv, Due, Behind
<1>3. CASE plan' = plan
  <2>1. h \in Fills /\ At(h) <= clock BY <1>3 DEF WalletState
  <2>2. Due(f) /\ f \in Heard BY <1>2, <2>1, NewsIsAhead
  <2>3. Firm(f) BY <1>2, <1>3, <2>2 DEF PlanInv
  <2> QED BY <2>3, FirmLasts
<1>4. CASE BackfillWrite
  <2>1. plan'.fills = {} BY <1>4 DEF BackfillWrite, NoPlan
  <2> QED BY <2>1
<1>5. ASSUME NEW w \in Wallets, BackfillScan(w) PROVE Firm(f)'
  <2>1. /\ DurableHighwater(w) # 0 /\ h \in Missing(w) /\ At(h) <= SafeEnd(w)
        /\ heard' = heard /\ passed' = passed
    BY <1>5 DEF BackfillScan
  <2>2. h \in Fills /\ Of(h) = w /\ At(h) <= clock BY <2>1 DEF Missing, Archive
  <2>3. Due(f) /\ f \in Heard BY <1>2, <2>2, NewsIsAhead
  <2>4. DurableHighwater(w) \in Nat /\ At(h) \in Nat /\ At(f) \in Nat /\ Overlap \in Nat /\ PollerMargin \in Nat
    <3>1. clock \in Nat /\ fill \in Histories BY DEF WalletState
    <3>2. DurableHighwater(w) \in 0..clock BY HighwaterIs
    <3>3. f \in Fills BY <1>2, DueBefore
    <3> QED BY <2>2, <3>1, <3>2, <3>3, FillsAre, WalletFlowAssumption
  <2>5. PICK i \in DOMAIN runs : \E j \in DOMAIN runs[i].rows :
          /\ MovesHighwater(runs[i], runs[i].rows[j]) /\ Of(runs[i].rows[j]) = w
          /\ At(runs[i].rows[j]) = DurableHighwater(w)
    BY <2>1, HighwaterIs
  <2>6. PICK j \in DOMAIN runs[i].rows :
          /\ MovesHighwater(runs[i], runs[i].rows[j]) /\ Of(runs[i].rows[j]) = w
          /\ At(runs[i].rows[j]) = DurableHighwater(w)
    BY <2>5
  <2>7. Behind(f, runs[i].rows[j])
    <3>1. Of(f) = w /\ At(f) + Overlap < At(h) BY <1>2, <2>2 DEF Behind
    <3>2. At(h) <= DurableHighwater(w) - Overlap - PollerMargin BY <2>1 DEF SafeEnd
    <3>3. At(f) + Overlap < DurableHighwater(w) BY <2>4, <3>1, <3>2
    <3> QED BY <2>6, <3>1, <3>3 DEF Behind
  <2>8. Firm(f) BY <2>3, <2>6, <2>7 DEF FirmInv
  <2> QED BY <2>8, FirmLasts
<1> QED BY <1>3, <1>4, <1>5, StepCases

\* Every step keeps what is recorded in reach.
LEMMA KeptInvKept == ASSUME WalletState, BatchSorted, KeptInv, WalletNext PROVE KeptInv'
BY RememberedKept, AskedKept, BatchInvKept, FirmInvKept, PlanInvKept DEF KeptInv

-----------------------------------------------------------------------------
(* The invariant of the lane.                                                *)

WalletInv == WalletState /\ OrderInv /\ KeptInv

\* The lane begins with nothing.
LEMMA WalletStarts == ASSUME WalletInit PROVE WalletInv
<1>1. /\ fill \in Histories /\ clock = 1 /\ heard = <<>> /\ runs = <<>> /\ poller = NoPoller
      /\ batch = <<>> /\ plan = NoPlan /\ forgotten = {} /\ passed = {}
  BY DEF WalletInit, Prospective
<1>2. ~Live /\ Heard = {} /\ DOMAIN runs = {} /\ DOMAIN batch = {} /\ DOMAIN heard = {} /\ plan.fills = {}
  BY <1>1 DEF Live, Heard, ToSet, NoPlan
<1>3. WalletState
  <2>1. clock \in 1..MaxTime BY <1>1, WalletFlowAssumption
  <2>2. heard \in Seq(Fills) /\ IsInjective(heard) /\ \A f \in Heard : At(f) <= clock BY <1>1, <1>2 DEF IsInjective
  <2>3. RunsTyped /\ PollerTyped BY <1>1, <1>2 DEF RunsTyped, PollerTyped
  <2>4. batch \in Seq(Fills) /\ plan \in [fills : SUBSET Fills, runs : Nat] BY <1>1 DEF NoPlan
  <2> QED BY <1>1, <1>2, <2>1, <2>2, <2>3, <2>4 DEF WalletState
<1>4. OrderInv
  BY <1>2 DEF OrderInv, OnlyLateFillsBreakOrder, BatchSorted, SlicesInv, BehindRows, LateInv
<1>5. KeptInv BY <1>2 DEF KeptInv, RememberedInv, AskedInv, BatchInv, FirmInv, PlanInv
<1> QED BY <1>3, <1>4, <1>5 DEF WalletInv

\* Every step keeps the invariant,
LEMMA WalletStep == ASSUME WalletInv, WalletNext PROVE WalletInv'
<1>1. WalletState' BY WalletStateKept DEF WalletInv
<1>2. OrderInv' BY OrderKept DEF WalletInv
<1>3. KeptInv' BY KeptInvKept DEF WalletInv, OrderInv
<1> QED BY <1>1, <1>2, <1>3 DEF WalletInv

\* and so does a step of another lane.
LEMMA WalletStays == ASSUME WalletInv, UNCHANGED wvars PROVE WalletInv'
<1>1. UNCHANGED <<fill, clock, heard, runs, poller, batch, plan, forgotten, passed>> BY DEF wvars
<1>2. WalletState'
  BY <1>1 DEF WalletInv, WalletState, RunsTyped, PollerTyped, Live, Heard, Wanted
<1>3. OrderInv'
  <2>1. OnlyLateFillsBreakOrder' <=> OnlyLateFillsBreakOrder BY <1>1, OrderMeans, OrderMeansNext
  <2>2. BatchSorted' /\ SlicesInv' BY <1>1 DEF WalletInv, OrderInv, BatchSorted, SlicesInv, Live, LiveRows, Batch
  <2>3. BehindRows' BY <1>1 DEF WalletInv, OrderInv, BehindRows, Live, LiveRows, Batch
  <2>4. LateInv'
    BY <1>1 DEF WalletInv, OrderInv, LateInv, Live, LiveRows, Batch, Heard, RequestStart, AfterOverlap
  <2> QED BY <2>1, <2>2, <2>3, <2>4 DEF WalletInv, OrderInv
<1>4. KeptInv'
  <2>1. \A f : Recorded(f)' <=> Recorded(f) BY <1>1, RecordedMeans, RecordedNext
  <2>2. Live' <=> Live BY <1>1 DEF Live
  <2>3. Heard' = Heard /\ Batch' = Batch BY <1>1 DEF Heard, Batch
  <2>4. RememberedInv' BY <1>1, <2>1, <2>2, <2>3 DEF WalletInv, KeptInv, RememberedInv
  <2>5. AskedInv' BY <1>1, <2>1, <2>2, <2>3 DEF WalletInv, KeptInv, AskedInv, Due, RequestStart, AfterOverlap
  <2>6. BatchInv' BY <1>1, <2>1, <2>3 DEF WalletInv, KeptInv, BatchInv, Due, Behind
  <2>7. FirmInv' BY <1>1, <2>3 DEF WalletInv, KeptInv, FirmInv, Firm, Due, Behind, MovesHighwater
  <2>8. PlanInv' BY <1>1, <2>3 DEF WalletInv, KeptInv, PlanInv, Firm, Due, Behind
  <2> QED BY <2>4, <2>5, <2>6, <2>7, <2>8 DEF KeptInv
<1> QED BY <1>2, <1>3, <1>4 DEF WalletInv

\* The types that the run checks.
LEMMA WalletTypes == ASSUME WalletState PROVE WalletTypeOK
<1>1. fill \in Histories /\ clock \in 1..MaxTime /\ MaxTime \in Nat BY WalletFlowAssumption DEF WalletState
<1>2. Heard \subseteq Fills /\ IsInjective(heard) BY HeardIs DEF WalletState
<1>3. ASSUME NEW i \in DOMAIN runs
      PROVE  runs[i] \in [born : 1..clock, rows : Seq(Fills), node : BOOLEAN,
                          place : {"raw", "promoted", "quarantined", "cold"},
                          state : {"open", "dead", "closed"}]
  BY RunTyped DEF WalletState, RunsTyped, FlowRun
<1>4. ASSUME Live
      PROVE  /\ runs[poller.run].state = "open"
             /\ poller.seen \subseteq Fills /\ poller.horizon \in Nat
             /\ \A w \in Wallets : {poller.high[w], poller.page[w], poller.floor[w]} \subseteq 0..clock
  <2>1. poller \in Memory /\ poller.run \in DOMAIN runs BY <1>4 DEF WalletState, PollerTyped
  <2>2. runs[poller.run].state = "open" BY <1>4, <2>1 DEF WalletState, RunsTyped
  <2>3. \A w \in Wallets : /\ poller.high[w] \in 0..clock /\ poller.page[w] \in 0..clock
                           /\ poller.floor[w] \in 0..clock
    BY <1>1, <1>4, <2>1 DEF WalletState, PollerTyped, Memory
  <2> QED BY <2>1, <2>2, <2>3 DEF Memory
<1>5. ~Live => batch = <<>> /\ \A i \in DOMAIN runs : runs[i].state # "open" BY DEF WalletState, RunsTyped
<1>6. ToSet(batch) \subseteq Fills BY DEF WalletState, ToSet
<1>7. plan.fills \cup forgotten \cup passed \subseteq Fills BY DEF WalletState
<1> QED BY <1>1, <1>2, <1>3, <1>4, <1>5, <1>6, <1>7 DEF WalletTypeOK

\* What the invariant is for.
LEMMA WalletKeeps == ASSUME WalletInv PROVE OnlyLateFillsBreakOrder /\ NothingSkipped
<1>1. OnlyLateFillsBreakOrder BY DEF WalletInv, OrderInv
<1>2. WalletTypeOK BY WalletTypes DEF WalletInv
<1>3. ASSUME batch = <<>>, NEW f \in Heard \ passed, Wanted(f), ~IsTwap(f), At(f) < NextStart(Of(f))
      PROVE  Recorded(f)
  <2>1. Due(f) BY <1>3 DEF Due
  <2>2. CASE Live
    <3>1. At(f) < RequestStart(poller, Of(f)) BY <1>3, <2>2 DEF NextStart
    <3>2. Batch = {} BY <1>3 DEF Batch, ToSet
    <3> QED BY <2>1, <2>2, <3>1, <3>2 DEF WalletInv, KeptInv, AskedInv
  <2>3. CASE ~Live
    <3>1. At(f) < AfterOverlap(DurableHighwater(Of(f))) BY <1>3, <2>3 DEF NextStart
    <3>2. Firm(f) BY <1>3, <2>1, <3>1, BelowHighwater DEF WalletInv, KeptInv
    <3> QED BY <3>2, FirmIsRecorded
  <2> QED BY <2>2, <2>3
<1>4. NothingSkipped BY <1>2, <1>3 DEF NothingSkipped
<1> QED BY <1>1, <1>4

\* Under the composition, whichever lane moves.
LEMMA WalletInvariance == PollingSpec => []WalletInv
<1>1. PollingInit => WalletInv BY WalletStarts DEF PollingInit
<1>2. WalletInv /\ [PollingNext]_pvars => WalletInv'
  <2> SUFFICES ASSUME WalletInv, [PollingNext]_pvars PROVE WalletInv' OBVIOUS
  <2>1. CASE WalletNext BY <2>1, WalletStep
  <2>2. CASE UNCHANGED wvars BY <2>2, WalletStays
  <2> QED BY <2>1, <2>2 DEF PollingNext, pvars
<1> QED BY <1>1, <1>2, PTL DEF PollingSpec

-----------------------------------------------------------------------------
(* The copies of a fill.                                                     *)

\* A row that stands: in a run that is not in quarantine.
StandsAt(rs, i, j, f) ==
    i \in DOMAIN rs /\ j \in DOMAIN rs[i].rows /\ rs[i].rows[j] = f /\ rs[i].place # "quarantined"
Stands(rs, f) == \E i \in DOMAIN rs : \E j \in DOMAIN rs[i].rows : StandsAt(rs, i, j, f)

\* What a poller does not take.
Beyond(p, f) == IF IsTwap(f) THEN At(f) < p.horizon ELSE At(f) < RequestStart(p, Of(f))

\* A fill that could be known has one standing row,
SingleInv ==
    \A f \in Fills \ forgotten :
        \A i, k \in DOMAIN runs : \A j \in DOMAIN runs[i].rows, l \in DOMAIN runs[k].rows :
            StandsAt(runs, i, j, f) /\ StandsAt(runs, k, l, f) => i = k /\ j = l
\* none while it waits in a batch, where it is once,
TakenInv ==
    Live => /\ \A k, l \in DOMAIN batch : batch[k] = batch[l] => k = l
            /\ \A k \in DOMAIN batch : /\ batch[k] \in poller.seen
                                       /\ batch[k] \in forgotten \/ ~Stands(runs, batch[k])
\* and if it has one the poller has seen it or does not take it.
KnownInv ==
    Live => \A f \in Fills \ forgotten : Stands(runs, f) => f \in poller.seen \/ Beyond(poller, f)

\* Runs are born in their order, and hold nothing newer than their segment's end.
BornInv ==
    /\ \A i, k \in DOMAIN runs : i < k => runs[i].born <= runs[k].born
    /\ Live => poller.born = runs[poller.run].born
    /\ Segments < MaxSegments =>
        /\ Live => clock <= runs[poller.run].born + MaxSegment
        /\ \A i \in DOMAIN runs : \A j \in DOMAIN runs[i].rows :
                At(runs[i].rows[j]) <= runs[i].born + MaxSegment

\* A time that a poller's high-water mark covers, and its batch with the overlap.
Covered(p, b, g) ==
    /\ At(g) <= p.high[Of(g)]
    /\ \A k \in DOMAIN b : ~IsTwap(b[k]) /\ Of(b[k]) = Of(g) => At(g) <= At(b[k]) + Overlap
\* A poller that did not begin beside a backfill covers what moves the durable mark.
AheadInv ==
    Live =>
        /\ \A w \in Wallets : AfterOverlap(poller.high[w]) <= RequestStart(poller, w)
        /\ \A k \in DOMAIN batch : ~IsTwap(batch[k]) => At(batch[k]) <= poller.high[Of(batch[k])]
        /\ ~poller.beside =>
            \A i \in HotRuns : \A j \in DOMAIN runs[i].rows :
                MovesHighwater(runs[i], runs[i].rows[j]) => Covered(poller, batch, runs[i].rows[j])
\* And what a plan will add to it; the fills of a plan that met no new poller are in no
\* row, in no batch and below the requests.
FreePlanInv ==
    plan # NoPlan =>
        /\ Len(runs) >= plan.runs
        /\ Len(runs) = plan.runs =>
            \A f \in plan.fills : ~IsTwap(f) =>
                /\ ~Stands(runs, f)
                /\ Live => At(f) < RequestStart(poller, Of(f)) /\ \A k \in DOMAIN batch : batch[k] # f
        /\ Live /\ ~poller.beside => \A g \in plan.fills : Covered(poller, batch, g)


\* Where a step leaves the runs: each in its place, or further on.
LEMMA PlacesMove ==
    ASSUME WalletState, WalletNext
    PROVE  /\ Len(runs) \in Nat /\ Len(runs') \in Nat /\ Len(runs) <= Len(runs')
           /\ \A i \in DOMAIN runs :
                /\ i \in DOMAIN runs' /\ runs'[i].born = runs[i].born /\ runs'[i].node = runs[i].node
                /\ runs[i].place = "quarantined" => runs'[i].place = "quarantined"
                /\ i \in HotRuns' => i \in HotRuns
<1> DEFINE Onward(i) == /\ i \in DOMAIN runs' /\ runs'[i].born = runs[i].born /\ runs'[i].node = runs[i].node
                        /\ runs[i].place = "quarantined" => runs'[i].place = "quarantined"
                        /\ i \in HotRuns' => i \in HotRuns
<1>0. runs \in Seq(FlowRun) /\ runs' \in Seq(FlowRun) BY RowsMove DEF WalletState, RunsTyped
<1>1. Len(runs) \in Nat /\ Len(runs') \in Nat /\ DOMAIN runs = 1..Len(runs) /\ DOMAIN runs' = 1..Len(runs')
  BY <1>0
<1>2. ASSUME NEW i \in DOMAIN runs, i \in DOMAIN runs', runs'[i].born = runs[i].born,
             runs'[i].node = runs[i].node, runs'[i].place = runs[i].place
      PROVE  Onward(i)
  BY <1>2 DEF HotRuns, InPlaces
<1>3. ASSUME NEW o, OnlyRun(o), Onward(o) PROVE \A i \in DOMAIN runs : Onward(i)
  <2>1. SUFFICES ASSUME NEW i \in DOMAIN runs, i # o PROVE Onward(i) BY <1>3
  <2>2. i \in DOMAIN runs' /\ runs'[i] = runs[i] BY <1>3, <2>1 DEF OnlyRun
  <2> QED BY <1>2, <2>2
<1>4. ASSUME NEW r \in FlowRun, runs' = Append(runs, r) PROVE \A i \in DOMAIN runs : Onward(i)
  <2>1. SUFFICES ASSUME NEW i \in DOMAIN runs PROVE Onward(i) OBVIOUS
  <2>2. i \in DOMAIN runs' /\ runs'[i] = runs[i] BY <1>1, <1>4, RunAdded
  <2> QED BY <1>2, <2>2
<1>5. \A i \in DOMAIN runs : Onward(i)
  <2>1. CASE Deliver
    <3>1. /\ OnlyRun(poller.run)
          /\ runs'[poller.run] = [runs[poller.run] EXCEPT !.rows = runs'[poller.run].rows]
      BY <2>1, WriteIs
    <3>2. poller.run \in DOMAIN runs /\ poller.run \in DOMAIN runs' BY <3>1 DEF OnlyRun
    <3>3. runs[poller.run] \in FlowRun BY <3>2, RunTyped DEF WalletState
    <3>4. /\ runs'[poller.run].born = runs[poller.run].born /\ runs'[poller.run].node = runs[poller.run].node
          /\ runs'[poller.run].place = runs[poller.run].place
      BY <3>1, <3>3 DEF FlowRun
    <3>5. Onward(poller.run) BY <1>2, <3>2, <3>4
    <3> HIDE DEF Onward
    <3> QED BY <1>3, <3>1, <3>5
  <2>2. CASE EndSegment \/ KillPoller
    <3>1. /\ OnlyRun(poller.run) /\ ~runs[poller.run].node /\ ~runs'[poller.run].node
          /\ runs'[poller.run].born = runs[poller.run].born
          /\ runs'[poller.run].place = runs[poller.run].place
      BY <2>2, StopIs
    <3>2. poller.run \in DOMAIN runs /\ poller.run \in DOMAIN runs' BY <3>1 DEF OnlyRun
    <3>3. runs[poller.run].node \in BOOLEAN /\ runs'[poller.run].node \in BOOLEAN
      <4>1. runs[poller.run] \in FlowRun /\ runs'[poller.run] \in FlowRun BY <1>0, <3>2
      <4> QED BY <4>1 DEF FlowRun
    <3>4. Onward(poller.run) BY <1>2, <3>1, <3>2, <3>3
    <3> HIDE DEF Onward
    <3> QED BY <1>3, <3>1, <3>4
  <2>3. CASE \E i \in DOMAIN runs : Promote(i) \/ Quarantine(i) \/ Offload(i)
    <3>1. PICK o \in DOMAIN runs : Promote(o) \/ Quarantine(o) \/ Offload(o) BY <2>3
    <3>2. /\ OnlyRun(o) /\ runs'[o].node = runs[o].node /\ runs'[o].born = runs[o].born /\ o \in HotRuns
      BY <3>1, MoveIs
    <3>3. o \in DOMAIN runs' /\ runs[o].place # "quarantined" BY <3>2 DEF OnlyRun, HotRuns, InPlaces
    <3>4. Onward(o) BY <3>2, <3>3
    <3> HIDE DEF Onward
    <3> QED BY <1>3, <3>2, <3>4
  <2>4. CASE StartSegment
    <3>1. PICK r \in FlowRun : runs' = Append(runs, r) BY <2>4, StartIs
    <3> HIDE DEF Onward
    <3> QED BY <1>4, <3>1
  <2>5. CASE BackfillWrite
    <3>1. PICK r \in FlowRun : runs' = Append(runs, r) BY <2>5, BackfillIs
    <3> HIDE DEF Onward
    <3> QED BY <1>4, <3>1
  <2>6. CASE runs' = runs BY <1>2, <2>6
  <2>7. \/ runs' = runs \/ Deliver \/ EndSegment \/ KillPoller \/ StartSegment \/ BackfillWrite
        \/ \E i \in DOMAIN runs : Promote(i) \/ Quarantine(i) \/ Offload(i)
    <3>1. (\E failed \in SUBSET Fillers, twapFailed \in SUBSET Slicers : Poll(failed, twapFailed)) => runs' = runs
      BY DEF Poll
    <3>2. (\E w \in Wallets : BackfillScan(w)) => runs' = runs BY DEF BackfillScan
    <3>3. (\E f \in Fills : Publish(f)) => runs' = runs BY DEF Publish
    <3>4. ClockTick => runs' = runs BY DEF ClockTick
    <3> QED BY <3>1, <3>2, <3>3, <3>4, StepCases
  <2> HIDE DEF Onward
  <2> QED BY <2>1, <2>2, <2>3, <2>4, <2>5, <2>6, <2>7
<1>6. Len(runs) <= Len(runs')
  <2>1. CASE Len(runs) = 0 BY <1>1, <2>1
  <2>2. CASE Len(runs) # 0
    <3>1. Len(runs) \in DOMAIN runs BY <1>1, <2>2
    <3>2. Len(runs) \in DOMAIN runs' BY <1>5, <3>1
    <3> QED BY <1>1, <3>2
  <2> QED BY <2>1, <2>2
<1> QED BY <1>1, <1>5, <1>6

\* The segments are counted, and never fewer.
LEMMA SegmentsGrow ==
    ASSUME WalletState, WalletNext
    PROVE  Segments \in Nat /\ Segments' \in Nat /\ Segments <= Segments'
<1> DEFINE S == {i \in DOMAIN runs : ~runs[i].node}
           T == {i \in DOMAIN runs' : ~runs'[i].node}
<1>1. runs \in Seq(FlowRun) /\ runs' \in Seq(FlowRun) BY RowsMove DEF WalletState, RunsTyped
<1>2. IsFiniteSet(DOMAIN runs') /\ IsFiniteSet(DOMAIN runs)
  <2>1. DOMAIN runs' = 1..Len(runs') /\ Len(runs') \in Nat BY <1>1
  <2>2. DOMAIN runs = 1..Len(runs) /\ Len(runs) \in Nat BY <1>1
  <2> QED BY <2>1, <2>2, FS_Interval
<1>3. S \subseteq T BY PlacesMove
<1>4. S \subseteq DOMAIN runs /\ T \subseteq DOMAIN runs' OBVIOUS
<1>5. Segments = Cardinality(S) /\ Segments' = Cardinality(T) BY DEF Segments
<1> HIDE DEF S, T
<1> QED BY <1>2, <1>3, <1>4, <1>5, FS_Subset, FS_CardinalityType

\* A row that stands after a step stood before, or is the head of the batch, or of a plan.
LEMMA StandsMove ==
    ASSUME WalletState, WalletNext, NEW i, NEW j, NEW f, StandsAt(runs', i, j, f)
    PROVE  \/ StandsAt(runs, i, j, f)
           \/ /\ Deliver /\ i = poller.run /\ i \in DOMAIN runs /\ j = Len(runs[i].rows) + 1
              /\ 1 \in DOMAIN batch /\ f = batch[1]
           \/ BackfillWrite /\ i \notin DOMAIN runs /\ f \in plan.fills
<1>1. i \in DOMAIN runs' /\ j \in DOMAIN runs'[i].rows /\ runs'[i].rows[j] = f /\ runs'[i].place # "quarantined"
  BY DEF StandsAt
<1>2. RowsFromBefore BY RowsMove
<1>3. CASE i \in DOMAIN runs /\ j \in DOMAIN runs[i].rows /\ runs'[i].rows[j] = runs[i].rows[j]
  <2>1. runs[i].place # "quarantined" BY <1>1, <1>3, PlacesMove
  <2> QED BY <1>1, <1>3, <2>1 DEF StandsAt
<1>4. CASE /\ Deliver /\ i = poller.run /\ i \in DOMAIN runs
           /\ j = Len(runs[i].rows) + 1 /\ 1 \in DOMAIN batch /\ runs'[i].rows[j] = batch[1]
  BY <1>1, <1>4
<1>5. CASE BackfillWrite /\ i \notin DOMAIN runs /\ runs'[i].rows[j] \in plan.fills BY <1>1, <1>5
<1> QED BY <1>1, <1>2, <1>3, <1>4, <1>5 DEF RowsFromBefore

\* A backfill knows all that stands.
LEMMA StandsIsDurable ==
    ASSUME WalletState, NEW f PROVE Stands(runs, f) <=> f \in Durable
<1> DEFINE D == InPlaces({"raw", "promoted", "cold"})
<1>1. D \in SUBSET DOMAIN runs BY DEF InPlaces
<1>2. f \in Durable <=> \E i \in D : \E j \in DOMAIN runs[i].rows : runs[i].rows[j] = f
  <2> HIDE DEF D
  <2>1. f \in RowsIn(D) <=> \E i \in D : \E j \in DOMAIN runs[i].rows : runs[i].rows[j] = f BY <1>1, RecordedIs
  <2> QED BY <2>1 DEF Durable, D
<1>3. \A i \in DOMAIN runs : i \in D <=> runs[i].place # "quarantined"
  <2>1. \A i \in DOMAIN runs : runs[i].place \in {"raw", "promoted", "quarantined", "cold"}
    BY RunTyped DEF WalletState, FlowRun
  <2> QED BY <2>1 DEF InPlaces
<1> HIDE DEF D
<1> QED BY <1>1, <1>2, <1>3 DEF Stands, StandsAt

\* What is out of sight is never in sight again.
LEMMA ForgottenGrows == ASSUME WalletState, WalletNext PROVE forgotten \subseteq forgotten'
<1>1. (\E failed \in SUBSET Fillers, twapFailed \in SUBSET Slicers : Poll(failed, twapFailed))
          => forgotten' = forgotten BY DEF Poll
<1>2. (\E i \in DOMAIN runs : Promote(i) \/ Quarantine(i) \/ Offload(i)) => forgotten' = forgotten BY MoveIs
<1>3. (\E w \in Wallets : BackfillScan(w)) => forgotten' = forgotten BY DEF BackfillScan
<1>4. (\E f \in Fills : Publish(f)) => forgotten' = forgotten BY DEF Publish
<1>5. ClockTick => forgotten' = forgotten BY DEF ClockTick
<1>6. Deliver \/ EndSegment \/ KillPoller => forgotten' = forgotten BY DEF Deliver, EndSegment, KillPoller
<1>7. StartSegment => forgotten \subseteq forgotten' BY DEF StartSegment
<1>8. BackfillWrite => forgotten \subseteq forgotten' BY DEF BackfillWrite
<1> QED BY <1>1, <1>2, <1>3, <1>4, <1>5, <1>6, <1>7, <1>8, StepCases

\* A fill of a plan that is not contested is new: it stands nowhere, and no poller takes it.
LEMMA UncontestedIs ==
    ASSUME WalletState, TakenInv, FreePlanInv, BackfillWrite,
           NEW f \in plan.fills, f \notin forgotten'
    PROVE  /\ ~Stands(runs, f)
           /\ Live => Beyond(poller, f) /\ \A k \in DOMAIN batch : batch[k] # f
<1>1. f \notin Contested /\ plan # NoPlan /\ f \in Fills BY DEF BackfillWrite, WalletState
<1>2. Len(runs) \in Nat /\ plan.runs \in Nat BY DEF WalletState, RunsTyped
<1>3. CASE ~IsTwap(f) /\ Len(runs) = plan.runs BY <1>1, <1>3 DEF FreePlanInv, Beyond
<1>4. CASE IsTwap(f) \/ Len(runs) # plan.runs
  <2>1. IsTwap(f) \/ Len(runs) > plan.runs BY <1>1, <1>2, <1>4 DEF FreePlanInv
  <2>2. f \notin Durable
        /\ (Live => f \notin poller.seen /\ ~IsTwap(f) /\ ~(At(f) >= RequestStart(poller, Of(f))))
    BY <1>1, <2>1 DEF Contested
  <2>3. ~Stands(runs, f) BY <2>2, StandsIsDurable
  <2>4. ASSUME Live PROVE Beyond(poller, f)
    <3>1. poller \in Memory /\ Of(f) \in Wallets /\ At(f) \in Nat
      BY <1>1, <2>4, FillsAre DEF WalletState, PollerTyped
    <3>2. RequestStart(poller, Of(f)) \in Nat BY <3>1, StartOf
    <3>3. At(f) < RequestStart(poller, Of(f)) BY <2>2, <2>4, <3>1, <3>2
    <3> QED BY <2>2, <2>4, <3>3 DEF Beyond
  <2>5. Live => \A k \in DOMAIN batch : batch[k] # f BY <2>2 DEF TakenInv
  <2> QED BY <2>3, <2>4, <2>5
<1> QED BY <1>3, <1>4

\* A fill has one standing row: what is written stands nowhere yet.
LEMMA SingleKept ==
    ASSUME WalletState, SingleInv, TakenInv, FreePlanInv, WalletNext PROVE SingleInv'
<1>1. SUFFICES ASSUME NEW f \in Fills \ forgotten', NEW i \in DOMAIN runs', NEW k \in DOMAIN runs',
                      NEW j \in DOMAIN runs'[i].rows, NEW l \in DOMAIN runs'[k].rows,
                      StandsAt(runs', i, j, f), StandsAt(runs', k, l, f)
               PROVE  i = k /\ j = l
  BY DEF SingleInv
<1>2. f \in Fills \ forgotten BY ForgottenGrows
<1>3. CASE StandsAt(runs, i, j, f) /\ StandsAt(runs, k, l, f) BY <1>2, <1>3 DEF SingleInv, StandsAt
<1>4. CASE Deliver
  <2>1. (Live /\ batch[1] \in forgotten) \/ ~Stands(runs, batch[1])
    <3>1. Live /\ 1 \in DOMAIN batch BY <1>4, WriteIs
    <3> QED BY <3>1 DEF TakenInv
  <2>2. f = batch[1] => ~StandsAt(runs, i, j, f) /\ ~StandsAt(runs, k, l, f)
    BY <1>2, <2>1 DEF Stands, StandsAt
  <2>3. ~BackfillWrite
    <3>1. batch' # batch
      <4>1. batch \in Seq(Fills) /\ batch # <<>> /\ batch' = Tail(batch) BY <1>4 DEF Deliver, WalletState
      <4>2. Len(batch') = Len(batch) - 1 /\ Len(batch) \in Nat BY <4>1
      <4> QED BY <4>2
    <3> QED BY <3>1 DEF BackfillWrite
  <2>4. /\ StandsAt(runs, i, j, f) \/ (i = poller.run /\ j = Len(runs[i].rows) + 1 /\ f = batch[1])
        /\ StandsAt(runs, k, l, f) \/ (k = poller.run /\ l = Len(runs[k].rows) + 1 /\ f = batch[1])
    BY <1>1, <2>3, StandsMove
  <2> QED BY <1>3, <2>2, <2>4
<1>5. CASE BackfillWrite
  <2>1. ~Deliver
    <3>1. batch \in Seq(Fills) /\ batch' = batch BY <1>5 DEF BackfillWrite, WalletState
    <3>2. ASSUME Deliver PROVE FALSE
      <4>1. batch # <<>> /\ batch' = Tail(batch) BY <3>2 DEF Deliver
      <4>2. Len(batch') = Len(batch) - 1 /\ Len(batch) \in Nat BY <3>1, <4>1
      <4> QED BY <3>1, <4>2
    <3> QED BY <3>2
  <2>2. /\ StandsAt(runs, i, j, f) \/ (i \notin DOMAIN runs /\ f \in plan.fills)
        /\ StandsAt(runs, k, l, f) \/ (k \notin DOMAIN runs /\ f \in plan.fills)
    BY <1>1, <2>1, StandsMove
  <2>3. f \in plan.fills => ~StandsAt(runs, i, j, f) /\ ~StandsAt(runs, k, l, f)
    <3>1. f \in plan.fills => ~Stands(runs, f) BY <1>1, <1>5, UncontestedIs
    <3> QED BY <3>1 DEF Stands, StandsAt
  <2>4. CASE i \notin DOMAIN runs /\ k \notin DOMAIN runs
    <3>1. PICK r \in FlowRun : /\ runs' = Append(runs, r)
                               /\ \A a, b \in DOMAIN r.rows : r.rows[a] = r.rows[b] => a = b
      BY <1>5, BackfillIs
    <3>2. /\ DOMAIN runs = 1..Len(runs) /\ DOMAIN runs' = 1..(Len(runs) + 1) /\ Len(runs) \in Nat
          /\ runs'[Len(runs) + 1] = r
      BY <3>1, RunAdded
    <3>3. i = Len(runs) + 1 /\ k = Len(runs) + 1 BY <2>4, <3>2
    <3>4. r.rows[j] = f /\ r.rows[l] = f /\ j \in DOMAIN r.rows /\ l \in DOMAIN r.rows
      BY <1>1, <3>2, <3>3 DEF StandsAt
    <3> QED BY <3>1, <3>3, <3>4
  <2> QED BY <1>3, <2>2, <2>3, <2>4
<1>6. CASE ~Deliver /\ ~BackfillWrite BY <1>1, <1>3, <1>6, StandsMove
<1> QED BY <1>4, <1>5, <1>6

\* What stands after a step, of the fills that could be known.
LEMMA StandsLater ==
    ASSUME WalletState, TakenInv, FreePlanInv, WalletNext, NEW f \in Fills, f \notin forgotten',
           Stands(runs', f)
    PROVE  \/ Stands(runs, f)
           \/ Deliver /\ 1 \in DOMAIN batch /\ f = batch[1]
           \/ /\ BackfillWrite /\ f \in plan.fills
              /\ Live => Beyond(poller, f) /\ \A k \in DOMAIN batch : batch[k] # f
<1>1. PICK i, j : StandsAt(runs', i, j, f) BY DEF Stands
<1>2. CASE StandsAt(runs, i, j, f) BY <1>2 DEF Stands, StandsAt
<1>3. CASE Deliver /\ 1 \in DOMAIN batch /\ f = batch[1] BY <1>3
<1>4. CASE BackfillWrite /\ f \in plan.fills BY <1>4, UncontestedIs
<1> QED BY <1>1, <1>2, <1>3, <1>4, StandsMove

\* What a batch holds stands nowhere: a poll takes what the poller does not know.
LEMMA TakenKept ==
    ASSUME WalletState, TakenInv, KnownInv, FreePlanInv, WalletNext PROVE TakenInv'
<1> DEFINE Once(b) == \A k, l \in DOMAIN b : b[k] = b[l] => k = l
           Unwritten(b, s, o, rs) == \A k \in DOMAIN b : b[k] \in s /\ (b[k] \in o \/ ~Stands(rs, b[k]))
<1>1. SUFFICES ASSUME Live' PROVE Once(batch') /\ Unwritten(batch', poller'.seen, forgotten', runs')
  BY DEF TakenInv
<1>2. CASE StartSegment
  <2>1. batch' = <<>> BY <1>2, StartIs
  <2> QED BY <2>1
<1>3. ASSUME NEW failed \in SUBSET Fillers, NEW twapFailed \in SUBSET Slicers, Poll(failed, twapFailed)
      PROVE  Once(batch') /\ Unwritten(batch', poller'.seen, forgotten', runs')
  <2>1. /\ Live /\ poller'.seen = poller.seen \cup ToSet(batch') /\ batch' \in Seq(Fills)
        /\ \A k, l \in DOMAIN batch' : batch'[k] = batch'[l] => k = l
        /\ \A f \in ToSet(batch') :
            /\ f \notin poller.seen
            /\ ~IsTwap(f) => At(f) >= RequestStart(poller, Of(f))
            /\ IsTwap(f) => At(f) >= poller.horizon
    BY <1>3, PollTakes
  <2>2. runs' = runs /\ forgotten' = forgotten BY <1>3 DEF Poll
  <2>3. ASSUME NEW k \in DOMAIN batch' PROVE batch'[k] \in forgotten \/ ~Stands(runs, batch'[k])
    <3> DEFINE f == batch'[k]
    <3>1. f \in ToSet(batch') /\ f \in Fills BY <2>1 DEF ToSet
    <3>2. poller \in Memory /\ At(f) \in Nat /\ Of(f) \in Wallets
      BY <2>1, <3>1, FillsAre DEF WalletState, PollerTyped
    <3>3. RequestStart(poller, Of(f)) \in Nat /\ poller.horizon \in Nat BY <3>2, StartOf DEF Memory
    <3>4. f \notin poller.seen BY <2>1, <3>1
    <3>5. (~IsTwap(f) => At(f) >= RequestStart(poller, Of(f))) /\ (IsTwap(f) => At(f) >= poller.horizon)
      BY <2>1, <3>1
    <3> HIDE DEF f
    <3>6. ~Beyond(poller, f) BY <3>2, <3>3, <3>5 DEF Beyond
    <3>7. f \in forgotten \/ ~Stands(runs, f) BY <2>1, <3>1, <3>4, <3>6 DEF KnownInv
    <3> QED BY <3>7 DEF f
  <2>4. \A k \in DOMAIN batch' : batch'[k] \in poller'.seen BY <2>1 DEF ToSet
  <2> QED BY <2>1, <2>2, <2>3, <2>4
<1>4. CASE Deliver
  <2>1. /\ Live /\ 1 \in DOMAIN batch /\ batch' \in Seq(Fills)
        /\ \A k \in DOMAIN batch' : k + 1 \in DOMAIN batch /\ batch'[k] = batch[k + 1]
    BY <1>4, WriteIs
  <2>2. poller' = poller /\ forgotten' = forgotten BY <1>4 DEF Deliver
  <2>3. /\ \A k, l \in DOMAIN batch : batch[k] = batch[l] => k = l
        /\ \A k \in DOMAIN batch : batch[k] \in poller.seen /\ (batch[k] \in forgotten \/ ~Stands(runs, batch[k]))
    BY <2>1 DEF TakenInv
  <2>4. \A k \in DOMAIN batch' : k \in Nat \ {0} /\ batch'[k] \in Fills BY <2>1
  <2>5. Once(batch')
    <3>1. ASSUME NEW k \in DOMAIN batch', NEW l \in DOMAIN batch', batch'[k] = batch'[l] PROVE k = l
      <4>1. k + 1 = l + 1 BY <2>1, <2>3, <3>1
      <4> QED BY <2>4, <4>1
    <3> QED BY <3>1
  <2>6. ASSUME NEW k \in DOMAIN batch', batch'[k] \notin forgotten, Stands(runs', batch'[k]) PROVE FALSE
    <3>1. k + 1 \in DOMAIN batch /\ batch'[k] = batch[k + 1] /\ k + 1 # 1 BY <2>1, <2>4
    <3>2. batch'[k] # batch[1] BY <2>1, <2>3, <3>1
    <3>3. ~Stands(runs, batch'[k]) BY <2>3, <2>6, <3>1
    <3>4. BackfillWrite BY <2>2, <2>4, <2>6, <3>2, <3>3, StandsLater
    <3>5. batch' = batch BY <3>4 DEF BackfillWrite
    <3> QED BY <2>1, <2>3, <2>4, <3>1, <3>5
  <2>7. \A k \in DOMAIN batch' : batch'[k] \in poller'.seen BY <2>1, <2>2, <2>3
  <2> QED BY <2>2, <2>5, <2>6, <2>7
<1>5. CASE ~Deliver /\ Live /\ batch' = batch /\ poller' = poller
  <2>1. ASSUME NEW k \in DOMAIN batch, batch[k] \notin forgotten', Stands(runs', batch[k]) PROVE FALSE
    <3>1. batch[k] \in Fills BY DEF WalletState
    <3>2. batch[k] \notin forgotten BY <2>1, ForgottenGrows
    <3>3. ~Stands(runs, batch[k]) BY <1>5, <3>2 DEF TakenInv
    <3> QED BY <1>5, <2>1, <3>1, <3>3, StandsLater
  <2> QED BY <1>5, <2>1 DEF TakenInv
<1> HIDE DEF Once, Unwritten
<1> QED BY <1>1, <1>2, <1>3, <1>4, <1>5, LiveCases

\* What a new poller does not see it does not take: a fill of a run that was offloaded is
\* older than the oldest run it sees and a segment.
LEMMA StartKnows ==
    ASSUME WalletState, BornInv, TwapMargin > MaxSegment, StartSegment,
           NEW f \in Fills, f \notin forgotten', Stands(runs, f)
    PROVE  f \in poller'.seen \/ Beyond(poller', f)
<1>1. PICK i, j : StandsAt(runs, i, j, f) BY DEF Stands
<1>2. /\ i \in DOMAIN runs /\ j \in DOMAIN runs[i].rows /\ runs[i].rows[j] = f
      /\ runs[i].place # "quarantined"
  BY <1>1 DEF StandsAt
<1>3. HotRuns \in SUBSET DOMAIN runs /\ InPlaces({"cold"}) \in SUBSET DOMAIN runs BY DEF HotRuns, InPlaces
<1>4. poller'.seen = RowsIn(HotRuns) /\ f \notin OutOfSight BY StartIs DEF StartSegment
<1>5. SUFFICES ASSUME f \notin RowsIn(HotRuns) PROVE Beyond(poller', f) BY <1>4
<1>6. i \in InPlaces({"cold"})
  <2>1. i \notin HotRuns BY <1>2, <1>3, <1>5, RecordedIs
  <2>2. runs[i].place \in {"raw", "promoted", "quarantined", "cold"} BY <1>2, RunTyped DEF WalletState, FlowRun
  <2> QED BY <1>2, <2>1, <2>2 DEF HotRuns, InPlaces
<1>7. f \in ColdOnly BY <1>2, <1>3, <1>5, <1>6, RecordedIs DEF ColdOnly
<1>8. /\ poller' \in Memory /\ Of(f) \in Wallets /\ At(f) \in Nat /\ fill' = fill
  BY StartIs, StepCases, FillsAre DEF WalletState, WalletNext
<1>9. CASE ~IsTwap(f)
  <2>1. ~(At(f) >= AfterOverlap(DurableHighwater(Of(f)))) BY <1>4, <1>7, <1>9 DEF OutOfSight
  <2>2. RequestStart(poller', Of(f)) = AfterOverlap(DurableHighwater(Of(f))) BY <1>8, StartIs
  <2>3. RequestStart(poller', Of(f)) \in Nat BY <1>8, StartOf
  <2>4. At(f) < RequestStart(poller', Of(f)) BY <1>8, <2>1, <2>2, <2>3
  <2> QED BY <1>9, <2>4 DEF Beyond
<1>10. CASE IsTwap(f)
  <2>1. ASSUME NEW k \in HotRuns, runs[k].born <= runs[i].born, k < i PROVE FALSE
    <3>1. f \in ToSet(runs[i].rows) BY <1>2 DEF ToSet
    <3> QED BY <1>4, <1>6, <1>7, <1>10, <2>1, <3>1 DEF OutOfSight
  <2>2. \A k \in DOMAIN runs : runs[k].born \in Nat /\ k \in Nat
    BY RunTyped DEF WalletState, RunsTyped, FlowRun
  <2>3. clock \in Nat /\ runs[i].born <= clock BY <1>2 DEF WalletState, RunsTyped
  <2>4. ASSUME NEW k \in HotRuns PROVE runs[i].born <= runs[k].born
    <3>1. k \in DOMAIN runs /\ k # i BY <1>3, <1>6, <2>1 DEF InPlaces, HotRuns
    <3>2. k < i \/ i < k BY <1>2, <2>2, <3>1
    <3> QED BY <1>2, <2>1, <2>4, <3>1, <3>2 DEF BornInv
  <2> DEFINE S == {clock} \cup {runs[k].born : k \in HotRuns}
             b == runs[i].born
  <2>5. S \in SUBSET Nat /\ S # {} /\ \A x \in S : b <= x BY <1>3, <2>2, <2>3, <2>4
  <2>6. poller'.horizon = Min(S) + TwapMargin BY StartIs DEF Horizon
  <2>7. At(f) <= b + MaxSegment /\ b \in Nat
    <3>1. Segments < MaxSegments BY DEF StartSegment
    <3> QED BY <1>2, <2>2, <3>1 DEF BornInv
  <2> HIDE DEF S, b
  <2>8. Min(S) \in S BY <2>5, MinOfIds
  <2>9. Min(S) \in Nat /\ b <= Min(S) BY <2>5, <2>8
  <2>10. TwapMargin \in Nat /\ MaxSegment \in Nat BY WalletFlowAssumption
  <2>11. At(f) < poller'.horizon BY <1>8, <2>6, <2>7, <2>9, <2>10
  <2> QED BY <1>10, <2>11 DEF Beyond
<1> QED BY <1>9, <1>10

\* What stands was seen or is not taken: a poller sees what it takes, and its requests
\* only rise.
LEMMA KnownKept ==
    ASSUME WalletState, TakenInv, KnownInv, BornInv, FreePlanInv, TwapMargin > MaxSegment, WalletNext
    PROVE  KnownInv'
<1>0. fill' = fill BY StepCases
<1>1. SUFFICES ASSUME Live', NEW f \in Fills \ forgotten', Stands(runs', f)
               PROVE  f \in poller'.seen \/ Beyond(poller', f)
  BY <1>0 DEF KnownInv, Beyond
<1>2. f \in Fills /\ f \notin forgotten BY ForgottenGrows
<1>3. CASE StartSegment
  <2>1. ~Live /\ batch' = <<>> /\ poller' # poller
    <3>1. ~Live /\ batch' = <<>> BY <1>3, StartIs
    <3> QED BY <1>1, <3>1 DEF Live
  <2>2. Stands(runs, f)
    <3>1. ~BackfillWrite BY <2>1 DEF BackfillWrite
    <3>2. ~Deliver BY <2>1, WriteIs
    <3> QED BY <1>1, <1>2, <3>1, <3>2, StandsLater
  <2> QED BY <1>2, <1>3, <2>2, StartKnows
<1>4. ASSUME NEW failed \in SUBSET Fillers, NEW twapFailed \in SUBSET Slicers, Poll(failed, twapFailed)
      PROVE  f \in poller'.seen \/ Beyond(poller', f)
  <2>1. /\ Live /\ poller' \in Memory /\ poller'.seen = poller.seen \cup ToSet(batch')
        /\ poller'.horizon = poller.horizon
        /\ \A w \in Wallets : RequestStart(poller, w) <= RequestStart(poller', w)
    BY <1>4, PollTakes
  <2>2. runs' = runs BY <1>4 DEF Poll
  <2>3. f \in poller.seen \/ Beyond(poller, f) BY <1>1, <1>2, <2>1, <2>2 DEF KnownInv
  <2>4. poller \in Memory /\ Of(f) \in Wallets /\ At(f) \in Nat
    BY <1>2, <2>1, FillsAre DEF WalletState, PollerTyped
  <2>5. RequestStart(poller, Of(f)) \in Nat /\ RequestStart(poller', Of(f)) \in Nat BY <2>1, <2>4, StartOf
  <2>6. Beyond(poller, f) => Beyond(poller', f) BY <2>1, <2>4, <2>5 DEF Beyond
  <2> QED BY <2>1, <2>3, <2>6
<1>5. CASE Live /\ poller' = poller
  <2>1. Stands(runs, f) => f \in poller.seen \/ Beyond(poller, f) BY <1>2, <1>5 DEF KnownInv
  <2>2. 1 \in DOMAIN batch => batch[1] \in poller.seen BY <1>5 DEF TakenInv
  <2>3. f \in poller.seen \/ Beyond(poller, f) BY <1>1, <1>2, <1>5, <2>1, <2>2, StandsLater
  <2> QED BY <1>5, <2>3
<1> QED BY <1>1, <1>3, <1>4, <1>5, LiveCases

\* A run that a step adds is born now.
LEMMA NewRunIs ==
    ASSUME WalletState, WalletNext, NEW i \in DOMAIN runs', i \notin DOMAIN runs
    PROVE  /\ i = Len(runs) + 1 /\ runs'[i].born = clock /\ clock' = clock
           /\ StartSegment \/ BackfillWrite
<1>1. CASE StartSegment \/ BackfillWrite
  <2>1. PICK r \in FlowRun : runs' = Append(runs, r) /\ r.born = clock BY <1>1, StartIs, BackfillIs
  <2>2. /\ DOMAIN runs = 1..Len(runs) /\ Len(runs) \in Nat /\ DOMAIN runs' = 1..(Len(runs) + 1)
        /\ runs'[Len(runs) + 1] = r
    BY <2>1, RunAdded
  <2>3. i = Len(runs) + 1 BY <2>2
  <2>4. clock' = clock BY <1>1 DEF StartSegment, BackfillWrite
  <2> QED BY <1>1, <2>1, <2>2, <2>3, <2>4
<1>2. (\E failed \in SUBSET Fillers, twapFailed \in SUBSET Slicers : Poll(failed, twapFailed)) => runs' = runs
  BY DEF Poll
<1>3. (\E k \in DOMAIN runs : Promote(k) \/ Quarantine(k) \/ Offload(k)) => DOMAIN runs' = DOMAIN runs
  BY MoveIs DEF OnlyRun
<1>4. (\E w \in Wallets : BackfillScan(w)) => runs' = runs BY DEF BackfillScan
<1>5. (\E f \in Fills : Publish(f)) => runs' = runs BY DEF Publish
<1>6. ClockTick => runs' = runs BY DEF ClockTick
<1>7. Deliver \/ EndSegment \/ KillPoller => DOMAIN runs' = DOMAIN runs BY WriteIs, StopIs DEF OnlyRun
<1> QED BY <1>1, <1>2, <1>3, <1>4, <1>5, <1>6, <1>7, StepCases

\* The runs are born in their order, and no segment outlives its deadline.
LEMMA BornKept == ASSUME WalletState, BornInv, WalletNext PROVE BornInv'
<1>0. fill' = fill BY StepCases
<1>1. /\ DOMAIN runs = 1..Len(runs) /\ DOMAIN runs' = 1..Len(runs') /\ Len(runs) \in Nat /\ Len(runs') \in Nat
      /\ \A i \in DOMAIN runs' : runs'[i] \in FlowRun /\ runs'[i].born \in Nat
      /\ \A i \in DOMAIN runs : /\ i \in DOMAIN runs' /\ runs'[i].born = runs[i].born
                                /\ runs[i].born \in Nat /\ runs[i].born <= clock
  <2>1. runs \in Seq(FlowRun) /\ runs' \in Seq(FlowRun) BY RowsMove DEF WalletState, RunsTyped
  <2>2. \A i \in DOMAIN runs' : runs'[i] \in FlowRun BY <2>1
  <2>3. \A i \in DOMAIN runs' : runs'[i].born \in Nat BY <2>2 DEF FlowRun
  <2>4. \A i \in DOMAIN runs : runs[i].born \in Nat /\ runs[i].born <= clock BY DEF WalletState, RunsTyped
  <2>5. \A i \in DOMAIN runs : i \in DOMAIN runs' /\ runs'[i].born = runs[i].born BY PlacesMove
  <2>6. DOMAIN runs = 1..Len(runs) /\ DOMAIN runs' = 1..Len(runs') /\ Len(runs) \in Nat /\ Len(runs') \in Nat
    BY <2>1
  <2> QED BY <2>2, <2>3, <2>4, <2>5, <2>6
<1>2. ASSUME NEW i \in DOMAIN runs', NEW k \in DOMAIN runs', i < k PROVE runs'[i].born <= runs'[k].born
  <2>1. CASE k \in DOMAIN runs
    <3>1. i \in DOMAIN runs BY <1>1, <1>2, <2>1
    <3> QED BY <1>1, <1>2, <2>1, <3>1 DEF BornInv
  <2>2. CASE k \notin DOMAIN runs
    <3>1. k = Len(runs) + 1 /\ runs'[k].born = clock BY <2>2, NewRunIs
    <3>2. i \in DOMAIN runs BY <1>1, <1>2, <3>1
    <3> QED BY <1>1, <3>1, <3>2
  <2> QED BY <2>1, <2>2
<1>3. ASSUME Live' PROVE /\ poller'.born = runs'[poller'.run].born /\ poller'.run \in DOMAIN runs'
                         /\ StartSegment \/ (Live /\ poller'.run = poller.run /\ poller.run \in DOMAIN runs)
  <2>1. CASE StartSegment
    <3>1. PICK r \in FlowRun : runs' = Append(runs, r) /\ r.born = clock BY <2>1, StartIs
    <3>2. runs'[Len(runs) + 1] = r /\ Len(runs) + 1 \in DOMAIN runs' BY <3>1, RunAdded
    <3>3. poller'.run = Len(runs) + 1 /\ poller'.born = clock BY <2>1, StartIs
    <3> QED BY <2>1, <3>1, <3>2, <3>3
  <2>2. CASE Live /\ poller'.run = poller.run /\ poller'.born = poller.born
    <3>1. poller.run \in DOMAIN runs /\ poller.born = runs[poller.run].born
      BY <2>2 DEF WalletState, PollerTyped, BornInv
    <3> QED BY <1>1, <2>2, <3>1
  <2>3. ASSUME NEW failed \in SUBSET Fillers, NEW twapFailed \in SUBSET Slicers, Poll(failed, twapFailed)
        PROVE  Live /\ poller'.run = poller.run /\ poller'.born = poller.born
    BY <2>3, PollTakes
  <2> QED BY <1>3, <2>1, <2>2, <2>3, LiveCases
<1>4. ASSUME Segments' < MaxSegments
      PROVE  /\ Live' => clock' <= runs'[poller'.run].born + MaxSegment
             /\ \A i \in DOMAIN runs' : \A j \in DOMAIN runs'[i].rows :
                    At(runs'[i].rows[j]) <= runs'[i].born + MaxSegment
  <2>0. MaxSegments \in Nat /\ MaxSegment \in Nat BY WalletFlowAssumption
  <2>1. Segments < MaxSegments BY <1>4, <2>0, SegmentsGrow
  <2>2. /\ Live => clock <= runs[poller.run].born + MaxSegment
        /\ \A i \in DOMAIN runs : \A j \in DOMAIN runs[i].rows :
                At(runs[i].rows[j]) <= runs[i].born + MaxSegment
    BY <2>1 DEF BornInv
  <2>3. clock \in Nat BY TimesMove
  <2>4. ASSUME Live' PROVE clock' <= runs'[poller'.run].born + MaxSegment
    <3>1. CASE StartSegment
      <4>1. clock' = clock BY <3>1 DEF StartSegment
      <4>2. poller'.born = clock BY <3>1, StartIs
      <4> QED BY <1>3, <2>0, <2>3, <2>4, <4>1, <4>2
    <3>2. CASE ClockTick /\ ~StartSegment
      <4>1. clock < poller.born + MaxSegment /\ clock' = clock + 1 /\ poller' = poller /\ Live
        BY <1>3, <2>1, <2>4, <3>2 DEF ClockTick
      <4>2. poller'.born \in Nat BY <1>1, <1>3, <2>4
      <4> QED BY <1>3, <2>0, <2>3, <2>4, <4>1, <4>2
    <3>3. CASE ~ClockTick /\ ~StartSegment
      <4>1. clock' = clock
        <5>1. (\E f \in Fills : Publish(f)) => clock' = clock BY DEF Publish
        <5> QED BY <3>3, <5>1, StepCases DEF Rest
      <4>2. Live /\ poller'.run = poller.run /\ poller.run \in DOMAIN runs BY <1>3, <2>4, <3>3
      <4> QED BY <1>1, <2>2, <4>1, <4>2
    <3> QED BY <3>1, <3>2, <3>3
  <2>5. ASSUME NEW i \in DOMAIN runs', NEW j \in DOMAIN runs'[i].rows
        PROVE  At(runs'[i].rows[j]) <= runs'[i].born + MaxSegment
    <3>1. CASE i \in DOMAIN runs /\ j \in DOMAIN runs[i].rows /\ runs'[i].rows[j] = runs[i].rows[j]
      BY <1>1, <2>2, <3>1
    <3>2. CASE Deliver /\ i = poller.run /\ i \in DOMAIN runs /\ 1 \in DOMAIN batch /\ runs'[i].rows[j] = batch[1]
      <4>1. Live BY <3>2, WriteIs
      <4>2. batch[1] \in Heard BY <3>2 DEF WalletState
      <4>3. At(batch[1]) <= clock /\ batch[1] \in Fills BY <4>2, HeardIs DEF WalletState
      <4>4. At(batch[1]) \in Nat BY <4>3, FillsAre DEF WalletState
      <4>5. clock <= runs[i].born + MaxSegment /\ runs[i].born \in Nat BY <1>1, <2>2, <3>2, <4>1
      <4>6. At(batch[1]) <= runs[i].born + MaxSegment BY <2>0, <2>3, <4>3, <4>4, <4>5
      <4> QED BY <1>1, <3>2, <4>6
    <3>3. CASE BackfillWrite /\ i \notin DOMAIN runs /\ runs'[i].rows[j] \in plan.fills
      <4>1. runs'[i].born = clock BY <3>3, NewRunIs
      <4> DEFINE f == runs'[i].rows[j]
      <4>2. f \in Fills /\ At(f) <= clock BY <3>3 DEF WalletState
      <4>3. At(f) \in Nat BY <4>2, FillsAre DEF WalletState
      <4> HIDE DEF f
      <4>4. At(f) <= clock + MaxSegment BY <2>0, <2>3, <4>2, <4>3
      <4> QED BY <4>1, <4>4 DEF f
    <3> QED BY <3>1, <3>2, <3>3, RowsMove DEF RowsFromBefore
  <2> QED BY <2>4, <2>5
<1> QED BY <1>0, <1>2, <1>3, <1>4 DEF BornInv

\* What a poller has marked, its next requests are not far above.
LEMMA PollCovers ==
    ASSUME WalletState, AheadInv, NEW failed \in SUBSET Fillers, NEW twapFailed \in SUBSET Slicers,
           Poll(failed, twapFailed), NEW g \in Fills, At(g) <= poller.high[Of(g)]
    PROVE  Covered(poller', batch', g)
<1> DEFINE w == Of(g)
           h == poller.high[w]
<1>1. /\ Live /\ poller \in Memory /\ poller' \in Memory /\ batch' \in Seq(Fills)
      /\ poller.high[w] <= poller'.high[w] /\ w \in Wallets /\ At(g) \in Nat
      /\ \A f \in ToSet(batch') : ~IsTwap(f) => At(f) >= RequestStart(poller, Of(f))
  BY PollTakes, FillsAre DEF WalletState, PollerTyped
<1>2. h \in Nat /\ poller'.high[w] \in Nat BY <1>1 DEF Memory
<1>3. RequestStart(poller, w) \in Nat /\ AfterOverlap(h) <= RequestStart(poller, w) /\ AfterOverlap(h) \in Nat
  BY <1>1, StartOf DEF AheadInv
<1>4. AfterOverlap(h) >= h - Overlap /\ Overlap \in Nat
  <2>1. Overlap \in Nat BY WalletFlowAssumption
  <2>2. AfterOverlap(h) = IF h = 0 \/ h - Overlap < 1 THEN 1 ELSE h - Overlap BY <1>2, OverlapIs
  <2> HIDE DEF h
  <2> QED BY <1>2, <2>1, <2>2
<1>5. At(g) <= h /\ h <= poller'.high[w] BY <1>1
<1>6. ASSUME NEW k \in DOMAIN batch', ~IsTwap(batch'[k]), Of(batch'[k]) = w PROVE At(g) <= At(batch'[k]) + Overlap
  <2> DEFINE f == batch'[k]
  <2>1. f \in Fills /\ f \in ToSet(batch') BY <1>1 DEF ToSet
  <2>2. At(f) >= RequestStart(poller, w) BY <1>1, <1>6, <2>1
  <2>3. At(f) \in Nat BY <2>1, FillsAre DEF WalletState
  <2> HIDE DEF f, h, w
  <2>4. At(g) <= At(f) + Overlap BY <1>1, <1>2, <1>3, <1>4, <1>5, <2>2, <2>3
  <2> QED BY <2>4 DEF f
<1>7. At(g) <= poller'.high[w]
  <2> HIDE DEF h, w
  <2> QED BY <1>1, <1>2, <1>5
<1> QED BY <1>6, <1>7 DEF Covered

\* What moves the durable mark is covered, by a poller that began beside no backfill.
LEMMA AheadKept == ASSUME WalletState, BatchSorted, AheadInv, FreePlanInv, WalletNext PROVE AheadInv'
<1> DEFINE Near(p) == \A w \in Wallets : AfterOverlap(p.high[w]) <= RequestStart(p, w)
           Below(p, b) == \A k \in DOMAIN b : ~IsTwap(b[k]) => At(b[k]) <= p.high[Of(b[k])]
           Marks(i, j) == i \in HotRuns' /\ j \in DOMAIN runs'[i].rows
                          /\ (runs'[i].node \/ ~IsTwap(runs'[i].rows[j]))
<1>0. fill' = fill BY StepCases
<1>1. SUFFICES ASSUME Live'
               PROVE  /\ Near(poller') /\ Below(poller', batch')
                      /\ ~poller'.beside =>
                            \A i, j : Marks(i, j) => Covered(poller', batch', runs'[i].rows[j])
  BY <1>0 DEF AheadInv, Covered, MovesHighwater
<1> HIDE DEF Near, Below, Marks
<1>2. ASSUME NEW i, NEW j, Marks(i, j), i \in DOMAIN runs, j \in DOMAIN runs[i].rows,
             runs'[i].rows[j] = runs[i].rows[j]
      PROVE  /\ i \in HotRuns /\ MovesHighwater(runs[i], runs[i].rows[j])
             /\ runs[i].rows[j] \in Fills /\ Of(runs[i].rows[j]) \in Wallets
             /\ Live /\ ~poller.beside => Covered(poller, batch, runs[i].rows[j])
  <2>1. i \in HotRuns /\ MovesHighwater(runs[i], runs[i].rows[j])
    BY <1>2, PlacesMove DEF Marks, MovesHighwater
  <2>2. runs[i].rows[j] \in Fills BY <1>2, RunTyped DEF WalletState
  <2>3. Of(runs[i].rows[j]) \in Wallets BY <2>2, FillsAre DEF WalletState
  <2>4. Live /\ ~poller.beside => Covered(poller, batch, runs[i].rows[j]) BY <1>2, <2>1 DEF AheadInv
  <2> QED BY <2>1, <2>2, <2>3, <2>4
<1>3. ASSUME NEW i, NEW j, Marks(i, j)
      PROVE  /\ i \in DOMAIN runs' /\ j \in DOMAIN runs'[i].rows
             /\ \/ i \in DOMAIN runs /\ j \in DOMAIN runs[i].rows /\ runs'[i].rows[j] = runs[i].rows[j]
                \/ Deliver /\ 1 \in DOMAIN batch /\ runs'[i].rows[j] = batch[1] /\ ~IsTwap(batch[1])
                \/ BackfillWrite /\ runs'[i].rows[j] \in plan.fills
  <2>1. i \in DOMAIN runs' /\ j \in DOMAIN runs'[i].rows BY <1>3 DEF Marks, HotRuns, InPlaces
  <2>2. ~runs'[i].node => ~IsTwap(runs'[i].rows[j]) BY <1>3 DEF Marks
  <2> QED BY <2>1, <2>2, RowsMove DEF RowsFromBefore
<1>4. CASE StartSegment
  <2>1. /\ batch' = <<>> /\ poller' \in Memory
        /\ \A w \in Wallets : poller'.high[w] = DurableHighwater(w)
                              /\ RequestStart(poller', w) = AfterOverlap(DurableHighwater(w))
    BY <1>4, StartIs
  <2>2. Below(poller', batch') BY <2>1 DEF Below
  <2>3. Near(poller')
    <3>1. \A w \in Wallets : RequestStart(poller', w) \in Nat /\ AfterOverlap(poller'.high[w]) = RequestStart(poller', w)
      BY <2>1, StartOf
    <3> QED BY <3>1 DEF Near
  <2>4. ASSUME NEW i, NEW j, Marks(i, j) PROVE Covered(poller', batch', runs'[i].rows[j])
    <3>1. ~Live BY <1>4, StartIs
    <3>2. ~Deliver BY <3>1, WriteIs
    <3>3. ~BackfillWrite
      <4>1. BackfillWrite => poller' = poller BY DEF BackfillWrite
      <4> QED BY <1>1, <3>1, <4>1 DEF Live
    <3>4. i \in DOMAIN runs /\ j \in DOMAIN runs[i].rows /\ runs'[i].rows[j] = runs[i].rows[j]
      BY <1>3, <2>4, <3>2, <3>3
    <3>5. /\ i \in HotRuns /\ MovesHighwater(runs[i], runs[i].rows[j])
          /\ Of(runs[i].rows[j]) \in Wallets
      BY <1>2, <2>4, <3>4
    <3>6. At(runs[i].rows[j]) <= DurableHighwater(Of(runs[i].rows[j])) BY <3>4, <3>5, HighwaterIs
    <3> QED BY <2>1, <3>4, <3>5, <3>6 DEF Covered
  <2> QED BY <2>2, <2>3, <2>4
<1>5. ASSUME NEW failed \in SUBSET Fillers, NEW twapFailed \in SUBSET Slicers, Poll(failed, twapFailed)
      PROVE  /\ Near(poller') /\ Below(poller', batch')
             /\ ~poller'.beside => \A i, j : Marks(i, j) => Covered(poller', batch', runs'[i].rows[j])
  <2>1. /\ Live /\ poller'.beside = poller.beside /\ batch' \in Seq(Fills)
        /\ \A f \in ToSet(batch') : ~IsTwap(f) => At(f) <= poller'.high[Of(f)]
        /\ \A w \in Wallets : AfterOverlap(poller.high[w]) <= RequestStart(poller, w)
                                => AfterOverlap(poller'.high[w]) <= RequestStart(poller', w)
    BY <1>5, PollTakes
  <2>2. Near(poller') BY <2>1 DEF Near, AheadInv
  <2>3. Below(poller', batch') BY <2>1 DEF Below, ToSet
  <2>4. runs' = runs BY <1>5 DEF Poll
  <2>5. ASSUME NEW i, NEW j, Marks(i, j), ~poller'.beside PROVE Covered(poller', batch', runs'[i].rows[j])
    <3>1. i \in DOMAIN runs /\ j \in DOMAIN runs[i].rows /\ runs'[i].rows[j] = runs[i].rows[j]
      BY <1>3, <2>4, <2>5
    <3>2. runs[i].rows[j] \in Fills /\ Covered(poller, batch, runs[i].rows[j])
      BY <1>2, <2>1, <2>5, <3>1
    <3>3. At(runs[i].rows[j]) <= poller.high[Of(runs[i].rows[j])] BY <3>2 DEF Covered
    <3> QED BY <1>5, <3>1, <3>2, <3>3, PollCovers
  <2> QED BY <2>2, <2>3, <2>5
<1>6. CASE Deliver
  <2>1. /\ Live /\ 1 \in DOMAIN batch /\ batch' \in Seq(Fills)
        /\ \A k \in DOMAIN batch' : k + 1 \in DOMAIN batch /\ batch'[k] = batch[k + 1]
    BY <1>6, WriteIs
  <2>2. poller' = poller /\ batch \in Seq(Fills) BY <1>6 DEF Deliver, WalletState
  <2>3. Near(poller') BY <2>1, <2>2 DEF Near, AheadInv
  <2>4. Below(poller', batch') BY <2>1, <2>2 DEF Below, AheadInv
  <2>5. ASSUME NEW i, NEW j, Marks(i, j), ~poller'.beside PROVE Covered(poller', batch', runs'[i].rows[j])
    <3>1. CASE i \in DOMAIN runs /\ j \in DOMAIN runs[i].rows /\ runs'[i].rows[j] = runs[i].rows[j]
      <4>1. Covered(poller, batch, runs[i].rows[j]) BY <1>2, <2>1, <2>2, <2>5, <3>1
      <4> QED BY <2>1, <2>2, <3>1, <4>1 DEF Covered
    <3>2. CASE runs'[i].rows[j] = batch[1] /\ ~IsTwap(batch[1])
      <4>1. At(batch[1]) <= poller.high[Of(batch[1])] BY <2>1, <3>2 DEF AheadInv
      <4>2. ASSUME NEW k \in DOMAIN batch' PROVE At(batch[1]) <= At(batch'[k]) + Overlap
        <5>1. k \in Nat \ {0} /\ batch[1] \in Fills /\ batch'[k] \in Fills BY <2>1, <2>2
        <5>2. 1 < k + 1 BY <5>1
        <5>3. At(batch[1]) <= At(batch[k + 1]) BY <2>1, <5>2 DEF BatchSorted
        <5>4. At(batch[1]) <= At(batch'[k]) BY <2>1, <5>3
        <5>5. At(batch[1]) \in Nat /\ At(batch'[k]) \in Nat /\ Overlap \in Nat
          BY <5>1, FillsAre, WalletFlowAssumption DEF WalletState
        <5> QED BY <5>4, <5>5
      <4> QED BY <2>2, <3>2, <4>1, <4>2 DEF Covered
    <3>3. ~BackfillWrite
      <4>1. batch # <<>> /\ batch' = Tail(batch) BY <1>6 DEF Deliver
      <4>2. Len(batch') = Len(batch) - 1 /\ Len(batch) \in Nat BY <2>2, <4>1
      <4>3. batch' # batch BY <4>2
      <4> QED BY <4>3 DEF BackfillWrite
    <3> QED BY <1>3, <2>5, <3>1, <3>2, <3>3
  <2> QED BY <2>3, <2>4, <2>5
<1>7. CASE ~Deliver /\ Live /\ batch' = batch /\ poller' = poller
  <2>1. Near(poller') BY <1>7 DEF Near, AheadInv
  <2>2. Below(poller', batch') BY <1>7 DEF Below, AheadInv
  <2>3. ASSUME NEW i, NEW j, Marks(i, j), ~poller'.beside PROVE Covered(poller', batch', runs'[i].rows[j])
    <3>1. CASE i \in DOMAIN runs /\ j \in DOMAIN runs[i].rows /\ runs'[i].rows[j] = runs[i].rows[j]
      BY <1>2, <1>7, <2>3, <3>1
    <3>2. CASE BackfillWrite /\ runs'[i].rows[j] \in plan.fills
      <4>1. plan # NoPlan BY <3>2 DEF BackfillWrite
      <4>2. Covered(poller, batch, runs'[i].rows[j]) BY <1>7, <2>3, <3>2, <4>1 DEF FreePlanInv
      <4> QED BY <1>7, <4>2
    <3> QED BY <1>3, <1>7, <2>3, <3>1, <3>2
  <2> QED BY <2>1, <2>2, <2>3
<1> QED BY <1>1, <1>4, <1>5, <1>6, <1>7, LiveCases

\* A scan plans fills that are new, that end below what the poller reads again, and whose
\* copies the running poller covers, unless it began beside a backfill.
LEMMA ScanIs ==
    ASSUME WalletState, AheadInv, PollerMargin > 0, NEW w \in Wallets, BackfillScan(w)
    PROVE  /\ plan'.runs = RunsBefore
           /\ \A f \in plan'.fills :
                /\ f \in Fills /\ Of(f) = w /\ ~Stands(runs, f)
                /\ Live /\ ~poller.beside =>
                    /\ Covered(poller, batch, f) /\ At(f) < RequestStart(poller, w)
                    /\ ~IsTwap(f) => \A k \in DOMAIN batch : batch[k] # f
<1>1. /\ plan' = [fills |-> {f \in Missing(w) : At(f) <= SafeEnd(w)}, runs |-> RunsBefore]
      /\ DurableHighwater(w) # 0
  BY DEF BackfillScan
<1>2. SUFFICES ASSUME NEW f \in plan'.fills
               PROVE  /\ f \in Fills /\ Of(f) = w /\ ~Stands(runs, f)
                      /\ Live /\ ~poller.beside =>
                          /\ Covered(poller, batch, f) /\ At(f) < RequestStart(poller, w)
                          /\ ~IsTwap(f) => \A k \in DOMAIN batch : batch[k] # f
  BY <1>1
<1>3. f \in Missing(w) /\ At(f) <= SafeEnd(w) BY <1>1
<1>4. f \in Fills /\ Of(f) = w /\ f \notin Durable BY <1>3 DEF Missing, Archive
<1>5. ~Stands(runs, f) BY <1>4, StandsIsDurable
<1>6. ASSUME Live, ~poller.beside
      PROVE  /\ Covered(poller, batch, f) /\ At(f) < RequestStart(poller, w)
             /\ ~IsTwap(f) => \A k \in DOMAIN batch : batch[k] # f
  <2> DEFINE d == DurableHighwater(w)
             h == poller.high[w]
             s == RequestStart(poller, w)
             a == AfterOverlap(h)
             t == At(f)
  <2>1. PICK i \in HotRuns : \E j \in DOMAIN runs[i].rows :
            /\ MovesHighwater(runs[i], runs[i].rows[j]) /\ Of(runs[i].rows[j]) = w
            /\ At(runs[i].rows[j]) = d
    BY <1>1, HighwaterIs
  <2>2. PICK j \in DOMAIN runs[i].rows :
            /\ MovesHighwater(runs[i], runs[i].rows[j]) /\ Of(runs[i].rows[j]) = w
            /\ At(runs[i].rows[j]) = d
    BY <2>1
  <2>3. Covered(poller, batch, runs[i].rows[j]) BY <1>6, <2>2 DEF AheadInv
  <2>4. /\ d <= h
        /\ \A k \in DOMAIN batch : ~IsTwap(batch[k]) /\ Of(batch[k]) = w => d <= At(batch[k]) + Overlap
    BY <2>2, <2>3 DEF Covered
  <2>5. d \in Nat /\ h \in Nat /\ s \in Nat /\ a \in Nat /\ t \in Nat /\ a <= s /\ clock \in Nat
    <3>1. poller \in Memory /\ clock \in Nat /\ d \in 0..clock BY <1>6, HighwaterIs DEF WalletState, PollerTyped
    <3>2. h \in Nat /\ s \in Nat /\ a \in Nat BY <3>1, StartOf DEF Memory
    <3>3. t \in Nat BY <1>4, FillsAre DEF WalletState
    <3>4. a <= s BY <1>6 DEF AheadInv
    <3> HIDE DEF d, h, s, a, t
    <3> QED BY <3>1, <3>2, <3>3, <3>4
  <2>6. a = IF h = 0 \/ h - Overlap < 1 THEN 1 ELSE h - Overlap BY <2>5, OverlapIs
  <2>7. t <= d - Overlap - PollerMargin BY <1>3 DEF SafeEnd
  <2>8. \A k \in DOMAIN batch : At(batch[k]) \in Nat
    <3>1. \A k \in DOMAIN batch : batch[k] \in Fills BY DEF WalletState
    <3> QED BY <3>1, FillsAre DEF WalletState
  <2>9. Overlap \in Nat /\ PollerMargin \in Nat BY WalletFlowAssumption
  <2> HIDE DEF d, h, s, a, t
  <2>10. t < d - Overlap BY <2>5, <2>7, <2>9
  <2>11. t <= h /\ t < s BY <2>4, <2>5, <2>6, <2>9, <2>10
  <2>12. \A k \in DOMAIN batch : ~IsTwap(batch[k]) /\ Of(batch[k]) = w => t < At(batch[k])
    BY <2>4, <2>5, <2>8, <2>9, <2>10
  <2>13. \A k \in DOMAIN batch : ~IsTwap(batch[k]) /\ Of(batch[k]) = w => t <= At(batch[k]) + Overlap
    BY <2>5, <2>8, <2>9, <2>12
  <2>14. ASSUME ~IsTwap(f), NEW k \in DOMAIN batch, batch[k] = f PROVE FALSE
    <3>1. At(f) < At(batch[k]) BY <1>4, <2>12, <2>14 DEF t
    <3>2. At(f) \in Nat BY <2>5 DEF t
    <3> QED BY <2>14, <3>1, <3>2
  <2>15. Covered(poller, batch, f) BY <1>4, <2>11, <2>13 DEF Covered, t, h
  <2> QED BY <2>11, <2>14, <2>15 DEF t, s
<1> QED BY <1>4, <1>5, <1>6

\* What a plan that met no new poller holds stays new, and no poller asks for it.
LEMMA FreePlanKept ==
    ASSUME WalletState, AheadInv, FreePlanInv, PollerMargin > 0, WalletNext PROVE FreePlanInv'
<1> DEFINE Untold(f) == /\ ~Stands(runs', f)
                        /\ Live' => /\ At(f) < RequestStart(poller', Of(f))
                                    /\ \A k \in DOMAIN batch' : batch'[k] # f
<1>0. fill' = fill BY StepCases
<1>1. SUFFICES ASSUME plan' # NoPlan
               PROVE  /\ Len(runs') >= plan'.runs
                      /\ Len(runs') = plan'.runs => \A f \in plan'.fills : ~IsTwap(f) => Untold(f)
                      /\ Live' /\ ~poller'.beside => \A g \in plan'.fills : Covered(poller', batch', g)
  BY <1>0 DEF FreePlanInv, Covered
<1> HIDE DEF Untold
<1>2. ~BackfillWrite BY <1>1 DEF BackfillWrite
<1>3. Len(runs) \in Nat /\ Len(runs') \in Nat /\ Len(runs) <= Len(runs') BY PlacesMove
<1>4. CASE plan' = plan
  <2>1. /\ Len(runs) >= plan.runs /\ plan.runs \in Nat /\ plan.fills \in SUBSET Fills
        /\ Len(runs) = plan.runs =>
            \A f \in plan.fills : ~IsTwap(f) =>
                /\ ~Stands(runs, f)
                /\ Live => At(f) < RequestStart(poller, Of(f)) /\ \A k \in DOMAIN batch : batch[k] # f
        /\ Live /\ ~poller.beside => \A g \in plan.fills : Covered(poller, batch, g)
    BY <1>1, <1>4 DEF FreePlanInv, WalletState
  <2>2. Len(runs') >= plan'.runs BY <1>3, <1>4, <2>1
  <2>3. ASSUME Len(runs') = plan'.runs, NEW f \in plan'.fills, ~IsTwap(f) PROVE Untold(f)
    <3>1. Len(runs) = plan.runs /\ Len(runs') = Len(runs) /\ f \in Fills /\ f \in plan.fills
      BY <1>3, <1>4, <2>1, <2>3
    <3>2. /\ ~Stands(runs, f)
          /\ Live => At(f) < RequestStart(poller, Of(f)) /\ \A k \in DOMAIN batch : batch[k] # f
      BY <2>1, <2>3, <3>1
    <3>3. ~Stands(runs', f)
      <4>1. ASSUME Stands(runs', f) PROVE FALSE
        <5>1. PICK i, j : StandsAt(runs', i, j, f) BY <4>1 DEF Stands
        <5>2. ~StandsAt(runs, i, j, f) BY <3>2 DEF Stands, StandsAt
        <5>3. Deliver /\ 1 \in DOMAIN batch /\ f = batch[1] BY <1>2, <5>1, <5>2, StandsMove
        <5>4. Live BY <5>3, WriteIs
        <5> QED BY <3>2, <5>3, <5>4
      <4> QED BY <4>1
    <3>4. ASSUME Live' PROVE At(f) < RequestStart(poller', Of(f)) /\ \A k \in DOMAIN batch' : batch'[k] # f
      <4>1. ~StartSegment
        <5>1. ASSUME StartSegment PROVE FALSE
          <6>1. PICK r \in FlowRun : runs' = Append(runs, r) BY <5>1, StartIs
          <6>2. DOMAIN runs' = 1..(Len(runs) + 1) /\ runs' \in Seq(FlowRun) BY <6>1, RunAdded
          <6>3. Len(runs') = Len(runs) + 1 BY <1>3, <6>2
          <6> QED BY <1>3, <3>1, <6>3
        <5> QED BY <5>1
      <4>2. ASSUME NEW failed \in SUBSET Fillers, NEW twapFailed \in SUBSET Slicers, Poll(failed, twapFailed)
            PROVE  At(f) < RequestStart(poller', Of(f)) /\ \A k \in DOMAIN batch' : batch'[k] # f
        <5>1. /\ Live /\ poller' \in Memory
              /\ \A x \in ToSet(batch') : ~IsTwap(x) => At(x) >= RequestStart(poller, Of(x))
              /\ \A w \in Wallets : RequestStart(poller, w) <= RequestStart(poller', w)
          BY <4>2, PollTakes
        <5>2. poller \in Memory /\ Of(f) \in Wallets /\ At(f) \in Nat
          BY <3>1, <5>1, FillsAre DEF WalletState, PollerTyped
        <5>3. RequestStart(poller, Of(f)) \in Nat /\ RequestStart(poller', Of(f)) \in Nat BY <5>1, <5>2, StartOf
        <5>4. At(f) < RequestStart(poller, Of(f)) BY <3>2, <5>1
        <5>5. At(f) < RequestStart(poller', Of(f)) BY <5>1, <5>2, <5>3, <5>4
        <5>6. ~(At(f) >= RequestStart(poller, Of(f))) BY <5>2, <5>3, <5>4
        <5>7. f \notin ToSet(batch') BY <2>3, <5>1, <5>6
        <5> QED BY <5>5, <5>7 DEF ToSet
      <4>3. CASE Deliver
        <5>1. /\ Live /\ \A k \in DOMAIN batch' : k + 1 \in DOMAIN batch /\ batch'[k] = batch[k + 1]
          BY <4>3, WriteIs
        <5>2. poller' = poller BY <4>3 DEF Deliver
        <5> QED BY <3>2, <5>1, <5>2
      <4>4. CASE Live /\ batch' = batch /\ poller' = poller BY <3>2, <4>4
      <4> QED BY <3>4, <4>1, <4>2, <4>3, <4>4, LiveCases
    <3> QED BY <3>3, <3>4 DEF Untold
  <2>4. ASSUME Live', ~poller'.beside, NEW g \in plan'.fills PROVE Covered(poller', batch', g)
    <3>1. g \in Fills /\ g \in plan.fills BY <1>4, <2>1
    <3>2. ~StartSegment
      <4>1. StartSegment => (poller'.beside <=> plan # NoPlan) BY StartIs
      <4> QED BY <1>1, <1>4, <2>4, <4>1
    <3>3. ASSUME NEW failed \in SUBSET Fillers, NEW twapFailed \in SUBSET Slicers, Poll(failed, twapFailed)
          PROVE  Covered(poller', batch', g)
      <4>1. Live /\ poller'.beside = poller.beside BY <3>3, PollTakes
      <4>2. At(g) <= poller.high[Of(g)] BY <2>1, <2>4, <3>1, <4>1 DEF Covered
      <4> QED BY <3>1, <3>3, <4>2, PollCovers
    <3>4. CASE Deliver
      <4>1. Live /\ \A k \in DOMAIN batch' : k + 1 \in DOMAIN batch /\ batch'[k] = batch[k + 1]
        BY <3>4, WriteIs
      <4>2. poller' = poller BY <3>4 DEF Deliver
      <4>3. Covered(poller, batch, g) BY <2>1, <2>4, <3>1, <4>1, <4>2
      <4> QED BY <4>1, <4>2, <4>3 DEF Covered
    <3>5. CASE Live /\ batch' = batch /\ poller' = poller BY <2>1, <2>4, <3>1, <3>5
    <3> QED BY <2>4, <3>2, <3>3, <3>4, <3>5, LiveCases
  <2> QED BY <1>4, <2>2, <2>3, <2>4
<1>5. ASSUME NEW w \in Wallets, BackfillScan(w)
      PROVE  /\ Len(runs') >= plan'.runs
             /\ Len(runs') = plan'.runs => \A f \in plan'.fills : ~IsTwap(f) => Untold(f)
             /\ Live' /\ ~poller'.beside => \A g \in plan'.fills : Covered(poller', batch', g)
  <2>1. runs' = runs /\ poller' = poller /\ batch' = batch BY <1>5 DEF BackfillScan
  <2>2. Live' = Live BY <2>1 DEF Live
  <2>3. /\ plan'.runs = RunsBefore
        /\ \A f \in plan'.fills :
            /\ f \in Fills /\ Of(f) = w /\ ~Stands(runs, f)
            /\ Live /\ ~poller.beside =>
                /\ Covered(poller, batch, f) /\ At(f) < RequestStart(poller, w)
                /\ ~IsTwap(f) => \A k \in DOMAIN batch : batch[k] # f
    BY <1>5, ScanIs
  <2>4. RunsBefore = IF Live /\ poller.beside THEN 0 ELSE Len(runs) BY DEF RunsBefore
  <2>5. Live => Len(runs) # 0
    <3>1. Live => poller.run \in DOMAIN runs BY DEF WalletState, PollerTyped
    <3>2. DOMAIN runs = 1..Len(runs) BY DEF WalletState, RunsTyped
    <3> QED BY <3>1, <3>2
  <2>6. Len(runs') >= plan'.runs BY <1>3, <2>1, <2>3, <2>4
  <2>7. ASSUME Len(runs') = plan'.runs, Live PROVE ~poller.beside BY <2>1, <2>3, <2>4, <2>5, <2>7
  <2>8. ASSUME Len(runs') = plan'.runs, NEW f \in plan'.fills, ~IsTwap(f) PROVE Untold(f)
    BY <2>1, <2>2, <2>3, <2>7, <2>8 DEF Untold
  <2> QED BY <2>1, <2>2, <2>3, <2>6, <2>8
<1> QED BY <1>1, <1>2, <1>4, <1>5, StepCases

\* All that is to be known of the copies.
CopyInv == SingleInv /\ TakenInv /\ KnownInv /\ BornInv /\ AheadInv /\ FreePlanInv

\* The backfill stays away from the poller's overlap (60 s by default), and the horizon of
\* slices from the oldest hot run by more than a segment (6 h).
Margins == PollerMargin > 0 /\ TwapMargin > MaxSegment

\* There are none at first,
LEMMA CopyStarts == ASSUME WalletInit PROVE CopyInv
<1>1. /\ runs = <<>> /\ DOMAIN runs = {} /\ ~Live /\ plan = NoPlan BY DEF WalletInit, Live
<1> QED
  BY <1>1 DEF CopyInv, SingleInv, TakenInv, KnownInv, BornInv, AheadInv, FreePlanInv

\* every step keeps it so,
LEMMA CopyStep == ASSUME Margins, WalletState, BatchSorted, CopyInv, WalletNext PROVE CopyInv'
<1>1. SingleInv' BY SingleKept DEF CopyInv
<1>2. TakenInv' BY TakenKept DEF CopyInv
<1>3. KnownInv' BY KnownKept DEF CopyInv, Margins
<1>4. BornInv' BY BornKept DEF CopyInv
<1>5. AheadInv' BY AheadKept DEF CopyInv
<1>6. FreePlanInv' BY FreePlanKept DEF CopyInv, Margins
<1> QED BY <1>1, <1>2, <1>3, <1>4, <1>5, <1>6 DEF CopyInv

\* and so does a step of another lane.
LEMMA CopyStays == ASSUME CopyInv, UNCHANGED wvars PROVE CopyInv'
<1>1. UNCHANGED <<fill, clock, runs, poller, batch, plan, forgotten>> BY DEF wvars
<1>2. Live' <=> Live BY <1>1 DEF Live
<1>3. SingleInv' BY <1>1 DEF CopyInv, SingleInv
<1>4. TakenInv' BY <1>1, <1>2 DEF CopyInv, TakenInv
<1>5. KnownInv' BY <1>1, <1>2 DEF CopyInv, KnownInv, Beyond
<1>6. BornInv' BY <1>1, <1>2 DEF CopyInv, BornInv, Segments
<1>7. AheadInv' BY <1>1, <1>2 DEF CopyInv, AheadInv, Covered, HotRuns, InPlaces, MovesHighwater
<1>8. FreePlanInv' BY <1>1, <1>2 DEF CopyInv, FreePlanInv, Covered
<1> QED BY <1>3, <1>4, <1>5, <1>6, <1>7, <1>8 DEF CopyInv

\* One standing row is at most one copy.
LEMMA CopyKeeps == ASSUME WalletState, SingleInv PROVE NoFillTwice
<1>1. SUFFICES ASSUME NEW f \in Fills, f \notin forgotten PROVE Cardinality(Copies(f)) <= 1 BY DEF NoFillTwice
<1> DEFINE C == Copies(f)
<1>2. \A c \in C : /\ c = <<c[1], c[2]>> /\ c[1] \in DOMAIN runs /\ c[2] \in DOMAIN runs[c[1]].rows
                   /\ StandsAt(runs, c[1], c[2], f)
  BY DEF Copies, StandsAt
<1>3. ASSUME NEW c \in C, NEW d \in C PROVE c = d
  <2>1. c[1] = d[1] /\ c[2] = d[2] BY <1>1, <1>2 DEF SingleInv
  <2> HIDE DEF C
  <2> QED BY <1>2, <2>1
<1> HIDE DEF C
<1>4. CASE C = {}
  <2>1. Cardinality(C) = 0 BY <1>4, FS_EmptySet
  <2> QED BY <2>1 DEF C
<1>5. CASE C # {}
  <2>1. PICK c \in C : TRUE BY <1>5
  <2>2. C = {c} BY <1>3, <2>1
  <2>3. Cardinality(C) = 1 BY <2>2, FS_Singleton
  <2> QED BY <2>3 DEF C
<1> QED BY <1>4, <1>5

\* Under the composition, whichever lane moves.
LEMMA CopyInvariance == ASSUME Margins PROVE PollingSpec => []CopyInv
<1>1. PollingInit => CopyInv BY CopyStarts DEF PollingInit
<1>2. WalletInv /\ CopyInv /\ [PollingNext]_pvars => CopyInv'
  <2> SUFFICES ASSUME WalletInv, CopyInv, [PollingNext]_pvars PROVE CopyInv' OBVIOUS
  <2>1. CASE WalletNext BY <2>1, CopyStep DEF WalletInv, OrderInv
  <2>2. CASE UNCHANGED wvars BY <2>2, CopyStays
  <2> QED BY <2>1, <2>2 DEF PollingNext, pvars
<1>3. PollingSpec => []WalletInv BY WalletInvariance
<1> QED BY <1>1, <1>2, <1>3, PTL DEF PollingSpec

\* Over restarts, crashes, capped pages, overlapping requests, two endpoints and any
\* number of backfills, what is left for promotion holds no fill twice that a poller or a
\* backfill could have known.
THEOREM FillsAreWrittenOnce == ASSUME Margins PROVE PollingSpec => []NoFillTwice
<1>1. WalletInv /\ CopyInv => NoFillTwice BY CopyKeeps DEF WalletInv, CopyInv
<1>2. PollingSpec => []WalletInv BY WalletInvariance
<1>3. PollingSpec => []CopyInv BY CopyInvariance
<1> QED BY <1>1, <1>2, <1>3, PTL

HIDE DEF Of, At, IsTwap, Wanted

-----------------------------------------------------------------------------
\* Over rotations, kills and failed polls the trades lane writes no id twice that a new
\* run could still see and leaves no hole in the ids that no run tells of, the
\* wallet-flow lane has no fill out of order that was served in time and passes over
\* none, beside a backfill and the jobs that move its runs, and the text lane takes no
\* item for known that it has not written, and writes none again that its file can hold.
THEOREM ServedIsKept == PollingSpec => []EverythingIsKept
<1>1. AggInv => NoIdTwice /\ NoSilentGap BY NoneTwice, NoneLost
<1>2. WalletInv => OnlyLateFillsBreakOrder /\ NothingSkipped BY WalletKeeps
<1>3. TextInv => NoItemSkipped BY TextKeeps
<1>4. TextInv /\ OnceInv => NoItemTwice BY OnceKeeps
<1>5. PollingSpec => []AggInv BY AggInvariance
<1>6. PollingSpec => []WalletInv BY WalletInvariance
<1>7. PollingSpec => []TextInv BY TextInvariance
<1>8. PollingSpec => []OnceInv BY OnceInvariance
<1>9. AggInv /\ WalletInv /\ TextInv /\ OnceInv => EverythingIsKept
  BY <1>1, <1>2, <1>3, <1>4 DEF EverythingIsKept
<1> QED BY <1>5, <1>6, <1>7, <1>8, <1>9, PTL

(***************************************************************************)
(* The lock files.                                                         *)
(***************************************************************************)
\* The file on disk was made by a process that owns it, or died on the way.
\* (release() and a break leave no file, so an owner that left is not named.)
CreatorInv ==
    /\ \A p \in Procs : stage[p] # "drain"
    /\ file # NoFile => stage[file] \in {"dump", "start", "run", "dead"}

\* From its creation to its release, something young vouches for a live lock:
\* an unreadable file is young, a readable one is until the first heartbeat,
\* and then the heartbeat is.
GraceInv ==
    /\ \A p \in Procs : stage[p] = "dump" /\ file = p => ~written /\ lockAge < MidWriteGrace
    /\ \A p \in Procs : stage[p] = "start" /\ file = p => written /\ lockAge <= CreatedGrace
    /\ \A p \in Procs : stage[p] = "run" /\ file = p => written
    /\ \A p \in Procs : stage[p] = "run" => beat <= FreshFor

IInv == TypeOK /\ CreatorInv /\ GraceInv

\* Launches that do not overlap: the owner's lock is the one on disk, it writes
\* the heartbeats, and what a launcher is about to break has a dead owner.
SerialInv ==
    /\ \A p, q \in Procs :
          stage[p] \in Acquiring \cup {"dump"} /\ stage[q] \in Acquiring \cup {"dump"} => p = q
    /\ \A p \in Procs : stage[p] \in {"dump", "start", "run"} => file = p
    /\ \A p \in Procs : stage[p] = "run" => beatOf = p
    /\ \A p \in Procs : stage[p] = "break" /\ file # NoFile => stage[file] = "dead"

-----------------------------------------------------------------------------
\* The abbreviations of the specification.
USE DEF lockVars, beatVars, Acquiring, Owning, Gone, GoesTo, NoLock

\* The initial state is well formed.
LEMMA InitTyped == Init => TypeOK
<1> SUFFICES ASSUME Init PROVE TypeOK
  OBVIOUS
<1>1. written \in BOOLEAN BY Zenon DEF Init
<1>2. recycled \subseteq Procs BY DEF Init
<1> QED BY <1>1, <1>2, GraceAssumption DEF Init, TypeOK, Stages

\* Every action keeps the types.
LEMMA StepTyped == TypeOK /\ [Next]_vars => TypeOK'
<1> SUFFICES ASSUME TypeOK, [Next]_vars PROVE TypeOK'
  OBVIOUS
<1> USE GraceAssumption DEF TypeOK, Stages
<1>0. mode' = mode BY DEF Next, vars
<1> USE <1>0
<1>1. ASSUME NEW p \in Procs, Launch(p) PROVE TypeOK'
  BY <1>1 DEF Launch
<1>2. ASSUME NEW p \in Procs, Acquire(p) PROVE TypeOK'
  <2>1. CASE CreateLock(p)
    <3>1. written' \in BOOLEAN BY <2>1, Zenon DEF CreateLock
    <3> QED BY <2>1, <3>1 DEF CreateLock
  <2>2. CASE DumpPayload(p)
    <3>1. written' \in BOOLEAN BY <2>2, Zenon DEF DumpPayload
    <3> QED BY <2>2, <3>1 DEF DumpPayload
  <2>3. CASE FindLock(p) BY <2>3 DEF FindLock
  <2>4. CASE Refuse(p) BY <2>4 DEF Refuse
  <2>5. CASE WaitForWriter(p) BY <2>5 DEF WaitForWriter, Retry
  <2>6. CASE JudgeStale(p) BY <2>6 DEF JudgeStale
  <2>7. CASE BreakLock(p)
    <3>1. written' \in BOOLEAN BY <2>7, Zenon DEF BreakLock
    <3> QED BY <2>7, <3>1 DEF BreakLock, Retry
  <2> QED BY <1>2, <2>1, <2>2, <2>3, <2>4, <2>5, <2>6, <2>7 DEF Acquire
<1>3. ASSUME NEW p \in Procs, Heartbeat(p) PROVE TypeOK'
  BY <1>3 DEF Heartbeat
<1>4. ASSUME NEW p \in Procs, Drain(p) PROVE TypeOK'
  BY <1>4 DEF Drain
<1>5. ASSUME NEW p \in Procs, Release(p) PROVE TypeOK'
  <2>1. written' \in BOOLEAN BY <1>5, Zenon DEF Release
  <2> QED BY <1>5, <2>1 DEF Release
<1>6. ASSUME NEW p \in Procs, Crash(p) PROVE TypeOK'
  BY <1>6 DEF Crash
<1>7. ASSUME NEW p \in Procs, RecyclePid(p) PROVE TypeOK'
  BY <1>7 DEF RecyclePid
<1>8. ASSUME NEW p \in Procs, Forget(p) PROVE TypeOK'
  BY <1>8 DEF Forget
<1>9. CASE Tick
  BY <1>9 DEF Tick, Older
<1>10. CASE UNCHANGED vars
  BY <1>10 DEF vars
<1> QED BY <1>1, <1>2, <1>3, <1>4, <1>5, <1>6, <1>7, <1>8, <1>9, <1>10 DEF Next

\* The state of the lock files is well formed in every behaviour (ops.py, 380-467).
THEOREM LockTypeCorrect == Spec => []TypeOK
<1>1. Init => TypeOK BY InitTyped
<1>2. TypeOK /\ [Next]_vars => TypeOK' BY StepTyped
<1> QED BY <1>1, <1>2, PTL DEF Spec
-----------------------------------------------------------------------------
\* IInv holds at first.
LEMMA InitSafe == Init => IInv
<1> SUFFICES ASSUME Init PROVE IInv
  OBVIOUS
<1>1. TypeOK BY InitTyped
<1>2. CreatorInv BY DEF Init, CreatorInv
<1>3. GraceInv BY DEF Init, GraceInv
<1> QED BY <1>1, <1>2, <1>3 DEF IInv

\* The creator of the file stays on it until the file goes.
LEMMA StepCreator ==
    ASSUME ~MayDrain, IInv, [Next]_vars
    PROVE  CreatorInv'
<1> USE DEF IInv, TypeOK, CreatorInv
<1>1. ASSUME NEW p \in Procs, Launch(p) PROVE CreatorInv'
  BY <1>1 DEF Launch
<1>2. ASSUME NEW p \in Procs, Acquire(p) PROVE CreatorInv'
  BY <1>2 DEF Acquire, CreateLock, DumpPayload, FindLock, Refuse, WaitForWriter,
              JudgeStale, BreakLock, Retry
<1>3. ASSUME NEW p \in Procs, Heartbeat(p) PROVE CreatorInv'
  BY <1>3 DEF Heartbeat
<1>4. ASSUME NEW p \in Procs, Drain(p) PROVE CreatorInv'
  BY <1>4 DEF Drain
<1>5. ASSUME NEW p \in Procs, Release(p) PROVE CreatorInv'
  BY <1>5 DEF Release
<1>6. ASSUME NEW p \in Procs, Crash(p) PROVE CreatorInv'
  BY <1>6 DEF Crash
<1>7. ASSUME NEW p \in Procs, RecyclePid(p) PROVE CreatorInv'
  BY <1>7 DEF RecyclePid
<1>8. ASSUME NEW p \in Procs, Forget(p) PROVE CreatorInv'
  BY <1>8 DEF Forget
<1>9. CASE Tick
  BY <1>9 DEF Tick
<1>10. CASE UNCHANGED vars
  BY <1>10 DEF vars
<1> QED BY <1>1, <1>2, <1>3, <1>4, <1>5, <1>6, <1>7, <1>8, <1>9, <1>10 DEF Next

\* What vouches for a live lock does not run out before the next thing does.
LEMMA StepGrace ==
    ASSUME ~MayDrain, IInv, [Next]_vars
    PROVE  GraceInv'
<1> USE GraceAssumption, ProcsAssumption DEF IInv, TypeOK, GraceInv
<1>1. ASSUME NEW p \in Procs, Launch(p) PROVE GraceInv'
  BY <1>1 DEF Launch
<1>2. ASSUME NEW p \in Procs, Acquire(p) PROVE GraceInv'
  <2>1. CASE CreateLock(p) BY <2>1 DEF CreateLock
  <2>2. CASE DumpPayload(p)
    <3>1. file = p => written' = TRUE BY <2>2, Zenon DEF DumpPayload
    <3>2. file # p => written' = written
      <4>1. ASSUME file # p PROVE written' = (written \/ FALSE)
        BY <2>2, <4>1, Zenon DEF DumpPayload
      <4>2. (written \/ FALSE) = written BY Zenon
      <4> QED BY <4>1, <4>2, Zenon
    <3> QED BY <2>2, <3>1, <3>2 DEF DumpPayload
  <2>3. CASE FindLock(p) BY <2>3 DEF FindLock
  <2>4. CASE Refuse(p) BY <2>4 DEF Refuse
  <2>5. CASE WaitForWriter(p) BY <2>5 DEF WaitForWriter, Retry
  <2>6. CASE JudgeStale(p) BY <2>6 DEF JudgeStale
  <2>7. CASE BreakLock(p) BY <2>7 DEF BreakLock, Retry
  <2> QED BY <1>2, <2>1, <2>2, <2>3, <2>4, <2>5, <2>6, <2>7 DEF Acquire
<1>3. ASSUME NEW p \in Procs, Heartbeat(p) PROVE GraceInv'
  BY <1>3 DEF Heartbeat
<1>4. ASSUME NEW p \in Procs, Drain(p) PROVE GraceInv'
  BY <1>4 DEF Drain
<1>5. ASSUME NEW p \in Procs, Release(p) PROVE GraceInv'
  BY <1>5 DEF Release
<1>6. ASSUME NEW p \in Procs, Crash(p) PROVE GraceInv'
  BY <1>6 DEF Crash
<1>7. ASSUME NEW p \in Procs, RecyclePid(p) PROVE GraceInv'
  BY <1>7 DEF RecyclePid
<1>8. ASSUME NEW p \in Procs, Forget(p) PROVE GraceInv'
  BY <1>8 DEF Forget
<1>9. CASE Tick
  BY <1>9 DEF Tick, InTime, Older
<1>10. CASE UNCHANGED vars
  BY <1>10 DEF vars
<1> QED BY <1>1, <1>2, <1>3, <1>4, <1>5, <1>6, <1>7, <1>8, <1>9, <1>10 DEF Next

\* The mode is what it was at the start.
LEMMA ModeIsRigid ==
    ASSUME [Next]_vars
    PROVE  (MayDrain' <=> MayDrain) /\ (Serial' <=> Serial)
<1>1. mode' = mode BY DEF Next, vars
<1> QED BY <1>1 DEF MayDrain, Serial

\* The inductive invariant, for owners that keep their heartbeat to the end.
SafeInv == ~MayDrain => IInv

LEMMA Invariance == Spec => []SafeInv
<1>1. Init => SafeInv BY InitSafe DEF SafeInv
<1>2. SafeInv /\ [Next]_vars => SafeInv'
  BY ModeIsRigid, StepTyped, StepCreator, StepGrace DEF IInv, SafeInv
<1> QED BY <1>1, <1>2, PTL DEF Spec

\* Whoever judges a lock stale is right about it, if a running owner's heartbeat
\* counts for its lock: any heartbeat does for the runner's lock, its own for the
\* worker's lock as long as there is one owner.
LEMMA JudgedRight ==
    ASSUME IInv, file # NoFile, NEW p \in Procs, JudgeStale(p),
           stage[file] = "run" => HeartbeatIsFresh
    PROVE  stage[file] = "dead"
<1>1. file \in Procs BY DEF IInv, TypeOK
<1>2. CASE stage[file] = "dump"
  BY <1>1, <1>2, Zenon DEF IInv, GraceInv, JudgeStale, PossiblyMidWrite
<1>3. CASE stage[file] = "start"
  BY <1>1, <1>3, Zenon DEF IInv, GraceInv, JudgeStale, OwnerIsLive, Readable, PidExists
<1>4. CASE stage[file] = "run"
  BY <1>1, <1>4, Zenon DEF IInv, GraceInv, JudgeStale, OwnerIsLive, Readable, PidExists
<1> QED BY <1>2, <1>3, <1>4 DEF IInv, CreatorInv

\* With the freshness of any heartbeat (OpsRunnerLock), a lock is judged stale only
\* when the process that made it has ended, however launches, owners, crashes and
\* recycled pids interleave: no gap between O_EXCL, payload and first heartbeat.
THEOREM StaleOwnerIsDead == Spec => OnlyDeadIsStale
<1>1. ASSUME IInv, [Next]_vars, ~OwnBeat, NEW p \in Procs,
             stage[p] = "judge", stage'[p] = "break", file # NoFile
      PROVE  stage[file] \in Gone
  <2>1. JudgeStale(p)
    <3> USE <1>1 DEF IInv, TypeOK
    <3>1. ASSUME NEW q \in Procs, Acquire(q) PROVE q = p /\ JudgeStale(p)
      BY <3>1 DEF Acquire, CreateLock, DumpPayload, FindLock, Refuse, WaitForWriter,
                  BreakLock, Retry, JudgeStale
    <3>2. ASSUME NEW q \in Procs,
                 \/ Launch(q) \/ Heartbeat(q) \/ Drain(q) \/ Release(q)
                 \/ Crash(q) \/ RecyclePid(q) \/ Forget(q)
          PROVE FALSE
      BY <3>2 DEF Launch, Heartbeat, Drain, Release, Crash, RecyclePid, Forget
    <3>3. ~Tick /\ ~UNCHANGED vars
      BY DEF Tick, vars
    <3> QED BY <3>1, <3>2, <3>3 DEF Next
  <2>2. file \in Procs BY <1>1 DEF IInv, TypeOK
  <2>3. stage[file] = "run" => HeartbeatIsFresh
    BY <1>1, <2>2 DEF IInv, GraceInv, HeartbeatIsFresh
  <2> QED BY <1>1, <2>1, <2>3, JudgedRight
<1>2. SafeInv /\ [Next]_vars =>
        [~OwnBeat /\ ~MayDrain => \A p \in Procs :
            stage[p] = "judge" /\ stage'[p] = "break" /\ file # NoFile
                => stage[file] \in Gone]_vars
  BY <1>1 DEF SafeInv
<1>3. Spec => []SafeInv BY Invariance
<1> QED BY <1>2, <1>3, PTL DEF Spec, OnlyDeadIsStale

-----------------------------------------------------------------------------
\* One launch at a time keeps the lock with its owner.
LEMMA StepSerial ==
    ASSUME ~MayDrain, Serial, IInv, SerialInv, [Next]_vars
    PROVE  SerialInv'
<1> USE DEF IInv, TypeOK, CreatorInv, SerialInv
<1>1. ASSUME NEW p \in Procs, Launch(p) PROVE SerialInv'
  BY <1>1 DEF Launch
<1>2. ASSUME NEW p \in Procs, Acquire(p) PROVE SerialInv'
  <2>1. CASE CreateLock(p) BY <2>1, ProcsAssumption DEF CreateLock
  <2>2. CASE DumpPayload(p) BY <2>2 DEF DumpPayload
  <2>3. CASE FindLock(p) BY <2>3 DEF FindLock
  <2>4. CASE Refuse(p) BY <2>4 DEF Refuse
  <2>5. CASE WaitForWriter(p) BY <2>5 DEF WaitForWriter, Retry
  <2>6. CASE JudgeStale(p)
    <3>1. file # NoFile /\ stage[file] = "run" => HeartbeatIsFresh
      BY DEF GraceInv, HeartbeatIsFresh
    <3>2. file # NoFile => stage[file] = "dead" BY <2>6, <3>1, JudgedRight
    <3> QED BY <2>6, <3>2 DEF JudgeStale
  <2>7. CASE BreakLock(p) BY <2>7 DEF BreakLock, Retry
  <2> QED BY <1>2, <2>1, <2>2, <2>3, <2>4, <2>5, <2>6, <2>7 DEF Acquire
<1>3. ASSUME NEW p \in Procs, Heartbeat(p) PROVE SerialInv'
  BY <1>3 DEF Heartbeat
<1>4. ASSUME NEW p \in Procs, Drain(p) PROVE SerialInv'
  BY <1>4 DEF Drain
<1>5. ASSUME NEW p \in Procs, Release(p) PROVE SerialInv'
  BY <1>5 DEF Release
<1>6. ASSUME NEW p \in Procs, Crash(p) PROVE SerialInv'
  BY <1>6 DEF Crash
<1>7. ASSUME NEW p \in Procs, RecyclePid(p) PROVE SerialInv'
  BY <1>7 DEF RecyclePid
<1>8. ASSUME NEW p \in Procs, Forget(p) PROVE SerialInv'
  BY <1>8 DEF Forget
<1>9. CASE Tick
  BY <1>9 DEF Tick
<1>10. CASE UNCHANGED vars
  BY <1>10 DEF vars
<1> QED BY <1>1, <1>2, <1>3, <1>4, <1>5, <1>6, <1>7, <1>8, <1>9, <1>10 DEF Next

\* The two invariants together, for launches that do not overlap.
SafeSerialInv == Serial /\ ~MayDrain => IInv /\ SerialInv

LEMMA SerialInvariance == Spec => []SafeSerialInv
<1>1. Init => SafeSerialInv
  BY InitSafe DEF Init, SerialInv, SafeSerialInv
<1>2. SafeSerialInv /\ [Next]_vars => SafeSerialInv'
  BY ModeIsRigid, StepTyped, StepCreator, StepGrace, StepSerial DEF IInv, SafeSerialInv
<1> QED BY <1>1, <1>2, PTL DEF Spec

\* There is one ops runner, or one worker of a lane, at a time (either lock): the
\* file on disk is its owner's.
THEOREM OneOwner == Spec => []MutualExclusion
<1>1. SafeSerialInv => MutualExclusion
  BY DEF IInv, CreatorInv, SerialInv, SafeSerialInv, MutualExclusion
<1>2. Spec => []SafeSerialInv BY SerialInvariance
<1> QED BY <1>1, <1>2, PTL

\* An owner that leaves unlinks its own lock and no other.
THEOREM OwnLockReleased == Spec => ReleasesOwnLock
<1>1. SafeSerialInv /\ [Next]_vars =>
        [Serial /\ ~MayDrain => \A p \in Procs :
            stage[p] \in Owning /\ stage'[p] = "released" => file = p]_vars
  BY DEF IInv, CreatorInv, SerialInv, SafeSerialInv
<1>2. Spec => []SafeSerialInv BY SerialInvariance
<1> QED BY <1>1, <1>2, PTL DEF Spec, ReleasesOwnLock
=============================================================================
