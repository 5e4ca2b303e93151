---------------------------- MODULE CurationProofs ----------------------------
(* Proofs about the curation of a lane (replay.py, quarantine.py,            *)
(* promotion.py, offload.py, repromote.py), for any runs, limits, ages and   *)
(* number of faults: the promoter and the repair never write the same run,   *)
(* a row has one copy more at most for each late fault, an index row stands  *)
(* for durable rows, a repair that breaks off is found again, and Curation       *)
(* implements RunFate.                                                       *)
EXTENDS Curation, SequenceTheorems, FiniteSetTheorems, TLAPS

USE DEF runVars, scoreVars, indexVars, dataVars, passVars, repairVars, faultVars

Parts == Seq(SUBSET RowNumbers)
Repairing == {"delete", "write", "sync", "index"}
-----------------------------------------------------------------------------
(* Types.                                                                   *)

\* What the repair's scan counted is there when it comes to delete it.
ScanInv ==
    /\ repair \in {"check"} \cup Repairing => \A r \in short : scan[r] <= Len(curated[r])
    /\ repair = "delete" => scan[mend] <= Len(curated[mend])
    /\ repair \in Repairing => mend \notin short

Typed == TypeOK /\ ScanInv

LEMMA RowsNat == MaxRows \in Nat \ {0} /\ 0..MaxRows \subseteq Nat
BY RowsAssumption

\* The next batch is what the run has left, or fills the sink.
LEMMA NextBatch ==
    ASSUME TypeOK
    PROVE  /\ passed \in Nat /\ stored \in 0..passed /\ Filled \in stored..passed
           /\ stored < passed => stored < Filled
           /\ (stored + 1)..Filled \subseteq RowNumbers
<1>1. passed \in 0..MaxRows /\ stored \in 0..passed BY DEF TypeOK
<1>2. passed \in Nat /\ stored \in Nat /\ MaxRows \in Nat /\ BatchSize \in Nat /\ BatchSize > 0
  BY <1>1, RowsAssumption
<1>3. Filled \in stored..passed /\ (stored < passed => stored < Filled)
  BY <1>1, <1>2 DEF Filled
<1>4. (stored + 1)..Filled \subseteq RowNumbers BY <1>1, <1>2, <1>3 DEF RowNumbers
<1> QED BY <1>1, <1>2, <1>3, <1>4

\* A file more at the end of a run's parts, the first gone, or the last.
LEMMA PartsGrow ==
    ASSUME NEW q \in Parts, NEW n \in SUBSET RowNumbers
    PROVE  /\ Append(q, n) \in Parts /\ Len(q) \in Nat
           /\ Len(Append(q, n)) = Len(q) + 1
           /\ \A i \in 1..Len(q) : Append(q, n)[i] = q[i]
           /\ Append(q, n)[Len(q) + 1] = n
BY AppendProperties DEF Parts

LEMMA PartsTail ==
    ASSUME NEW q \in Parts, Len(q) > 0
    PROVE  Tail(q) \in Parts /\ Len(Tail(q)) = Len(q) - 1
<1>1. q # <<>> OBVIOUS
<1> QED BY <1>1, HeadTailProperties DEF Parts

LEMMA PartsFront ==
    ASSUME NEW q \in Parts
    PROVE  /\ AllButLast(q) \in Parts /\ Len(AllButLast(q)) \in Nat
           /\ Len(AllButLast(q)) <= Len(q)
           /\ \A i \in 1..Len(AllButLast(q)) : AllButLast(q)[i] = q[i]
<1>1. Len(q) \in Nat /\ \A i \in 1..(Len(q) - 1) : q[i] \in SUBSET RowNumbers
  <2>0. q \in Seq(SUBSET RowNumbers) BY DEF Parts
  <2>1. Len(q) \in Nat BY <2>0
  <2>2. \A i \in 1..Len(q) : q[i] \in SUBSET RowNumbers BY <2>0, ElementOfSeq
  <2>3. \A i \in 1..(Len(q) - 1) : i \in 1..Len(q) BY <2>1
  <2> QED BY <2>1, <2>2, <2>3
<1>2. /\ AllButLast(q) \in Seq(SUBSET RowNumbers)
      /\ Len(AllButLast(q)) = IF 1 <= Len(q) - 1 THEN Len(q) - 1 - 1 + 1 ELSE 0
      /\ \A i \in 1..(Len(q) - 1 - 1 + 1) : AllButLast(q)[i] = q[1 + i - 1]
  <2>1. 1 \in Int /\ Len(q) - 1 \in Int BY <1>1
  <2> QED BY <1>1, <2>1, SubSeqProperties DEF AllButLast
<1>3. Len(AllButLast(q)) \in Nat /\ Len(AllButLast(q)) <= Len(q) BY <1>1, <1>2
<1>4. \A i \in 1..Len(AllButLast(q)) : AllButLast(q)[i] = q[i] BY <1>1, <1>2
<1> QED BY <1>2, <1>3, <1>4 DEF Parts

\* A flush adds at most a part to each run.
LEMMA FlushedParts ==
    ASSUME TypeOK
    PROVE  /\ Flushed \in [Runs -> Parts]
           /\ \A r \in Runs : Len(Flushed[r]) \in Nat /\ Len(curated[r]) <= Len(Flushed[r])
<1>1. \A r \in Runs : curated[r] \in Parts /\ buffer[r] \in SUBSET RowNumbers BY DEF TypeOK, Parts
<1> QED BY <1>1, PartsGrow DEF Flushed

LEMMA PartsLength == ASSUME TypeOK PROVE \A r \in Runs : curated[r] \in Parts /\ Len(curated[r]) \in Nat
BY DEF TypeOK, Parts

LEMMA InitTyped == Init => Typed
<1> SUFFICES ASSUME Init PROVE Typed
  OBVIOUS
<1>1. curated \in [Runs -> Seq(SUBSET RowNumbers)]
  <2>1. {1} \in SUBSET RowNumbers BY RowsNat DEF RowNumbers
  <2>2. <<>> \in Seq(SUBSET RowNumbers) /\ <<{1}>> \in Seq(SUBSET RowNumbers) BY <2>1
  <2> QED BY <2>2 DEF Init
<1>2. /\ promoted \in [Runs -> {Absent} \cup 0..MaxRows]
      /\ rows \in [Runs -> 0..MaxRows] /\ scored \in [Runs -> 0..MaxRows]
  BY RowsNat DEF Init
<1>3. ScanInv BY DEF Init, ScanInv, Repairing
<1>4. age \in [Runs -> 0..MaxAge] BY AgeAssumption DEF Init
<1> QED BY <1>1, <1>2, <1>3, <1>4, RowsNat, PassAssumption DEF Init, Typed, TypeOK, Verdicts, EmptyBuffer

LEMMA StepTyped == Typed /\ [Next]_vars => Typed'
<1> SUFFICES ASSUME Typed, [Next]_vars PROVE Typed'
  OBVIOUS
<1> USE DEF Typed
\* What most actions leave alone.
<1>a. ASSUME UNCHANGED <<curated, repair, short, scan, mend>> PROVE ScanInv'
  BY <1>a DEF ScanInv
<1>b. ASSUME UNCHANGED <<repair, short, scan, mend>>, curated' = Flushed PROVE ScanInv'
  <2>1. \A r \in Runs : Len(curated[r]) \in Nat /\ Len(Flushed[r]) \in Nat
                        /\ Len(curated[r]) <= Len(Flushed[r]) /\ scan[r] \in Nat
    <3>1. \A r \in Runs : scan[r] \in Nat BY DEF TypeOK
    <3> QED BY <3>1, FlushedParts, PartsLength
  <2>2. short \subseteq Runs /\ (repair = "delete" => mend \in Runs) BY DEF TypeOK
  <2> QED BY <1>b, <2>1, <2>2 DEF ScanInv
<1>s. ASSUME NEW r \in Runs, NEW n \in 0..MaxRows, NEW v \in Verdicts, ScoreAs(r, n, v)
      PROVE  verdict' \in [Runs -> Verdicts] /\ scored' \in [Runs -> 0..MaxRows]
  BY <1>s DEF ScoreAs, TypeOK
<1>e. EmptyBuffer \in [Runs -> SUBSET RowNumbers] BY DEF EmptyBuffer
<1>z. 0 \in 0..passed BY NextBatch
<1>1. ASSUME NEW r \in Runs, OpenSegment(r) PROVE Typed'
  BY <1>a, <1>1 DEF OpenSegment, TypeOK
<1>2. ASSUME NEW r \in Runs, WriteRow(r) PROVE Typed'
  <2>1. rows[r] + 1 \in 0..MaxRows BY <1>2, RowsNat DEF WriteRow, TypeOK
  <2>2. rows' \in [Runs -> 0..MaxRows] BY <1>2, <2>1 DEF WriteRow, TypeOK
  <2> QED BY <1>a, <1>2, <2>2 DEF WriteRow, TypeOK
<1>3. ASSUME NEW r \in Runs, KillSegment(r) PROVE Typed'
  BY <1>a, <1>3 DEF KillSegment, TypeOK
<1>4. ASSUME NEW r \in Runs, GrowOlder(r) PROVE Typed'
  <2>1. age[r] + 1 \in 0..MaxAge BY <1>4, AgeAssumption DEF GrowOlder, TypeOK
  <2> QED BY <1>a, <1>4, <2>1 DEF GrowOlder, TypeOK
<1>5. ASSUME NEW r \in Runs, NEW v \in Verdicts \ {"none"}, CloseSegment(r, v) PROVE Typed'
  <2>1. rows[r] \in 0..MaxRows BY DEF TypeOK
  <2> QED BY <1>a, <1>s, <1>5, <2>1 DEF CloseSegment, TypeOK
<1>6. ASSUME NEW r \in Runs, NEW v \in Verdicts \ {"none"}, LastRow(r, v) PROVE Typed'
  <2>1. rows[r] + 1 \in 0..MaxRows BY <1>6, RowsNat DEF LastRow, TypeOK
  <2> QED BY <1>a, <1>s, <1>6, <2>1 DEF LastRow, TypeOK
<1>7. CASE Starts
  <2>1. Ripe \subseteq Runs /\ InWindow \subseteq Runs /\ Stuck \subseteq Runs
        /\ IndexedPromoted \subseteq Runs
    BY DEF Ripe, InWindow, Recent, Stuck, Captured, IndexedPromoted
  <2>2. \E j \in Jobs, visits, known, avoid \in SUBSET Runs : StartPass(j, visits, known, avoid)
    BY <1>7, <2>1 DEF Starts, StartScore, StartQuarantine, StartPromote, StartBackstop, Jobs, TypeOK
  <2> QED BY <1>a, <1>e, <2>2 DEF StartPass, TypeOK
<1>8. ASSUME NEW r \in Runs, NEW v \in Verdicts \ {"none"}, ScoreRun(r, v) PROVE Typed'
  <2>1. rows[r] \in 0..MaxRows BY DEF TypeOK
  <2> QED BY <1>a, <1>s, <1>8, <2>1 DEF ScoreRun, Visits, Visited, TypeOK
<1>9. ASSUME NEW r \in Runs, SkipScoring(r) \/ SkipPromotion(r) PROVE Typed'
  BY <1>a, <1>9 DEF SkipScoring, SkipPromotion, Visits, Visited, TypeOK
<1>10. ASSUME NEW r \in Runs, QuarantineRun(r) PROVE Typed'
  BY <1>a, <1>10 DEF QuarantineRun, Visits, Visited, TypeOK
<1>11. ASSUME NEW r \in Runs, BufferRun(r) PROVE Typed'
  <2>1. rows[r] \in 0..MaxRows /\ 0 \in 0..rows[r] BY RowsNat DEF TypeOK
  <2> QED BY <1>a, <1>11, <2>1 DEF BufferRun, Visits, Visited, TypeOK
<1>12. ASSUME NEW n \in 0..(MaxRows - 1), BufferFails(n) PROVE Typed'
  <2>1. faults' \in 0..MaxFaults BY <1>12, PassAssumption DEF BufferFails, TypeOK
  <2>2. lateFaults' \in [Runs -> Nat] BY <1>12 DEF BufferFails, TypeOK
  <2> QED BY <1>a, <1>e, <1>z, <1>12, <2>1, <2>2 DEF BufferFails, TypeOK
<1>13. CASE FillBuffer
  <2>1. buffer' \in [Runs -> SUBSET RowNumbers] BY <1>13, NextBatch DEF FillBuffer, TypeOK
  <2> QED BY <1>a, <1>13, <2>1 DEF FillBuffer, TypeOK
<1>35. CASE Flush
  <2>1. Buffered \subseteq Runs BY DEF Buffered
  <2>2. stored' \in 0..passed' /\ passed' \in 0..MaxRows
    <3>1. stored' = Filled /\ passed' = passed BY <1>35 DEF Flush
    <3>2. passed \in 0..MaxRows /\ stored \in 0..passed BY DEF TypeOK
    <3>3. passed \in Nat /\ Filled \in stored..passed BY NextBatch
    <3> QED BY <3>1, <3>2, <3>3
  <2> QED BY <1>b, <1>e, <1>35, <2>1, <2>2, FlushedParts DEF Flush, TypeOK, Parts
<1>14. CASE SyncParts BY <1>a, <1>14 DEF SyncParts, AfterFlush, TypeOK
<1>15. CASE AppendPromoted BY <1>a, <1>z, <1>15 DEF AppendPromoted, TypeOK
<1>16. ASSUME NEW written \in BOOLEAN, PromotionFails(written) PROVE Typed'
  <2>1. curated' = Flushed \/ curated' = curated BY <1>16 DEF PromotionFails
  <2>2. ScanInv' BY <1>a, <1>b, <1>16, <2>1 DEF PromotionFails
  <2>3. curated' \in [Runs -> Parts] BY <2>1, FlushedParts DEF TypeOK, Parts
  <2>4. lateFaults' \in [Runs -> Nat] BY <1>16 DEF PromotionFails, TypeOK
  <2>5. faults' \in 0..MaxFaults BY <1>16, PassAssumption DEF PromotionFails, TypeOK
  <2>6. unsynced' \subseteq Runs BY <1>16 DEF PromotionFails, Buffered, TypeOK
  <2> QED
    BY <1>e, <1>z, <1>16, <2>2, <2>3, <2>4, <2>5, <2>6 DEF PromotionFails, TypeOK, Parts
<1>17. CASE EndPass
  <2>1. Buffered \subseteq Runs BY DEF Buffered
  <2> QED BY <1>b, <1>e, <1>17, <2>1, FlushedParts DEF EndPass, TypeOK, Parts
<1>18. ASSUME NEW r \in Runs, NEW v \in Verdicts \ {"none"}, Rescore(r, v) PROVE Typed'
  <2>1. rows[r] \in 0..MaxRows BY DEF TypeOK
  <2> QED BY <1>a, <1>s, <1>18, <2>1 DEF Rescore, TypeOK
<1>19. CASE StartRepair BY <1>19 DEF StartRepair, TypeOK, ScanInv, Repairing
<1>20. CASE ScanDataset
  <2>1. \A r \in Runs : Len(curated[r]) \in Nat BY DEF TypeOK
  <2>2. scan' \in [Runs -> Nat] BY <1>20, <2>1 DEF ScanDataset
  <2>3. ScanInv' BY <1>20, <2>1 DEF ScanDataset, ScanInv, Repairing, TypeOK
  <2> QED BY <1>20, <2>2, <2>3 DEF ScanDataset, TypeOK
<1>21. ASSUME NEW r \in Runs, SkipShort(r) PROVE Typed'
  BY <1>21 DEF SkipShort, NextShort, TypeOK, ScanInv
<1>22. ASSUME NEW r \in Runs, RepairRun(r) PROVE Typed'
  BY <1>22 DEF RepairRun, NextShort, TypeOK, ScanInv, Repairing
<1>23. CASE DeletePart
  <2>1. mend \in Runs /\ mend \notin short /\ short \subseteq Runs
    BY <1>23 DEF DeletePart, TypeOK, ScanInv, Repairing
  <2>2. /\ curated[mend] \in Parts /\ Len(curated[mend]) \in Nat
        /\ scan[mend] \in Nat /\ scan[mend] > 0 /\ scan[mend] <= Len(curated[mend])
    BY <1>23, <2>1 DEF DeletePart, TypeOK, ScanInv, Parts
  <2>3. Tail(curated[mend]) \in Parts /\ Len(Tail(curated[mend])) = Len(curated[mend]) - 1
    BY <2>2, PartsTail
  <2>4. /\ curated' \in [Runs -> Parts] /\ scan' \in [Runs -> Nat]
        /\ \A r \in Runs \ {mend} : curated'[r] = curated[r] /\ scan'[r] = scan[r]
        /\ scan'[mend] <= Len(curated'[mend])
    BY <1>23, <2>1, <2>2, <2>3 DEF DeletePart, TypeOK, Parts
  <2>5. ScanInv' BY <1>23, <2>1, <2>4 DEF DeletePart, ScanInv
  <2> QED BY <1>23, <2>4, <2>5 DEF DeletePart, TypeOK, Parts
<1>24. CASE PartsDeleted
  BY <1>24 DEF PartsDeleted, TypeOK, ScanInv, Repairing
<1>25. CASE RewriteRun
  <2>1. mend \in Runs /\ mend \notin short BY <1>25 DEF RewriteRun, TypeOK, ScanInv, Repairing
  <2>2. Append(curated[mend], 1..rows[mend]) \in Parts
    <3>1. rows[mend] \in 0..MaxRows BY <2>1 DEF TypeOK
    <3>2. 1..rows[mend] \subseteq RowNumbers BY <3>1, RowsNat DEF RowNumbers
    <3> QED BY <2>1, <3>2, PartsGrow DEF TypeOK, Parts
  <2>3. /\ curated' \in [Runs -> Parts]
        /\ \A r \in Runs \ {mend} : curated'[r] = curated[r]
    BY <1>25, <2>1, <2>2 DEF RewriteRun, TypeOK, Parts
  <2>4. ScanInv' BY <1>25, <2>1, <2>3 DEF RewriteRun, ScanInv, Repairing, TypeOK
  <2> QED BY <1>25, <2>1, <2>3, <2>4 DEF RewriteRun, TypeOK, Parts
<1>26. CASE SyncRewritten BY <1>26 DEF SyncRewritten, TypeOK, ScanInv, Repairing
<1>27. CASE AppendRepaired
  <2>1. mend \in Runs /\ rows[mend] \in 0..MaxRows /\ 0 \in 0..MaxRows
    BY <1>27, RowsNat DEF AppendRepaired, TypeOK
  <2>2. promoted' \in [Runs -> {Absent} \cup 0..MaxRows] /\ removed' \subseteq Runs
    BY <1>27, <2>1 DEF AppendRepaired, TypeOK
  <2>3. ScanInv' BY <1>27 DEF AppendRepaired, ScanInv, Repairing
  <2> QED BY <1>27, <2>2, <2>3 DEF AppendRepaired, TypeOK
<1>28. CASE EndRepair BY <1>28 DEF EndRepair, TypeOK, ScanInv, Repairing
<1>29. CASE RepairFails
  <2>1. faults' \in 0..MaxFaults BY <1>29, PassAssumption DEF RepairFails, TypeOK
  <2>2. ScanInv' BY <1>29 DEF RepairFails, ScanInv, Repairing
  <2> QED BY <1>29, <2>1, <2>2 DEF RepairFails, TypeOK
<1>30. ASSUME lateFaults' = [r \in Runs |-> lateFaults[r] + IF r \in Unindexed THEN 1 ELSE 0]
       PROVE  lateFaults' \in [Runs -> Nat]
  BY <1>30 DEF TypeOK
<1>31. CASE CrashPass
  BY <1>a, <1>e, <1>z, <1>30, <1>31, PassAssumption DEF CrashPass, PassDies, TypeOK
<1>32. CASE CrashRepair
  BY <1>32, PassAssumption DEF CrashRepair, RepairDies, TypeOK, ScanInv, Repairing
<1>33. ASSUME NEW kept \in [Runs -> 0..MaxRows], NEW torn \in SUBSET Runs, NEW lost \in SUBSET Runs,
              PowerLoss(kept, torn, lost)
       PROVE  Typed'
  <2>1. curated' \in [Runs -> Parts] BY <1>33, PartsFront DEF PowerLoss, TypeOK, Parts
  <2>2. ScanInv' BY <1>33 DEF PowerLoss, RepairDies, ScanInv, Repairing
  <2>3. segment' \in [Runs -> {"future", "open", "closed"}] BY <1>33 DEF PowerLoss, TypeOK
  <2>4. tornTail' \subseteq Runs /\ faults' \in 0..MaxFaults
    BY <1>33, PassAssumption DEF PowerLoss, TypeOK
  <2> QED
    BY <1>e, <1>z, <1>30, <1>33, <2>1, <2>2, <2>3, <2>4 DEF PowerLoss, PassDies, RepairDies, TypeOK, Parts
<1>34. CASE UNCHANGED vars BY <1>34 DEF vars, TypeOK, ScanInv
<1> QED
  BY <1>1, <1>2, <1>3, <1>4, <1>5, <1>6, <1>7, <1>8, <1>9, <1>10, <1>11, <1>12, <1>13, <1>14,
     <1>15, <1>16, <1>17, <1>18, <1>19, <1>20, <1>21, <1>22, <1>23, <1>24, <1>25, <1>26, <1>27,
     <1>28, <1>29, <1>31, <1>32, <1>33, <1>34, <1>35
  DEF Next, Collector, PassStep, Operator, Fault

\* The state of a lane's curation is well formed in every behaviour.
THEOREM CurationTypeCorrect == Spec => []TypeOK
<1>1. Init => Typed BY InitTyped
<1>2. Typed /\ [Next]_vars => Typed' BY StepTyped
<1>3. Typed => TypeOK BY DEF Typed
<1> QED BY <1>1, <1>2, <1>3, PTL DEF Spec
-----------------------------------------------------------------------------
(* The promoter and the repair.                                             *)

\* A promotion knows every run the index has, and promotes another; a repair
\* works on runs the index has.  No index row goes away.
PassInv ==
    /\ pos # "visit" => job = "promote" /\ promoted[cur] = Absent
    /\ job = "promote" => accounted = IndexedPromoted
    /\ short \subseteq IndexedPromoted
    /\ repair \in Repairing => mend \in IndexedPromoted

Apart == Typed /\ PassInv

LEMMA InitPass == Init => PassInv
BY DEF Init, PassInv, Repairing

LEMMA StepPass == Apart /\ [Next]_vars => PassInv'
<1> SUFFICES ASSUME Apart, [Next]_vars PROVE PassInv'
  OBVIOUS
<1> USE DEF Apart, Typed
<1>a. ASSUME UNCHANGED <<pos, cur, promoted, job, accounted, repair, short, mend>> PROVE PassInv'
  BY <1>a DEF PassInv, IndexedPromoted
<1>p. 0..MaxRows \subseteq Nat /\ Absent \notin Nat BY RowsNat DEF Absent
<1>1. CASE Collector
  BY <1>a, <1>1 DEF Collector, OpenSegment, WriteRow, KillSegment, GrowOlder, CloseSegment, LastRow
<1>2. CASE Starts
  <2>1. /\ pos' = "visit" /\ UNCHANGED <<promoted, repair, short, mend>>
    BY <1>2 DEF Starts, StartScore, StartQuarantine, StartPromote, StartBackstop, StartPass
  <2>2. job' = "promote" => accounted' = IndexedPromoted
    BY <1>2 DEF Starts, StartScore, StartQuarantine, StartPromote, StartBackstop, StartPass
  <2> QED BY <2>1, <2>2 DEF PassInv, IndexedPromoted
<1>3. ASSUME NEW r \in Runs,
             \/ SkipScoring(r) \/ QuarantineRun(r) \/ SkipPromotion(r)
             \/ \E v \in Verdicts : ScoreRun(r, v) \/ Rescore(r, v)
      PROVE  PassInv'
  BY <1>a, <1>3 DEF SkipScoring, QuarantineRun, SkipPromotion, ScoreRun, Rescore
<1>4. ASSUME NEW r \in Runs, BufferRun(r) PROVE PassInv'
  <2>1. promoted[r] = Absent
    BY <1>4 DEF BufferRun, MayPromote, Visits, PassInv, IndexedPromoted
  <2> QED BY <1>4, <2>1 DEF BufferRun, Visits, PassInv, IndexedPromoted
<1>5. ASSUME NEW n, BufferFails(n) PROVE PassInv'
  BY <1>5 DEF BufferFails, PassInv, IndexedPromoted
<1>6. CASE FillBuffer \/ Flush \/ SyncParts
  <2>1. pos # "visit" /\ UNCHANGED <<cur, promoted, job, accounted, repair, short, mend>>
    BY <1>6 DEF FillBuffer, Flush, SyncParts
  <2> QED BY <2>1 DEF PassInv, IndexedPromoted
<1>7. CASE AppendPromoted
  <2>1. /\ pos = "durable" /\ pos' = "visit" /\ accounted' = accounted \cup {cur}
        /\ promoted' = [promoted EXCEPT ![cur] = passed]
        /\ UNCHANGED <<job, repair, short, mend>>
    BY <1>7 DEF AppendPromoted
  <2>2. cur \in Runs /\ passed # Absent BY <1>p, <2>1 DEF TypeOK
  <2>3. IndexedPromoted' = IndexedPromoted \cup {cur}
    BY <2>1, <2>2 DEF IndexedPromoted, TypeOK
  <2> QED BY <2>1, <2>3 DEF PassInv
<1>8. ASSUME NEW written, PromotionFails(written) PROVE PassInv'
  BY <1>8 DEF PromotionFails, PassInv, IndexedPromoted
<1>9. CASE EndPass BY <1>9 DEF EndPass, PassInv, IndexedPromoted
<1>10. CASE StartRepair
  <2>1. \A r \in short' : r \in IndexedPromoted
    BY <1>10 DEF StartRepair, NeedsRepair, IndexedPromoted
  <2> QED BY <1>10, <2>1 DEF StartRepair, PassInv, IndexedPromoted, Repairing
<1>11. CASE ScanDataset BY <1>11 DEF ScanDataset, PassInv, IndexedPromoted, Repairing
<1>12. ASSUME NEW r \in Runs, SkipShort(r) \/ RepairRun(r) PROVE PassInv'
  BY <1>12 DEF SkipShort, RepairRun, NextShort, PassInv, IndexedPromoted, Repairing
<1>13. CASE DeletePart \/ PartsDeleted \/ RewriteRun \/ SyncRewritten
  <2>1. repair \in Repairing /\ UNCHANGED <<pos, cur, promoted, job, accounted, short, mend>>
    BY <1>13 DEF DeletePart, PartsDeleted, RewriteRun, SyncRewritten, Repairing
  <2> QED BY <2>1 DEF PassInv, IndexedPromoted
<1>14. CASE AppendRepaired
  <2>1. /\ repair = "index" /\ repair' = "check"
        /\ promoted' \in {[promoted EXCEPT ![mend] = rows[mend]], [promoted EXCEPT ![mend] = 0]}
        /\ UNCHANGED <<pos, cur, job, accounted, short, mend>>
    BY <1>14 DEF AppendRepaired
  <2>2. mend \in IndexedPromoted /\ mend \in Runs BY <2>1 DEF PassInv, TypeOK, Repairing
  <2>3. rows[mend] # Absent /\ 0 # Absent BY <1>p, <2>2 DEF TypeOK
  <2>4. IndexedPromoted' = IndexedPromoted
    BY <2>1, <2>2, <2>3 DEF IndexedPromoted, TypeOK
  <2>5. pos # "visit" => cur # mend /\ cur \in Runs
    BY <2>2 DEF PassInv, TypeOK, IndexedPromoted
  <2>6. pos # "visit" => promoted'[cur] = Absent
    BY <2>1, <2>2, <2>5 DEF PassInv, TypeOK
  <2> QED BY <2>1, <2>4, <2>6 DEF PassInv, Repairing
<1>15. CASE EndRepair \/ RepairFails \/ CrashRepair
  <2>1. /\ UNCHANGED <<pos, cur, promoted, job, accounted, mend>>
        /\ short' \subseteq short /\ repair' \notin Repairing
    BY <1>15 DEF EndRepair, RepairFails, CrashRepair, RepairDies, Repairing
  <2> QED BY <2>1 DEF PassInv, IndexedPromoted
<1>16. CASE CrashPass BY <1>16 DEF CrashPass, PassDies, PassInv, IndexedPromoted
<1>17. ASSUME NEW kept, NEW torn, NEW lost, PowerLoss(kept, torn, lost) PROVE PassInv'
  BY <1>17 DEF PowerLoss, PassDies, RepairDies, PassInv, IndexedPromoted, Repairing
<1>18. CASE UNCHANGED vars BY <1>a, <1>18 DEF vars
<1> QED
  BY <1>1, <1>2, <1>3, <1>4, <1>5, <1>6, <1>7, <1>8, <1>9, <1>10, <1>11, <1>12, <1>13, <1>14,
     <1>15, <1>16, <1>17, <1>18
  DEF Next, PassStep, Operator, Fault

LEMMA ApartKept == Apart /\ [Next]_vars => Apart'
BY StepTyped, StepPass DEF Apart

\* The promoter and the repair never write the same run, whatever their
\* interleaving and whatever fails (repromote.py, 43-44).
THEOREM WritersNeverMeet == Spec => []WritersApart
<1>1. Init => Apart BY InitTyped, InitPass DEF Apart
<1>2. Apart /\ [Next]_vars => Apart' BY ApartKept
<1>3. Apart => WritersApart
  BY DEF Apart, PassInv, WritersApart, Repairing, IndexedPromoted
<1> QED BY <1>1, <1>2, <1>3, PTL DEF Spec
-----------------------------------------------------------------------------
(* A watched lane: a segment ends before the backfill may score it.         *)

Watched == Watchdog /\ 0 < SegmentAge /\ SegmentAge <= Floor

\* What is scored, or will be, is closed, and a replayable run has rows.
LifeInv ==
    /\ \A r \in Legacy : segment[r] = "closed"
    /\ \A r \in Runs : segment[r] = "future" => age[r] = 0
    /\ \A r \in Runs : segment[r] = "open" => age[r] < SegmentAge
    /\ \A r \in Runs : verdict[r] # "none" => segment[r] = "closed"
    /\ \A r \in Runs : verdict[r] = "replayable" => rows[r] > 0
    /\ job \in {"score", "backstop"} => \A r \in todo : segment[r] = "closed"

Lived == Apart /\ Watched /\ LifeInv

LEMMA InitLife == Watched /\ Init => LifeInv
BY RowsNat, RunsAssumption DEF Watched, Init, LifeInv

\* What a job that scores or that closes the books has to visit is closed.
LEMMA VisitsClosed ==
    ASSUME Lived
    PROVE  \A r \in Ripe \cup Stuck : segment[r] = "closed"
<1> SUFFICES ASSUME NEW r \in Ripe \cup Stuck PROVE segment[r] = "closed"
  OBVIOUS
<1>1. r \in Runs /\ segment[r] \in {"open", "closed"}
  BY DEF Lived, Apart, Typed, TypeOK, Ripe, InWindow, Recent, Stuck, Captured
<1>2. age[r] >= SegmentAge /\ age[r] \in Int
  <2>1. age[r] \in Int BY <1>1, AgeAssumption DEF Lived, Apart, Typed, TypeOK
  <2>2. r \in Ripe => age[r] >= Floor BY DEF Ripe
  <2>3. r \in Stuck => age[r] >= BackstopAge BY DEF Stuck
  <2> QED BY <2>1, <2>2, <2>3, AgeAssumption DEF Lived, Watched
<1> QED BY <1>1, <1>2, AgeAssumption DEF Lived, LifeInv

LEMMA StepLife == Lived /\ [Next]_vars => LifeInv'
<1> SUFFICES ASSUME Lived, [Next]_vars PROVE LifeInv'
  OBVIOUS
<1> USE DEF Lived, Apart, Typed
<1>t. /\ \A r \in Runs : rows[r] \in Nat /\ age[r] \in Nat
      /\ segment \in [Runs -> {"future", "open", "closed"}]
      /\ verdict \in [Runs -> Verdicts] /\ todo \subseteq Runs /\ SegmentAge \in Nat
  BY RowsNat, AgeAssumption DEF TypeOK
<1>l. Legacy \subseteq Runs BY RunsAssumption
<1>a. ASSUME UNCHANGED <<segment, age, rows, verdict>>,
             (job' = job /\ todo' \subseteq todo) \/ job' \notin {"score", "backstop"}
      PROVE  LifeInv'
  BY <1>a, <1>t DEF LifeInv
\* A verdict on a run that is, or is now, closed.
<1>v. ASSUME NEW r \in Runs, NEW v \in Verdicts, ScoreAs(r, rows'[r], v),
             segment' \in {segment, [segment EXCEPT ![r] = "closed"]}, segment'[r] = "closed",
             \A s \in Runs \ {r} : rows'[s] = rows[s], age' = age, job' = job, todo' \subseteq todo
      PROVE  LifeInv'
  <2>1. /\ \A s \in Runs \ {r} : verdict'[s] = verdict[s] /\ segment'[s] = segment[s]
        /\ verdict'[r] = "replayable" => rows'[r] > 0
    BY <1>v, <1>t DEF ScoreAs
  <2> QED BY <1>v, <1>t, <1>l, <2>1 DEF LifeInv
<1>1. ASSUME NEW r \in Runs, OpenSegment(r) PROVE LifeInv'
  <2>1. /\ segment[r] = "future" /\ segment' = [segment EXCEPT ![r] = "open"]
        /\ UNCHANGED <<age, rows, verdict, job, todo>>
    BY <1>1 DEF OpenSegment
  <2>2. age[r] < SegmentAge BY <2>1 DEF LifeInv, Watched
  <2> QED BY <1>t, <1>l, <2>1, <2>2 DEF LifeInv
<1>2. ASSUME NEW r \in Runs, WriteRow(r) PROVE LifeInv'
  <2>1. /\ segment[r] = "open" /\ rows' = [rows EXCEPT ![r] = @ + 1]
        /\ UNCHANGED <<segment, age, verdict, job, todo>>
    BY <1>2 DEF WriteRow
  <2>2. rows \in [Runs -> 0..MaxRows] BY DEF TypeOK
  <2>3. \A s \in Runs : rows'[s] >= rows[s] BY <1>t, <2>1, <2>2
  <2>4. \A s \in Runs : rows'[s] \in Nat BY <1>t, <2>1, <2>2
  <2> QED BY <1>t, <2>1, <2>3, <2>4 DEF LifeInv
<1>3. ASSUME NEW r \in Runs, KillSegment(r) PROVE LifeInv'
  <2>1. /\ segment' = [segment EXCEPT ![r] = "closed"]
        /\ UNCHANGED <<age, rows, verdict, job, todo>>
    BY <1>3 DEF KillSegment
  <2> QED BY <1>t, <1>l, <2>1 DEF LifeInv
<1>4. ASSUME NEW r \in Runs, GrowOlder(r) PROVE LifeInv'
  <2>1. /\ segment[r] # "future" /\ (segment[r] = "open" => age[r] + 1 < SegmentAge)
        /\ age' = [age EXCEPT ![r] = @ + 1]
        /\ UNCHANGED <<segment, rows, verdict, job, todo>>
    BY <1>4 DEF GrowOlder, Watched
  <2>2. age \in [Runs -> 0..MaxAge] BY DEF TypeOK
  <2> QED BY <1>t, <1>l, <2>1, <2>2 DEF LifeInv
<1>5. ASSUME NEW r \in Runs, NEW v \in Verdicts \ {"none"}, CloseSegment(r, v) PROVE LifeInv'
  BY <1>v, <1>t, <1>5 DEF CloseSegment
<1>6. ASSUME NEW r \in Runs, NEW v \in Verdicts \ {"none"}, LastRow(r, v) PROVE LifeInv'
  BY <1>t, <1>l, <1>6 DEF LastRow, LifeInv
<1>7. CASE Starts
  <2>1. UNCHANGED <<segment, age, rows, verdict>>
    BY <1>7 DEF Starts, StartScore, StartQuarantine, StartPromote, StartBackstop, StartPass
  <2>2. job' \in {"score", "backstop"} => todo' \subseteq Ripe \cup Stuck
    BY <1>7 DEF Starts, StartScore, StartQuarantine, StartPromote, StartBackstop, StartPass
  <2> QED BY <2>1, <2>2, VisitsClosed DEF LifeInv
<1>8. ASSUME NEW r \in Runs, NEW v \in Verdicts \ {"none"}, ScoreRun(r, v) PROVE LifeInv'
  <2>1. segment[r] = "closed" BY <1>8 DEF ScoreRun, Visits, LifeInv
  <2> QED BY <1>v, <1>8, <2>1 DEF ScoreRun, Visited
<1>9. ASSUME NEW r \in Runs,
             SkipScoring(r) \/ SkipPromotion(r) \/ QuarantineRun(r) \/ BufferRun(r)
      PROVE  LifeInv'
  BY <1>a, <1>9 DEF SkipScoring, SkipPromotion, QuarantineRun, BufferRun, Visited
<1>10. CASE \/ FillBuffer \/ Flush \/ SyncParts \/ AppendPromoted
            \/ \E n \in 0..(MaxRows - 1) : BufferFails(n)
            \/ \E written \in BOOLEAN : PromotionFails(written)
  BY <1>a, <1>10 DEF FillBuffer, Flush, SyncParts, AppendPromoted, BufferFails, PromotionFails
<1>11. CASE EndPass \/ CrashPass
  BY <1>a, <1>11 DEF EndPass, CrashPass, PassDies
<1>12. ASSUME NEW r \in Runs, NEW v \in Verdicts \ {"none"}, Rescore(r, v) PROVE LifeInv'
  <2>1. segment[r] = "closed" BY <1>12 DEF Rescore, LifeInv
  <2> QED BY <1>v, <1>12, <2>1 DEF Rescore
<1>13. CASE \/ StartRepair \/ ScanDataset \/ DeletePart \/ PartsDeleted \/ RewriteRun
            \/ SyncRewritten \/ AppendRepaired \/ EndRepair \/ RepairFails \/ CrashRepair
            \/ \E r \in Runs : SkipShort(r) \/ RepairRun(r)
  BY <1>a, <1>13
  DEF StartRepair, ScanDataset, DeletePart, PartsDeleted, RewriteRun, SyncRewritten,
      AppendRepaired, EndRepair, RepairFails, CrashRepair, SkipShort, RepairRun
<1>14. ASSUME NEW kept \in [Runs -> 0..MaxRows], NEW torn, NEW lost, PowerLoss(kept, torn, lost)
       PROVE  LifeInv'
  <2>1. /\ \A r \in Runs : rows'[r] = rows[r] \/ segment[r] = "open"
        /\ \A r \in Runs : segment'[r] = IF segment[r] = "open" THEN "closed" ELSE segment[r]
        /\ age' = age /\ verdict' = verdict /\ job' = "none"
    BY <1>14 DEF PowerLoss, PassDies
  <2> QED BY <1>t, <1>l, <2>1 DEF LifeInv
<1>15. CASE UNCHANGED vars BY <1>a, <1>15 DEF vars
<1> QED
  BY <1>1, <1>2, <1>3, <1>4, <1>5, <1>6, <1>7, <1>8, <1>9, <1>10, <1>11, <1>12, <1>13, <1>14, <1>15
  DEF Next, Collector, PassStep, Operator, Fault

LEMMA LivedKept == Lived /\ [Next]_vars => Lived'
<1>1. Watched => Watched' BY DEF Watched
<1> QED BY <1>1, ApartKept, StepLife DEF Lived
-----------------------------------------------------------------------------
(* The two indexes.                                                         *)

\* A promoted run is replayable, promoted whole and not quarantined; what the
\* promotion is at work on is on the way there; the repair has legacy runs only.
IndexInv ==
    /\ \A r \in New : promoted[r] # Absent =>
          verdict[r] = "replayable" /\ promoted[r] = rows[r] /\ r \notin quarantined
    /\ Legacy \subseteq IndexedPromoted
    /\ \A r \in quarantined : segment[r] = "closed"
    /\ short \subseteq Legacy /\ (repair \in Repairing => mend \in Legacy)
    /\ job = "promote" => shunned = quarantined
    /\ job = "backstop" => IndexedPromoted \subseteq accounted
    /\ pos # "visit" =>
          verdict[cur] = "replayable" /\ passed = rows[cur] /\ cur \notin quarantined

Indexed == Lived /\ IndexInv

LEMMA InitIndex == Init => IndexInv
BY RunsAssumption DEF Init, IndexInv, IndexedPromoted, New, Repairing, Absent

LEMMA IndexTypes ==
    ASSUME Indexed
    PROVE  /\ rows \in [Runs -> Nat] /\ promoted \in [Runs -> {Absent} \cup Nat] /\ Absent \notin Nat
           /\ New \subseteq Runs /\ New \cap Legacy = {} /\ New \cup Legacy = Runs
           /\ pos # "visit" => cur \in New
           /\ \A r \in Runs : verdict[r] = "replayable" => segment[r] = "closed"
           /\ quarantined \subseteq Runs
           /\ segment \in [Runs -> {"future", "open", "closed"}] /\ verdict \in [Runs -> Verdicts]
<1> USE DEF Indexed, Lived, Apart, Typed
<1>1. rows \in [Runs -> Nat] BY RowsNat DEF TypeOK
<1>2. promoted \in [Runs -> {Absent} \cup Nat]
  <2>1. promoted \in [Runs -> {Absent} \cup 0..MaxRows] BY DEF TypeOK
  <2>2. {Absent} \cup 0..MaxRows \subseteq {Absent} \cup Nat BY RowsNat
  <2> QED BY <2>1, <2>2
<1>3. New \subseteq Runs /\ New \cap Legacy = {} /\ New \cup Legacy = Runs
  BY RunsAssumption DEF New
<1>4. pos # "visit" => cur \in New BY <1>3 DEF TypeOK, PassInv, IndexInv, IndexedPromoted
<1>5. Absent \notin Nat BY DEF Absent
<1>6. \A r \in Runs : verdict[r] = "replayable" => segment[r] = "closed" BY DEF LifeInv
<1> QED BY <1>1, <1>2, <1>3, <1>4, <1>5, <1>6 DEF TypeOK

LEMMA StepIndex == Indexed /\ [Next]_vars => IndexInv'
<1> SUFFICES ASSUME Indexed, [Next]_vars PROVE IndexInv'
  OBVIOUS
<1>t. Indexed OBVIOUS
<1> USE DEF Indexed
\* Nothing that closed or scored runs are about changes.
<1>a. ASSUME \A r \in Runs : segment[r] = "closed" => segment'[r] = "closed" /\ rows'[r] = rows[r],
             \A r \in New : verdict[r] = "replayable" => verdict'[r] = "replayable",
             UNCHANGED <<promoted, quarantined, repair, short, mend>>,
             \/ UNCHANGED <<job, accounted, shunned, pos, cur, passed>>
             \/ UNCHANGED <<job, accounted, shunned, cur, passed>> /\ pos' = "visit"
             \/ job' = "none" /\ pos' = "visit"
      PROVE  IndexInv'
  <2>1. \A r \in New : promoted'[r] # Absent =>
          verdict'[r] = "replayable" /\ promoted'[r] = rows'[r] /\ r \notin quarantined'
    BY <1>a, IndexTypes DEF IndexInv
  <2>2. \A r \in quarantined' : segment'[r] = "closed" BY <1>a, IndexTypes DEF IndexInv
  <2>3. pos' # "visit" =>
          verdict'[cur'] = "replayable" /\ passed' = rows'[cur'] /\ cur' \notin quarantined'
    BY <1>a, IndexTypes DEF IndexInv
  <2> QED BY <1>a, <2>1, <2>2, <2>3 DEF IndexInv, IndexedPromoted
<1>v. ASSUME NEW r \in Runs, NEW n, NEW v, ScoreAs(r, n, v), verdict[r] # "replayable" \/ r \notin New
      PROVE  \A s \in New : verdict[s] = "replayable" => verdict'[s] = "replayable"
  BY <1>v, IndexTypes DEF ScoreAs
<1>1. ASSUME NEW r \in Runs, OpenSegment(r) \/ WriteRow(r) \/ KillSegment(r) \/ GrowOlder(r)
      PROVE  IndexInv'
  BY <1>a, <1>1, IndexTypes DEF OpenSegment, WriteRow, KillSegment, GrowOlder
<1>2. ASSUME NEW r \in Runs, NEW v \in Verdicts \ {"none"}, CloseSegment(r, v) \/ LastRow(r, v)
      PROVE  IndexInv'
  <2>1. segment[r] = "open" /\ verdict[r] # "replayable"
    BY <1>2, IndexTypes DEF CloseSegment, LastRow
  <2>2. \A s \in New : verdict[s] = "replayable" => verdict'[s] = "replayable"
    BY <1>v, <1>2, <2>1 DEF CloseSegment, LastRow
  <2>3. \A s \in Runs : segment[s] = "closed" => segment'[s] = "closed" /\ rows'[s] = rows[s]
    BY <1>2, <2>1, IndexTypes DEF CloseSegment, LastRow
  <2> QED BY <1>a, <1>2, <2>2, <2>3 DEF CloseSegment, LastRow
<1>3. CASE Starts
  <2>1. /\ pos' = "visit"
        /\ UNCHANGED <<segment, rows, verdict, promoted, quarantined, repair, short, mend>>
    BY <1>3 DEF Starts, StartScore, StartQuarantine, StartPromote, StartBackstop, StartPass
  <2>2. /\ job' = "promote" => shunned' = quarantined
        /\ job' = "backstop" => IndexedPromoted \subseteq accounted'
    BY <1>3 DEF Starts, StartScore, StartQuarantine, StartPromote, StartBackstop, StartPass
  <2> QED BY <2>1, <2>2 DEF IndexInv, IndexedPromoted
<1>4. ASSUME NEW r \in Runs, NEW v \in Verdicts \ {"none"}, ScoreRun(r, v) PROVE IndexInv'
  BY <1>a, <1>v, <1>4 DEF ScoreRun
<1>5. ASSUME NEW r \in Runs, SkipScoring(r) \/ SkipPromotion(r) PROVE IndexInv'
  BY <1>a, <1>5 DEF SkipScoring, SkipPromotion
<1>6. ASSUME NEW r \in Runs, QuarantineRun(r) PROVE IndexInv'
  <2>1. /\ job \in {"quarantine", "backstop"} /\ pos = "visit" /\ r \in todo
        /\ quarantined' = IF MustQuarantine(r) THEN quarantined \cup {r} ELSE quarantined
        /\ UNCHANGED <<segment, rows, verdict, promoted, repair, short, mend, job, pos, cur,
                       passed, accounted, shunned>>
    BY <1>6 DEF QuarantineRun, Visits
  <2>2. MustQuarantine(r) => segment[r] = "closed" /\ (r \in New => promoted[r] = Absent)
    <3>1. CASE job = "backstop"
      <4>1. segment[r] = "closed" BY <2>1, <3>1 DEF Lived, LifeInv
      <4>2. r \notin accounted => promoted[r] = Absent BY <3>1 DEF IndexInv, IndexedPromoted
      <4> QED BY <4>1, <4>2 DEF MustQuarantine
    <3>2. CASE verdict[r] = "unreplayable"
      <4>1. segment[r] = "closed" BY <3>2 DEF Lived, LifeInv
      <4>2. r \in New => promoted[r] = Absent BY <3>2 DEF IndexInv
      <4> QED BY <4>1, <4>2
    <3> QED BY <3>1, <3>2 DEF MustQuarantine
  <2>3. \A s \in New : promoted'[s] # Absent =>
          verdict'[s] = "replayable" /\ promoted'[s] = rows'[s] /\ s \notin quarantined'
    BY <2>1, <2>2 DEF IndexInv
  <2>4. \A s \in quarantined' : segment'[s] = "closed" BY <2>1, <2>2 DEF IndexInv
  <2> QED BY <2>1, <2>3, <2>4 DEF IndexInv, IndexedPromoted
<1>7. ASSUME NEW r \in Runs, BufferRun(r) PROVE IndexInv'
  <2>1. /\ job = "promote" /\ verdict[r] = "replayable" /\ r \notin shunned
        /\ cur' = r /\ pos' = "reading" /\ passed' = rows[r]
        /\ UNCHANGED <<segment, rows, verdict, promoted, quarantined, repair, short, mend, job,
                       accounted, shunned>>
    BY <1>7 DEF BufferRun, Visits, MayPromote
  <2>2. r \notin quarantined BY <2>1 DEF IndexInv
  <2> QED BY <2>1, <2>2 DEF IndexInv, IndexedPromoted
<1>8. CASE FillBuffer \/ Flush \/ SyncParts
  <2>1. /\ pos # "visit"
        /\ UNCHANGED <<segment, rows, verdict, promoted, quarantined, repair, short, mend, job,
                       cur, passed, accounted, shunned>>
    BY <1>8 DEF FillBuffer, Flush, SyncParts
  <2> QED BY <2>1 DEF IndexInv, IndexedPromoted
<1>9. CASE AppendPromoted
  <2>1. /\ pos = "durable" /\ pos' = "visit" /\ accounted' = accounted \cup {cur}
        /\ promoted' = [promoted EXCEPT ![cur] = passed]
        /\ UNCHANGED <<segment, rows, verdict, quarantined, repair, short, mend, job, shunned>>
    BY <1>9 DEF AppendPromoted
  <2>2. cur \in New /\ cur \in Runs /\ verdict[cur] = "replayable" /\ passed = rows[cur]
        /\ cur \notin quarantined
    BY <2>1, IndexTypes DEF IndexInv
  <2>3. \A s \in New : promoted'[s] # Absent =>
          verdict'[s] = "replayable" /\ promoted'[s] = rows'[s] /\ s \notin quarantined'
    BY <2>1, <2>2, IndexTypes DEF IndexInv
  <2>4. IndexedPromoted' \subseteq IndexedPromoted \cup {cur} /\ Legacy \subseteq IndexedPromoted'
    BY <2>1, <2>2, IndexTypes DEF IndexInv, IndexedPromoted
  <2>5. job = "backstop" => IndexedPromoted' \subseteq accounted'
    BY <2>1, <2>4 DEF IndexInv
  <2> QED BY <2>1, <2>3, <2>4, <2>5 DEF IndexInv
<1>10. CASE \/ \E n \in 0..(MaxRows - 1) : BufferFails(n)
            \/ \E written \in BOOLEAN : PromotionFails(written)
  BY <1>a, <1>10 DEF BufferFails, PromotionFails
<1>11. CASE EndPass \/ CrashPass
  BY <1>a, <1>11 DEF EndPass, CrashPass, PassDies
<1>12. ASSUME NEW r \in Runs, NEW v \in Verdicts \ {"none"}, Rescore(r, v) PROVE IndexInv'
  <2>1. r \notin New BY <1>12 DEF Rescore, New
  <2> QED BY <1>a, <1>v, <1>12, <2>1 DEF Rescore
<1>13. CASE StartRepair
  <2>1. \A r \in Runs : NeedsRepair(r) => r \in Legacy
    <3> SUFFICES ASSUME NEW r \in New, NeedsRepair(r) PROVE FALSE
      BY IndexTypes
    <3>1. promoted[r] = rows[r] /\ rows[r] \in Nat /\ rows[r] > 0
      BY IndexTypes DEF NeedsRepair, IsShort, IndexInv
    <3>2. rows[r] * 100 < rows[r] * MinPercent BY <3>1 DEF NeedsRepair, IsShort
    <3>3. MinPercent \in Nat /\ MinPercent <= 100 BY RowsAssumption
    <3>4. rows[r] * MinPercent <= rows[r] * 100 BY <3>1, <3>3
    <3> QED BY <3>1, <3>2, <3>3, <3>4
  <2>2. /\ repair' = "select" /\ short' = {r \in Runs : NeedsRepair(r)}
        /\ UNCHANGED <<segment, rows, verdict, promoted, quarantined, job, accounted, shunned,
                       pos, cur, passed>>
    BY <1>13 DEF StartRepair
  <2> QED BY <2>1, <2>2 DEF IndexInv, IndexedPromoted, Repairing
<1>14. CASE \/ ScanDataset \/ DeletePart \/ PartsDeleted \/ RewriteRun \/ SyncRewritten
            \/ EndRepair \/ RepairFails \/ CrashRepair \/ \E r \in Runs : SkipShort(r)
  <2>1. /\ short' \subseteq short /\ mend' = mend /\ (repair' \in Repairing => repair \in Repairing)
        /\ UNCHANGED <<segment, rows, verdict, promoted, quarantined, job, accounted, shunned,
                       pos, cur, passed>>
    BY <1>14
    DEF ScanDataset, DeletePart, PartsDeleted, RewriteRun, SyncRewritten, EndRepair,
        RepairFails, CrashRepair, RepairDies, SkipShort, Repairing
  <2> QED BY <2>1 DEF IndexInv, IndexedPromoted
<1>15. ASSUME NEW r \in Runs, RepairRun(r) PROVE IndexInv'
  BY <1>15 DEF RepairRun, NextShort, IndexInv, IndexedPromoted
<1>16. CASE AppendRepaired
  <2>1. /\ repair = "index" /\ repair' = "check"
        /\ promoted' \in {[promoted EXCEPT ![mend] = rows[mend]], [promoted EXCEPT ![mend] = 0]}
        /\ UNCHANGED <<segment, rows, verdict, quarantined, short, mend, job, accounted, shunned,
                       pos, cur, passed>>
    BY <1>16 DEF AppendRepaired
  <2>2. mend \in Legacy /\ mend \in IndexedPromoted /\ mend \in Runs /\ mend \notin New
    BY <2>1 DEF Lived, Apart, Typed, TypeOK, PassInv, IndexInv, Repairing, New
  <2>3. \A s \in New : promoted'[s] = promoted[s] BY <2>1, <2>2, IndexTypes
  <2>4. promoted'[mend] # Absent BY <2>1, <2>2, IndexTypes
  <2>5. IndexedPromoted' = IndexedPromoted
    BY <2>1, <2>2, <2>4, IndexTypes DEF IndexedPromoted
  <2> QED BY <2>1, <2>3, <2>5 DEF IndexInv, Repairing
<1>17. ASSUME NEW kept \in [Runs -> 0..MaxRows], NEW torn, NEW lost, PowerLoss(kept, torn, lost)
       PROVE  IndexInv'
  <2>1. /\ \A r \in Runs : rows'[r] = rows[r] \/ segment[r] = "open"
        /\ \A r \in Runs : segment'[r] = IF segment[r] = "open" THEN "closed" ELSE segment[r]
        /\ UNCHANGED <<verdict, promoted, quarantined, mend>>
        /\ job' = "none" /\ pos' = "visit" /\ repair' = "idle" /\ short' = {}
    BY <1>17 DEF PowerLoss, PassDies, RepairDies
  <2>2. \A r \in New : promoted'[r] # Absent =>
          verdict'[r] = "replayable" /\ promoted'[r] = rows'[r] /\ r \notin quarantined'
    BY <2>1, IndexTypes DEF IndexInv
  <2>3. \A r \in quarantined' : segment'[r] = "closed" BY <2>1, IndexTypes DEF IndexInv
  <2> QED BY <2>1, <2>2, <2>3 DEF IndexInv, IndexedPromoted, Repairing
<1>18. CASE UNCHANGED vars BY <1>a, <1>18 DEF vars
<1> QED
  BY <1>1, <1>2, <1>3, <1>4, <1>5, <1>6, <1>7, <1>8, <1>9, <1>10, <1>11, <1>12, <1>13, <1>14,
     <1>15, <1>16, <1>17, <1>18
  DEF Next, Collector, PassStep, Operator, Fault
-----------------------------------------------------------------------------
(* Curation implements RunFate.                                             *)

\* A run of the indexes keeps its rows, and its fate is the one it got.
LEMMA FateOfIndexed ==
    ASSUME Indexed, NEW r \in New
    PROVE  /\ IndexFate(r) = "none" <=> promoted[r] = Absent /\ r \notin quarantined
           /\ IndexFate(r) # "none" => segment[r] = "closed"
BY IndexTypes DEF IndexFate, Indexed, IndexInv

\* No step changes the rows of a closed run.
LEMMA ClosedKeepsRows ==
    ASSUME Indexed, [Next]_vars, NEW r \in Runs, segment[r] = "closed"
    PROVE  rows'[r] = rows[r]
<1>1. CASE Collector
  BY <1>1, IndexTypes
  DEF Collector, OpenSegment, WriteRow, KillSegment, GrowOlder, CloseSegment, LastRow
<1>2. CASE Starts
  BY <1>2 DEF Starts, StartScore, StartQuarantine, StartPromote, StartBackstop, StartPass
<1>3. CASE PassStep
  BY <1>3
  DEF PassStep, SkipScoring, QuarantineRun, SkipPromotion, BufferRun, ScoreRun, FillBuffer, Flush,
      SyncParts, AppendPromoted, EndPass
<1>4. CASE Operator
  BY <1>4
  DEF Operator, SkipShort, RepairRun, Rescore, StartRepair, ScanDataset, DeletePart, PartsDeleted,
      RewriteRun, SyncRewritten, AppendRepaired, EndRepair
<1>5. CASE Fault
  BY <1>5 DEF Fault, BufferFails, PromotionFails, RepairFails, CrashPass, CrashRepair, PowerLoss
<1>6. CASE UNCHANGED vars BY <1>6 DEF vars
<1> QED BY <1>1, <1>2, <1>3, <1>4, <1>5, <1>6 DEF Next

\* A step decides the fate of one run, of which nothing was decided, or of none.
LEMMA FateStep ==
    ASSUME Indexed, [Next]_vars
    PROVE  \/ \A r \in New : IndexFate(r)' = IndexFate(r)
           \/ /\ rows' = rows
              /\ \E r \in New, f \in {"promoted", "quarantined"} :
                    /\ IndexFate(r) = "none" /\ IndexFate(r)' = f
                    /\ f = "promoted" => rows[r] > 0
                    /\ \A s \in New \ {r} : IndexFate(s)' = IndexFate(s)
<1>a. ASSUME \A r \in New : promoted'[r] = promoted[r], quarantined' = quarantined
      PROVE  \A r \in New : IndexFate(r)' = IndexFate(r)
  BY <1>a DEF IndexFate
<1>1. CASE Collector
  BY <1>a, <1>1 DEF Collector, OpenSegment, WriteRow, KillSegment, GrowOlder, CloseSegment, LastRow
<1>2. CASE Starts
  BY <1>a, <1>2 DEF Starts, StartScore, StartQuarantine, StartPromote, StartBackstop, StartPass
<1>3. ASSUME NEW q \in Runs, QuarantineRun(q)
      PROVE  \/ \A r \in New : IndexFate(r)' = IndexFate(r)
             \/ /\ rows' = rows
                /\ \E r \in New, f \in {"promoted", "quarantined"} :
                      /\ IndexFate(r) = "none" /\ IndexFate(r)' = f
                      /\ f = "promoted" => rows[r] > 0
                      /\ \A s \in New \ {r} : IndexFate(s)' = IndexFate(s)
  <2>1. /\ job = "backstop" \/ job = "quarantine"
        /\ quarantined' = IF MustQuarantine(q) THEN quarantined \cup {q} ELSE quarantined
        /\ UNCHANGED <<rows, promoted>>
    BY <1>3 DEF QuarantineRun, Visits
  <2>2. CASE ~MustQuarantine(q) \/ q \in quarantined \/ q \notin New
    <3>1. \A r \in New : promoted'[r] = promoted[r] /\ (r \in quarantined' <=> r \in quarantined)
      BY <2>1, <2>2
    <3> QED BY <3>1 DEF IndexFate
  <2>3. CASE MustQuarantine(q) /\ q \notin quarantined /\ q \in New
    <3>1. promoted[q] = Absent
      <4>1. job = "backstop" => promoted[q] = Absent
        BY <2>3 DEF MustQuarantine, Indexed, IndexInv, IndexedPromoted
      <4>2. verdict[q] = "unreplayable" => promoted[q] = Absent
        BY <2>3 DEF Indexed, IndexInv
      <4> QED BY <2>3, <4>1, <4>2 DEF MustQuarantine
    <3>2. IndexFate(q) = "none" /\ IndexFate(q)' = "quarantined"
      BY <2>1, <2>3, <3>1 DEF IndexFate
    <3>3. \A s \in New \ {q} : IndexFate(s)' = IndexFate(s) BY <2>1, <2>3 DEF IndexFate
    <3> QED BY <2>1, <2>3, <3>2, <3>3
  <2> QED BY <2>2, <2>3
<1>4. CASE AppendPromoted
  <2>1. /\ pos = "durable" /\ promoted' = [promoted EXCEPT ![cur] = passed]
        /\ UNCHANGED <<rows, quarantined>>
    BY <1>4 DEF AppendPromoted
  <2>2. /\ cur \in New /\ cur \in Runs /\ passed = rows[cur] /\ rows[cur] > 0
        /\ cur \notin quarantined /\ promoted[cur] = Absent
    BY <2>1, IndexTypes DEF Indexed, IndexInv, Lived, LifeInv, Apart, PassInv
  <2>3. PICK r \in New : r = cur BY <2>2
  <2>4. promoted'[r] = passed /\ passed # Absent BY <2>1, <2>2, <2>3, IndexTypes
  <2>5. IndexFate(r) = "none" /\ IndexFate(r)' = "promoted"
    BY <2>1, <2>2, <2>3, <2>4 DEF IndexFate
  <2>6. \A s \in New \ {r} : promoted'[s] = promoted[s] BY <2>1, <2>3, IndexTypes
  <2>7. \A s \in New \ {r} : IndexFate(s)' = IndexFate(s) BY <2>1, <2>6 DEF IndexFate
  <2> QED BY <2>1, <2>2, <2>3, <2>5, <2>7
<1>5. CASE \/ FillBuffer \/ Flush \/ SyncParts \/ EndPass
           \/ \E r \in Runs : \/ SkipScoring(r) \/ SkipPromotion(r) \/ BufferRun(r)
                              \/ \E v \in Verdicts \ {"none"} : ScoreRun(r, v)
  BY <1>a, <1>5
  DEF FillBuffer, Flush, SyncParts, EndPass, SkipScoring, SkipPromotion, BufferRun, ScoreRun
<1>6. CASE AppendRepaired
  <2>1. /\ repair = "index" /\ quarantined' = quarantined
        /\ promoted' \in {[promoted EXCEPT ![mend] = rows[mend]], [promoted EXCEPT ![mend] = 0]}
    BY <1>6 DEF AppendRepaired
  <2>2. mend \notin New BY <2>1, IndexTypes DEF Indexed, IndexInv, Repairing
  <2>3. \A r \in New : promoted'[r] = promoted[r] BY <2>1, <2>2, IndexTypes
  <2> QED BY <1>a, <2>1, <2>3
<1>7. CASE \/ StartRepair \/ ScanDataset \/ DeletePart \/ PartsDeleted \/ RewriteRun
           \/ SyncRewritten \/ EndRepair
           \/ \E r \in Runs : \/ SkipShort(r) \/ RepairRun(r)
                              \/ \E v \in Verdicts \ {"none"} : Rescore(r, v)
  BY <1>a, <1>7
  DEF StartRepair, ScanDataset, DeletePart, PartsDeleted, RewriteRun, SyncRewritten, EndRepair,
      SkipShort, RepairRun, Rescore
<1>8. CASE Fault
  BY <1>a, <1>8
  DEF Fault, BufferFails, PromotionFails, RepairFails, CrashPass, CrashRepair, PowerLoss
<1>9. CASE UNCHANGED vars BY <1>a, <1>9 DEF vars
<1> QED BY <1>1, <1>2, <1>3, <1>4, <1>5, <1>6, <1>7, <1>8, <1>9 DEF Next, PassStep, Operator

LEMMA FateInit == Init => Fate!Init
BY RowsNat, RunsAssumption DEF Init, Fate!Init, IndexFate, New, Absent

LEMMA FateNext == Indexed /\ Indexed' /\ [Next]_vars => [Fate!Next]_(Fate!fateVars)
<1> SUFFICES ASSUME Indexed, Indexed', [Next]_vars PROVE Fate!Next \/ UNCHANGED Fate!fateVars
  OBVIOUS
<1> DEFINE captured == [r \in New |-> rows[r]]
           fate == [r \in New |-> IndexFate(r)]
<1>1. captured' \in [New -> 0..MaxRows]
  <2>1. rows' \in [Runs -> 0..MaxRows] BY DEF Indexed, Lived, Apart, Typed, TypeOK
  <2> QED BY <2>1, IndexTypes
<1>2. CASE \A r \in New : IndexFate(r)' = IndexFate(r)
  <2>1. fate' = fate BY <1>2
  <2>2. \A r \in New : fate[r] = "none" \/ captured'[r] = captured[r]
    BY FateOfIndexed, ClosedKeepsRows, IndexTypes
  <2> QED BY <1>1, <2>1, <2>2 DEF Fate!Next, Fate!Capture
<1>3. ASSUME NEW r \in New, NEW f \in {"promoted", "quarantined"}, rows' = rows,
             IndexFate(r) = "none", IndexFate(r)' = f, f = "promoted" => rows[r] > 0,
             \A s \in New \ {r} : IndexFate(s)' = IndexFate(s)
      PROVE  Fate!Next
  <2>1. captured' = captured BY <1>3
  <2>2. fate' = [fate EXCEPT ![r] = f] BY <1>3
  <2>3. Fate!Decide(r, f) BY <1>3, <2>1, <2>2 DEF Fate!Decide
  <2> QED BY <2>3 DEF Fate!Next, Fate!Fates
<1> QED BY <1>2, <1>3, FateStep

LEMMA IndexedKept == Indexed /\ [Next]_vars => Indexed'
BY LivedKept, StepIndex DEF Indexed

LEMMA IndexedInit == Watched /\ Init => Indexed
BY InitTyped, InitPass, InitLife, InitIndex DEF Indexed, Lived, Apart

\* On a watched lane the curation keeps the promise of RunFate: every run is
\* promoted with all of its rows or quarantined, once, and its fate is final.
THEOREM CurationImplementsRunFate == Watched /\ Spec => FateSpec
<1>1. Watched /\ Init => Indexed BY IndexedInit
<1>2. Indexed /\ [Next]_vars => Indexed' BY IndexedKept
<1>3. Init => Fate!Init BY FateInit
<1>4. Indexed /\ Indexed' /\ [Next]_vars => [Fate!Next]_(Fate!fateVars) BY FateNext
<1> QED BY <1>1, <1>2, <1>3, <1>4, PTL DEF Spec, FateSpec, Fate!Spec
-----------------------------------------------------------------------------
(* The curated dataset.                                                     *)

\* A row that the promotion at work has flushed, without an index row yet.
IsStored(r, n) == r = cur /\ n <= stored

\* The buffer holds the next rows of the run at work and nothing else; what is flushed is
\* in a part-file, and all of it is durable before the index names the run; each part-file
\* of a row but one has its fault.
DataInv ==
    /\ buffer = [r \in Runs |-> IF pos = "buffered" /\ r = cur THEN (stored + 1)..Filled ELSE {}]
    /\ pos = "visit" => stored = 0
    /\ pos = "durable" => stored = passed /\ cur \notin unsynced
    /\ \A n \in 1..stored : Copies(curated[cur], n) # {}
    /\ \A r \in New : promoted[r] # Absent =>
          r \notin unsynced /\ \A n \in 1..promoted[r] : Copies(curated[r], n) # {}
    /\ \A r \in New : \A n \in RowNumbers :
          Cardinality(Copies(curated[r], n))
             <= lateFaults[r] + IF promoted[r] # Absent \/ IsStored(r, n) THEN 1 ELSE 0

Kept == Indexed /\ DataInv

\* The part-files of a row are as many as a number, one more when a part is added that has
\* the row, and no more when the last part is lost.
LEMMA CopiesAre ==
    ASSUME NEW q \in Parts, NEW n
    PROVE  IsFiniteSet(Copies(q, n)) /\ Cardinality(Copies(q, n)) \in Nat
<1>1. Len(q) \in Nat /\ DOMAIN q = 1..Len(q) BY DEF Parts
<1>2. IsFiniteSet(1..Len(q)) BY <1>1, FS_Interval
<1>3. Copies(q, n) \subseteq 1..Len(q) BY <1>1 DEF Copies
<1>4. IsFiniteSet(Copies(q, n)) BY <1>2, <1>3, FS_Subset
<1> QED BY <1>4, FS_CardinalityType

LEMMA CopiesGrow ==
    ASSUME NEW q \in Parts, NEW s \in SUBSET RowNumbers, NEW n
    PROVE  /\ Copies(Append(q, s), n) = Copies(q, n) \cup (IF n \in s THEN {Len(q) + 1} ELSE {})
           /\ Cardinality(Copies(Append(q, s), n))
                = Cardinality(Copies(q, n)) + IF n \in s THEN 1 ELSE 0
<1>1. /\ Append(q, s) \in Parts /\ Len(q) \in Nat /\ Len(Append(q, s)) = Len(q) + 1
      /\ \A i \in 1..Len(q) : Append(q, s)[i] = q[i]
      /\ Append(q, s)[Len(q) + 1] = s
  BY PartsGrow
<1>2. DOMAIN q = 1..Len(q) /\ DOMAIN Append(q, s) = 1..(Len(q) + 1) BY <1>1 DEF Parts
<1>3. 1..(Len(q) + 1) = (1..Len(q)) \cup {Len(q) + 1} BY <1>1
<1>4. Copies(Append(q, s), n) = Copies(q, n) \cup (IF n \in s THEN {Len(q) + 1} ELSE {})
  BY <1>1, <1>2, <1>3 DEF Copies
<1>5. Len(q) + 1 \notin Copies(q, n) BY <1>1, <1>2 DEF Copies
<1>6. IsFiniteSet(Copies(q, n)) /\ Cardinality(Copies(q, n)) \in Nat BY CopiesAre
<1>7. Cardinality(Copies(q, n) \cup {Len(q) + 1}) = Cardinality(Copies(q, n)) + 1
  BY <1>5, <1>6, FS_AddElement
<1>8. CASE n \in s BY <1>4, <1>7, <1>8
<1>9. CASE n \notin s BY <1>4, <1>6, <1>9
<1> QED BY <1>4, <1>8, <1>9

LEMMA CopiesFront ==
    ASSUME NEW q \in Parts, NEW n
    PROVE  Cardinality(Copies(AllButLast(q), n)) <= Cardinality(Copies(q, n))
<1> DEFINE f == AllButLast(q)
<1>1. /\ f \in Parts /\ Len(f) \in Nat /\ Len(f) <= Len(q)
      /\ \A i \in 1..Len(f) : f[i] = q[i]
  BY PartsFront
<1>2. Len(q) \in Nat /\ DOMAIN q = 1..Len(q) /\ DOMAIN f = 1..Len(f) BY <1>1 DEF Parts
<1> HIDE DEF f
<1>3. Copies(f, n) \subseteq Copies(q, n) BY <1>1, <1>2 DEF Copies
<1>4. IsFiniteSet(Copies(q, n)) BY CopiesAre
<1>5. Cardinality(Copies(f, n)) <= Cardinality(Copies(q, n)) BY <1>3, <1>4, FS_Subset
<1> QED BY <1>5 DEF f

LEMMA InitData == Init => DataInv
<1> SUFFICES ASSUME Init PROVE DataInv
  OBVIOUS
<1>1. \A r \in New : r \in Runs /\ r \notin Legacy BY RunsAssumption DEF New
<1>2. \A r \in New : curated[r] = <<>> /\ promoted[r] = Absent /\ lateFaults[r] = 0
  BY <1>1 DEF Init
<1>3. \A n : Cardinality(Copies(<<>>, n)) = 0
  <2>1. \A n : Copies(<<>>, n) = {} BY DEF Copies
  <2> QED BY <2>1, FS_EmptySet
<1>4. stored = 0 /\ pos = "visit" /\ buffer = [r \in Runs |-> {}]
  BY DEF Init, EmptyBuffer
<1>5. \A n \in 1..stored : Copies(curated[cur], n) # {} BY <1>4
<1>6. \A r \in New : \A n \in RowNumbers :
          Cardinality(Copies(curated[r], n))
             <= lateFaults[r] + IF promoted[r] # Absent \/ IsStored(r, n) THEN 1 ELSE 0
  BY <1>2, <1>3
<1> QED BY <1>2, <1>4, <1>5, <1>6 DEF DataInv

LEMMA DataTypes ==
    ASSUME Kept
    PROVE  /\ \A r \in New : /\ curated[r] \in Parts /\ lateFaults[r] \in Nat
                             /\ r \in Runs /\ r \notin Legacy
                             /\ \A n : Cardinality(Copies(curated[r], n)) \in Nat
           /\ pos # "visit" => cur \in New /\ promoted[cur] = Absent
           /\ passed \in Nat /\ stored \in Nat /\ Filled \in Nat
           /\ stored <= Filled /\ Filled <= passed /\ passed <= MaxRows
           /\ repair \in Repairing => mend \in Legacy
           /\ curated \in [Runs -> Parts] /\ lateFaults \in [Runs -> Nat]
<1> USE DEF Kept
<1>t. TypeOK BY DEF Indexed, Lived, Apart, Typed
<1>1. \A r \in New : r \in Runs /\ r \notin Legacy BY IndexTypes
<1>2. curated \in [Runs -> Parts] /\ lateFaults \in [Runs -> Nat] BY <1>t DEF TypeOK, Parts
<1>3. pos # "visit" => cur \in New /\ promoted[cur] = Absent
  BY IndexTypes DEF Indexed, Lived, Apart, PassInv
<1>4. repair \in Repairing => mend \in Legacy BY DEF Indexed, IndexInv
<1>5. /\ passed \in Nat /\ stored \in Nat /\ Filled \in Nat
      /\ stored <= Filled /\ Filled <= passed /\ passed <= MaxRows
  <2>1. passed \in 0..MaxRows BY <1>t DEF TypeOK
  <2> QED BY <1>t, <2>1, NextBatch, RowsNat
<1>6. \A r \in New : \A n : Cardinality(Copies(curated[r], n)) \in Nat BY <1>1, <1>2, CopiesAre
<1> QED BY <1>1, <1>2, <1>3, <1>4, <1>5, <1>6

\* What a flush makes of the dataset: a part more of the run at work, with the next rows.
LEMMA FlushOfOne ==
    ASSUME Kept, pos = "buffered"
    PROVE  /\ Buffered \subseteq {cur}
           /\ \A r \in New : r # cur => Flushed[r] = curated[r]
           /\ \A n : /\ Copies(curated[cur], n) \subseteq Copies(Flushed[cur], n)
                     /\ n \in (stored + 1)..Filled => Copies(Flushed[cur], n) # {}
                     /\ Cardinality(Copies(Flushed[cur], n))
                           = Cardinality(Copies(curated[cur], n))
                             + IF n \in (stored + 1)..Filled THEN 1 ELSE 0
<1> DEFINE s == (stored + 1)..Filled
<1>1. cur \in Runs /\ cur \in New BY DataTypes
<1>2. \A r \in Runs : buffer[r] = IF r = cur THEN s ELSE {} BY DEF Kept, DataInv
<1>3. Buffered \subseteq {cur} BY <1>2 DEF Buffered
<1>4. \A r \in New : r # cur => Flushed[r] = curated[r] BY <1>3, DataTypes DEF Flushed
<1>5. Flushed[cur] = IF s # {} THEN Append(curated[cur], s) ELSE curated[cur]
  BY <1>1, <1>2 DEF Flushed, Buffered
<1>6. curated[cur] \in Parts /\ s \in SUBSET RowNumbers
  BY <1>1, DataTypes, NextBatch DEF Kept, Indexed, Lived, Apart, Typed
<1> HIDE DEF s
<1>7. \A n : /\ Copies(curated[cur], n) \subseteq Copies(Flushed[cur], n)
             /\ n \in s => Copies(Flushed[cur], n) # {}
             /\ Cardinality(Copies(Flushed[cur], n))
                   = Cardinality(Copies(curated[cur], n)) + IF n \in s THEN 1 ELSE 0
  <2>1. CASE s = {}
    <3>1. \A n : Cardinality(Copies(curated[cur], n)) \in Nat BY <1>6, CopiesAre
    <3>2. Flushed[cur] = curated[cur] /\ \A n : n \notin s BY <1>5, <2>1
    <3>3. \A n : Cardinality(Copies(curated[cur], n))
                   = Cardinality(Copies(curated[cur], n)) + IF n \in s THEN 1 ELSE 0
      <4> TAKE n
      <4> DEFINE c == Cardinality(Copies(curated[cur], n))
      <4>1. c \in Nat /\ n \notin s BY <3>1, <3>2
      <4> HIDE DEF c
      <4>2. c = c + IF n \in s THEN 1 ELSE 0 BY <4>1
      <4> QED BY <4>2 DEF c
    <3> QED BY <3>2, <3>3
  <2>2. CASE s # {}
    <3> TAKE n
    <3>1. Flushed[cur] = Append(curated[cur], s) BY <1>5, <2>2
    <3>2. Copies(Flushed[cur], n)
            = Copies(curated[cur], n) \cup (IF n \in s THEN {Len(curated[cur]) + 1} ELSE {})
      BY <1>6, <3>1, CopiesGrow
    <3>3. Cardinality(Copies(Flushed[cur], n))
            = Cardinality(Copies(curated[cur], n)) + IF n \in s THEN 1 ELSE 0
      BY <1>6, <3>1, CopiesGrow
    <3>4. n \in s => Len(curated[cur]) + 1 \in Copies(Flushed[cur], n) BY <3>2
    <3>5. Copies(curated[cur], n) \subseteq Copies(Flushed[cur], n) BY <3>2
    <3> QED BY <3>3, <3>4, <3>5
  <2> QED BY <2>1, <2>2
<1> QED BY <1>3, <1>4, <1>7 DEF s

\* With nothing read into the buffer a flush changes nothing.
LEMMA FlushOfNone ==
    ASSUME Kept, pos # "buffered"
    PROVE  Buffered = {} /\ Flushed = curated /\ buffer = EmptyBuffer
<1>1. \A r \in Runs : buffer[r] = {} BY DEF Kept, DataInv
<1>2. Buffered = {} BY <1>1 DEF Buffered
<1>3. Flushed = [r \in Runs |-> curated[r]] BY <1>2 DEF Flushed
<1> QED BY <1>2, <1>3, DataTypes DEF Kept, DataInv, EmptyBuffer

LEMMA StepData == Kept /\ [Next]_vars => DataInv'
<1> SUFFICES ASSUME Kept, [Next]_vars PROVE DataInv'
  OBVIOUS
<1> USE DEF Kept
<1>i. /\ \A n \in 1..stored : Copies(curated[cur], n) # {}
      /\ \A r \in New : promoted[r] # Absent =>
            r \notin unsynced /\ \A n \in 1..promoted[r] : Copies(curated[r], n) # {}
      /\ \A r \in New : \A n \in RowNumbers :
            Cardinality(Copies(curated[r], n))
               <= lateFaults[r] + IF promoted[r] # Absent \/ IsStored(r, n) THEN 1 ELSE 0
  BY DEF DataInv
<1>s. stored > 0 => cur \in New /\ promoted[cur] = Absent BY DataTypes DEF DataInv
\* Parts and index rows of new runs stay, and so does the run at work.
<1>a. ASSUME \A r \in New : curated'[r] = curated[r] /\ promoted'[r] = promoted[r],
             \A r \in New : r \in unsynced' => r \in unsynced,
             UNCHANGED <<buffer, pos, cur, passed, stored, lateFaults>>
      PROVE  DataInv'
  <2>1. pos' = "durable" => stored' = passed' /\ cur' \notin unsynced'
    BY <1>a, DataTypes DEF DataInv
  <2>2. \A n \in 1..stored' : Copies(curated'[cur'], n) # {}
    <3>1. CASE stored = 0 BY <1>a, <3>1
    <3>2. CASE stored > 0 BY <1>a, <1>i, <1>s, <3>2
    <3> QED BY <3>1, <3>2, DataTypes
  <2>3. \A r \in New : promoted'[r] # Absent =>
            r \notin unsynced' /\ \A n \in 1..promoted'[r] : Copies(curated'[r], n) # {}
    BY <1>a, <1>i
  <2>4. \A r \in New : \A n \in RowNumbers :
            Cardinality(Copies(curated'[r], n))
               <= lateFaults'[r] + IF promoted'[r] # Absent \/ IsStored(r, n)' THEN 1 ELSE 0
    BY <1>a, <1>i DEF IsStored
  <2>5. Filled' = Filled BY <1>a DEF Filled
  <2>6. /\ buffer' = [r \in Runs |-> IF pos' = "buffered" /\ r = cur' THEN (stored' + 1)..Filled'
                                    ELSE {}]
        /\ pos' = "visit" => stored' = 0
    BY <1>a, <2>5 DEF DataInv
  <2> QED BY <2>1, <2>2, <2>3, <2>4, <2>6 DEF DataInv
\* No run is at work any more; what was flushed of it is counted as a fault's.
<1>b. ASSUME pos' = "visit", stored' = 0, buffer' = EmptyBuffer, promoted' = promoted,
             \A r \in New : promoted[r] # Absent =>
                curated'[r] = curated[r] /\ (r \in unsynced' => r \in unsynced),
             \A r \in New : lateFaults'[r] \in Nat,
             \A r \in New : \A n \in RowNumbers :
                Cardinality(Copies(curated'[r], n))
                   <= lateFaults'[r] + IF promoted[r] # Absent THEN 1 ELSE 0
      PROVE  DataInv'
  <2>1. \A r \in New : promoted'[r] # Absent =>
            r \notin unsynced' /\ \A n \in 1..promoted'[r] : Copies(curated'[r], n) # {}
    BY <1>b, <1>i
  <2>2. \A r \in New : \A n \in RowNumbers : ~IsStored(r, n)'
    BY <1>b, RowsNat DEF IsStored, RowNumbers
  <2>3. \A r \in New : \A n \in RowNumbers :
            Cardinality(Copies(curated'[r], n))
               <= lateFaults'[r] + IF promoted'[r] # Absent \/ IsStored(r, n)' THEN 1 ELSE 0
    BY <1>b, <2>2
  <2>4. /\ buffer' = [r \in Runs |-> IF pos' = "buffered" /\ r = cur' THEN (stored' + 1)..Filled'
                                    ELSE {}]
        /\ \A n \in 1..stored' : Copies(curated'[cur'], n) # {}
    BY <1>b DEF EmptyBuffer
  <2> QED BY <1>b, <2>1, <2>3, <2>4 DEF DataInv
\* A fault leaves what is flushed of the run at work to the faults.
<1>f. \A r \in New : \A n \in RowNumbers :
        Cardinality(Copies(curated[r], n))
           <= lateFaults[r] + (IF r = cur /\ stored > 0 THEN 1 ELSE 0)
                            + (IF promoted[r] # Absent THEN 1 ELSE 0)
  <2>1. \A n \in RowNumbers : n \in Nat /\ n > 0 BY RowsNat DEF RowNumbers
  <2>2. \A r \in New : \A n \in RowNumbers : IsStored(r, n) => r = cur /\ stored > 0
    BY <2>1, DataTypes DEF IsStored
  <2> QED BY <1>i, <2>2, DataTypes
<1>1. CASE Collector
  BY <1>a, <1>1 DEF Collector, OpenSegment, WriteRow, KillSegment, GrowOlder, CloseSegment, LastRow
<1>2. CASE Starts
  <2>1. /\ job = "none" /\ pos' = "visit" /\ buffer' = EmptyBuffer
        /\ UNCHANGED <<cur, passed, stored, promoted, curated, unsynced, lateFaults>>
    BY <1>2 DEF Starts, StartScore, StartQuarantine, StartPromote, StartBackstop, StartPass
  <2>2. stored = 0 BY <2>1 DEF DataInv, Indexed, Lived, Apart, PassInv
  <2> QED BY <1>b, <1>f, <2>1, <2>2, DataTypes
<1>3. ASSUME NEW r \in Runs,
             \/ SkipScoring(r) \/ QuarantineRun(r) \/ SkipPromotion(r)
             \/ \E v \in Verdicts \ {"none"} : ScoreRun(r, v) \/ Rescore(r, v)
      PROVE  DataInv'
  BY <1>a, <1>3 DEF SkipScoring, QuarantineRun, SkipPromotion, ScoreRun, Rescore
<1>4. ASSUME NEW q \in Runs, BufferRun(q) PROVE DataInv'
  <2>1. /\ pos = "visit" /\ pos' = "reading" /\ stored' = 0
        /\ UNCHANGED <<promoted, curated, unsynced, lateFaults, buffer>>
    BY <1>4 DEF BufferRun, Visits
  <2>2. stored = 0 /\ \A n \in RowNumbers : n \in Nat /\ n > 0
    BY <2>1, RowsNat DEF DataInv, RowNumbers
  <2>3. \A r \in New : \A n \in RowNumbers : ~IsStored(r, n) /\ ~IsStored(r, n)'
    BY <2>1, <2>2 DEF IsStored
  <2>4. \A r \in New : \A n \in RowNumbers :
            Cardinality(Copies(curated'[r], n))
               <= lateFaults'[r] + IF promoted'[r] # Absent \/ IsStored(r, n)' THEN 1 ELSE 0
    BY <1>i, <2>1, <2>3
  <2>5. buffer' = [r \in Runs |-> IF pos' = "buffered" /\ r = cur' THEN (stored' + 1)..Filled'
                                  ELSE {}]
    BY <2>1 DEF DataInv
  <2>6. \A n \in 1..stored' : Copies(curated'[cur'], n) # {} BY <2>1
  <2> QED BY <1>i, <2>1, <2>4, <2>5, <2>6 DEF DataInv
<1>16. CASE FillBuffer
  <2>1. /\ pos = "reading" /\ pos' = "buffered"
        /\ buffer' = [buffer EXCEPT ![cur] = (stored + 1)..Filled]
        /\ UNCHANGED <<promoted, curated, unsynced, lateFaults, cur, passed, stored>>
    BY <1>16 DEF FillBuffer
  <2>2. buffer = [r \in Runs |-> {}] BY <2>1 DEF DataInv
  <2>3. Filled' = Filled BY <2>1 DEF Filled
  <2>4. buffer' = [r \in Runs |-> IF pos' = "buffered" /\ r = cur' THEN (stored' + 1)..Filled'
                                  ELSE {}]
    BY <2>1, <2>2, <2>3
  <2>5. \A r \in New : \A n \in RowNumbers :
            Cardinality(Copies(curated'[r], n))
               <= lateFaults'[r] + IF promoted'[r] # Absent \/ IsStored(r, n)' THEN 1 ELSE 0
    BY <1>i, <2>1 DEF IsStored
  <2> QED BY <1>i, <2>1, <2>4, <2>5 DEF DataInv
<1>5. ASSUME NEW n \in 0..(MaxRows - 1), BufferFails(n) PROVE DataInv'
  <2>1. /\ pos = "reading" /\ pos' = "visit" /\ stored' = 0 /\ buffer' = EmptyBuffer
        /\ lateFaults' = [lateFaults EXCEPT ![cur] = @ + IF stored > 0 THEN 1 ELSE 0]
        /\ UNCHANGED <<promoted, curated, unsynced>>
    BY <1>5 DEF BufferFails
  <2>2. \A r \in New : lateFaults'[r] = lateFaults[r] + IF r = cur /\ stored > 0 THEN 1 ELSE 0
    BY <2>1, DataTypes
  <2>3. \A r \in New : \A m \in RowNumbers :
            Cardinality(Copies(curated'[r], m))
               <= lateFaults'[r] + IF promoted[r] # Absent THEN 1 ELSE 0
    BY <1>f, <2>1, <2>2
  <2>4. \A r \in New : lateFaults'[r] \in Nat BY <2>2, DataTypes
  <2> QED BY <1>b, <2>1, <2>3, <2>4
<1>6. CASE Flush
  <2>1. /\ pos = "buffered" /\ pos' = "flushed" /\ buffer' = EmptyBuffer /\ stored' = Filled
        /\ curated' = Flushed /\ unsynced' = unsynced \cup Buffered
        /\ UNCHANGED <<cur, passed, promoted, lateFaults>>
    BY <1>6 DEF Flush
  <2>2. cur \in New /\ promoted[cur] = Absent BY <2>1, DataTypes
  <2>3. \A r \in New : r # cur => curated'[r] = curated[r] /\ (r \in unsynced' => r \in unsynced)
    BY <2>1, FlushOfOne
  <2>4. \A n \in 1..stored' : Copies(curated'[cur'], n) # {}
    <3> SUFFICES ASSUME NEW n \in 1..Filled PROVE Copies(Flushed[cur], n) # {}
      BY <2>1
    <3>1. n \in 1..stored \/ n \in (stored + 1)..Filled BY DataTypes
    <3> QED BY <1>i, <2>1, <3>1, FlushOfOne
  <2>5. \A r \in New : promoted'[r] # Absent =>
            r \notin unsynced' /\ \A n \in 1..promoted'[r] : Copies(curated'[r], n) # {}
    BY <1>i, <2>1, <2>2, <2>3
  <2>6. ASSUME NEW r \in New, NEW n \in RowNumbers
        PROVE  Cardinality(Copies(curated'[r], n))
                  <= lateFaults'[r] + IF promoted'[r] # Absent \/ IsStored(r, n)' THEN 1 ELSE 0
    <3>1. n \in Nat BY RowsNat DEF RowNumbers
    <3>2. CASE r # cur
      <4>1. ~IsStored(r, n) /\ ~IsStored(r, n)' BY <2>1, <3>2 DEF IsStored
      <4>2. curated'[r] = curated[r] BY <2>3, <3>2
      <4> QED BY <1>i, <2>1, <4>1, <4>2
    <3>3. CASE r = cur
      <4>1. Cardinality(Copies(curated'[r], n))
              = Cardinality(Copies(curated[r], n)) + IF n \in (stored + 1)..Filled THEN 1 ELSE 0
        BY <2>1, <3>3, FlushOfOne
      <4>2. Cardinality(Copies(curated[r], n)) <= lateFaults[r] + IF n <= stored THEN 1 ELSE 0
        <5>1. IsStored(r, n) <=> n <= stored BY <3>3 DEF IsStored
        <5> QED BY <1>i, <2>2, <3>3, <5>1
      <4>3. IsStored(r, n)' <=> n <= Filled BY <2>1, <3>3 DEF IsStored
      <4> HIDE DEF Kept
      <4>4. Cardinality(Copies(curated[r], n)) \in Nat /\ lateFaults[r] \in Nat
            /\ stored \in Nat /\ Filled \in Nat /\ stored <= Filled
        BY DataTypes DEF Kept
      <4>5. Cardinality(Copies(curated'[r], n)) <= lateFaults[r] + IF n <= Filled THEN 1 ELSE 0
        BY <3>1, <4>1, <4>2, <4>4
      <4> QED BY <2>1, <2>2, <3>3, <4>3, <4>5
    <3> QED BY <3>2, <3>3
  <2>7. buffer' = [r \in Runs |-> IF pos' = "buffered" /\ r = cur' THEN (stored' + 1)..Filled'
                                  ELSE {}]
    BY <2>1 DEF EmptyBuffer
  <2> QED BY <2>1, <2>4, <2>5, <2>6, <2>7 DEF DataInv
<1>7. CASE SyncParts
  <2>1. /\ pos = "flushed" /\ pos' = AfterFlush /\ unsynced' = unsynced \ {cur}
        /\ UNCHANGED <<cur, passed, stored, promoted, lateFaults, curated, buffer>>
    BY <1>7 DEF SyncParts
  <2>2. pos' \in {"reading", "durable"} /\ (pos' = "durable" => stored = passed)
    BY <2>1, DataTypes DEF AfterFlush
  <2>3. \A r \in New : promoted'[r] # Absent =>
            r \notin unsynced' /\ \A n \in 1..promoted'[r] : Copies(curated'[r], n) # {}
    BY <1>i, <2>1
  <2>4. \A r \in New : \A n \in RowNumbers :
            Cardinality(Copies(curated'[r], n))
               <= lateFaults'[r] + IF promoted'[r] # Absent \/ IsStored(r, n)' THEN 1 ELSE 0
    BY <1>i, <2>1 DEF IsStored
  <2>5. buffer' = [r \in Runs |-> IF pos' = "buffered" /\ r = cur' THEN (stored' + 1)..Filled'
                                  ELSE {}]
    BY <2>1, <2>2 DEF DataInv
  <2> QED BY <1>i, <2>1, <2>2, <2>3, <2>4, <2>5 DEF DataInv
<1>8. CASE AppendPromoted
  <2>1. /\ pos = "durable" /\ pos' = "visit" /\ stored' = 0
        /\ promoted' = [promoted EXCEPT ![cur] = passed]
        /\ UNCHANGED <<cur, passed, lateFaults, curated, buffer, unsynced>>
    BY <1>8 DEF AppendPromoted
  <2>2. cur \in New /\ passed # Absent /\ stored = passed /\ cur \notin unsynced
    BY <2>1, DataTypes DEF Absent, DataInv
  <2>3. promoted'[cur] = passed /\ \A r \in New : r # cur => promoted'[r] = promoted[r]
    BY <2>1, <2>2, IndexTypes
  <2>4. \A r \in New : promoted'[r] # Absent =>
            r \notin unsynced' /\ \A n \in 1..promoted'[r] : Copies(curated'[r], n) # {}
    BY <1>i, <2>1, <2>2, <2>3
  <2>5. \A r \in New : \A n \in RowNumbers :
            IsStored(r, n) \/ promoted[r] # Absent => promoted'[r] # Absent
    BY <2>2, <2>3 DEF IsStored
  <2>6. \A r \in New : \A n \in RowNumbers :
            Cardinality(Copies(curated'[r], n))
               <= lateFaults'[r] + IF promoted'[r] # Absent \/ IsStored(r, n)' THEN 1 ELSE 0
    <3> SUFFICES ASSUME NEW r \in New, NEW n \in RowNumbers
                 PROVE  Cardinality(Copies(curated'[r], n))
                           <= lateFaults'[r]
                              + IF promoted'[r] # Absent \/ IsStored(r, n)' THEN 1 ELSE 0
      OBVIOUS
    <3> DEFINE c == Cardinality(Copies(curated[r], n))
               l == lateFaults[r]
    <3>1. c <= l + IF promoted[r] # Absent \/ IsStored(r, n) THEN 1 ELSE 0 BY <1>i
    <3>2. c \in Nat /\ l \in Nat BY DataTypes
    <3>3. IsStored(r, n) \/ promoted[r] # Absent => promoted'[r] # Absent BY <2>5
    <3>4. Cardinality(Copies(curated'[r], n)) = c /\ lateFaults'[r] = l BY <2>1
    <3> HIDE DEF c, l
    <3> QED BY <3>1, <3>2, <3>3, <3>4
  <2>7. buffer' = [r \in Runs |-> IF pos' = "buffered" /\ r = cur' THEN (stored' + 1)..Filled'
                                  ELSE {}]
    BY <2>1 DEF DataInv
  <2>8. \A n \in 1..stored' : Copies(curated'[cur'], n) # {} BY <2>1
  <2> QED BY <2>1, <2>4, <2>6, <2>7, <2>8 DEF DataInv
<1>9. ASSUME NEW written \in BOOLEAN, PromotionFails(written) PROVE DataInv'
  <2>1. /\ pos # "visit" /\ pos' = "visit" /\ stored' = 0 /\ buffer' = EmptyBuffer
        /\ lateFaults' = [lateFaults EXCEPT ![cur] = @ + IF stored > 0 \/ written THEN 1 ELSE 0]
        /\ IF written THEN /\ pos = "buffered" /\ curated' = Flushed
                           /\ unsynced' = unsynced \cup Buffered
           ELSE UNCHANGED <<curated, unsynced>>
        /\ UNCHANGED <<cur, promoted>>
    BY <1>9 DEF PromotionFails
  <2>2. cur \in New /\ promoted[cur] = Absent BY <2>1, DataTypes
  <2>3. \A r \in New :
            lateFaults'[r] = lateFaults[r] + IF r = cur /\ (stored > 0 \/ written) THEN 1 ELSE 0
    BY <2>1, <2>2, DataTypes
  <2>4. \A r \in New : lateFaults'[r] \in Nat BY <2>3, DataTypes
  <2>5. CASE ~written
    <3>1. \A r \in New : \A n \in RowNumbers :
            Cardinality(Copies(curated'[r], n))
               <= lateFaults'[r] + IF promoted[r] # Absent THEN 1 ELSE 0
      BY <1>f, <2>1, <2>3, <2>5
    <3> QED BY <1>b, <2>1, <2>4, <2>5, <3>1
  <2>6. CASE written
    <3>1. \A r \in New : r # cur => curated'[r] = curated[r] /\ (r \in unsynced' => r \in unsynced)
      BY <2>1, <2>6, FlushOfOne
    <3>2. ASSUME NEW n \in RowNumbers
          PROVE  Cardinality(Copies(curated'[cur], n)) <= lateFaults[cur] + 1
      <4>1. Cardinality(Copies(curated'[cur], n))
              = Cardinality(Copies(curated[cur], n)) + IF n \in (stored + 1)..Filled THEN 1 ELSE 0
        BY <2>1, <2>6, FlushOfOne
      <4>2. Cardinality(Copies(curated[cur], n)) <= lateFaults[cur] + IF n <= stored THEN 1 ELSE 0
        <5>1. IsStored(cur, n) <=> n <= stored BY DEF IsStored
        <5> QED BY <1>i, <2>2, <5>1
      <4>3. /\ Cardinality(Copies(curated[cur], n)) \in Nat /\ lateFaults[cur] \in Nat
            /\ stored \in Nat /\ n \in Nat
        BY <2>2, DataTypes, RowsNat DEF RowNumbers
      <4> HIDE DEF Kept
      <4> QED BY <4>1, <4>2, <4>3
    <3>3. ASSUME NEW r \in New, NEW n \in RowNumbers
          PROVE  Cardinality(Copies(curated'[r], n))
                    <= lateFaults'[r] + IF promoted[r] # Absent THEN 1 ELSE 0
      <4>1. CASE r = cur
        <5>1. lateFaults'[r] = lateFaults[r] + 1 BY <2>3, <2>6, <4>1
        <5>2. promoted[r] = Absent BY <2>2, <4>1
        <5>3. Cardinality(Copies(curated'[r], n)) <= lateFaults[r] + 1 BY <3>2, <4>1
        <5>4. lateFaults[r] \in Nat BY DataTypes
        <5> HIDE DEF Kept
        <5> QED BY <5>1, <5>2, <5>3, <5>4
      <4>2. CASE r # cur
        <5>1. curated'[r] = curated[r] BY <3>1, <4>2
        <5>2. lateFaults'[r] = lateFaults[r] BY <2>3, <4>2, DataTypes
        <5>3. ~IsStored(r, n) BY <4>2 DEF IsStored
        <5> QED BY <1>i, <5>1, <5>2, <5>3
      <4> QED BY <4>1, <4>2
    <3> QED BY <1>b, <2>1, <2>2, <2>4, <3>1, <3>3
  <2> QED BY <2>5, <2>6
<1>10. CASE EndPass
  <2>1. /\ pos = "visit" /\ pos' = "visit" /\ buffer' = EmptyBuffer
        /\ curated' = Flushed /\ unsynced' = unsynced \cup Buffered
        /\ UNCHANGED <<cur, stored, promoted, lateFaults>>
    BY <1>10 DEF EndPass
  <2>2. curated' = curated /\ unsynced' = unsynced /\ stored = 0
    BY <2>1, FlushOfNone DEF DataInv
  <2> QED BY <1>b, <1>f, <2>1, <2>2, DataTypes
\* A dead pass, whatever it leaves of the part-files.
<1>d. ASSUME PassDies, promoted' = promoted,
             \A r \in New : promoted[r] # Absent =>
                curated'[r] = curated[r] /\ (r \in unsynced' => r \in unsynced),
             \A r \in New : \A n \in RowNumbers :
                /\ Cardinality(Copies(curated'[r], n)) \in Nat
                /\ Cardinality(Copies(curated'[r], n)) <= Cardinality(Copies(curated[r], n))
      PROVE  DataInv'
  <2>1. \A r \in New : lateFaults'[r] = lateFaults[r] + IF r = cur /\ stored > 0 THEN 1 ELSE 0
    <3>1. \A r \in New : r \in Unindexed <=> r = cur /\ stored > 0 BY DEF Unindexed
    <3> QED BY <1>d, <3>1, DataTypes DEF PassDies
  <2>2. \A r \in New : lateFaults'[r] \in Nat BY <2>1, DataTypes
  <2>3. \A r \in New : \A n \in RowNumbers :
            Cardinality(Copies(curated'[r], n))
               <= lateFaults'[r] + IF promoted[r] # Absent THEN 1 ELSE 0
    BY <1>d, <1>f, <2>1, DataTypes
  <2> QED BY <1>b, <1>d, <2>2, <2>3 DEF PassDies
<1>11. CASE CrashPass BY <1>d, <1>11, DataTypes DEF CrashPass
<1>12. ASSUME NEW kept, NEW torn, NEW lost, PowerLoss(kept, torn, lost) PROVE DataInv'
  <2>1. /\ PassDies /\ promoted' = promoted /\ lost \subseteq unsynced /\ unsynced' = {}
        /\ curated' = [r \in Runs |-> IF r \in lost THEN AllButLast(curated[r]) ELSE curated[r]]
    BY <1>12 DEF PowerLoss
  <2>2. \A r \in New : promoted[r] # Absent => curated'[r] = curated[r]
    BY <1>i, <2>1, DataTypes
  <2>3. ASSUME NEW r \in New, NEW n \in RowNumbers
        PROVE  /\ Cardinality(Copies(curated'[r], n)) \in Nat
               /\ Cardinality(Copies(curated'[r], n)) <= Cardinality(Copies(curated[r], n))
    <3>1. curated[r] \in Parts /\ r \in Runs BY DataTypes
    <3>2. AllButLast(curated[r]) \in Parts BY <3>1, PartsFront
    <3>3. /\ Cardinality(Copies(curated[r], n)) \in Nat
          /\ Cardinality(Copies(AllButLast(curated[r]), n)) \in Nat
      BY <3>1, <3>2, CopiesAre
    <3> QED BY <2>1, <3>1, <3>3, CopiesFront
  <2> QED BY <1>d, <2>1, <2>2, <2>3
<1>13. CASE DeletePart \/ RewriteRun \/ SyncRewritten \/ AppendRepaired
  <2>1. repair \in Repairing
    BY <1>13 DEF DeletePart, RewriteRun, SyncRewritten, AppendRepaired, Repairing
  <2>2. mend \notin New BY <2>1, DataTypes
  <2>3. UNCHANGED <<buffer, pos, cur, passed, stored, lateFaults>>
    BY <1>13 DEF DeletePart, RewriteRun, SyncRewritten, AppendRepaired
  <2>4. \A r \in New : curated'[r] = curated[r] /\ promoted'[r] = promoted[r]
    BY <1>13, <2>2, DataTypes, IndexTypes
    DEF DeletePart, RewriteRun, SyncRewritten, AppendRepaired
  <2>5. \A r \in New : r \in unsynced' => r \in unsynced
    BY <1>13, <2>2 DEF DeletePart, RewriteRun, SyncRewritten, AppendRepaired
  <2> QED BY <1>a, <2>3, <2>4, <2>5
<1>14. CASE \/ StartRepair \/ ScanDataset \/ PartsDeleted \/ EndRepair \/ RepairFails
            \/ CrashRepair \/ \E r \in Runs : SkipShort(r) \/ RepairRun(r)
  BY <1>a, <1>14
  DEF StartRepair, ScanDataset, PartsDeleted, EndRepair, RepairFails, CrashRepair, RepairDies,
      SkipShort, RepairRun
<1>15. CASE UNCHANGED vars BY <1>a, <1>15 DEF vars
<1> QED
  BY <1>1, <1>2, <1>3, <1>4, <1>5, <1>6, <1>7, <1>8, <1>9, <1>10, <1>11, <1>12, <1>13, <1>14,
     <1>15, <1>16
  DEF Next, PassStep, Operator, Fault

LEMMA KeptByNext == Kept /\ [Next]_vars => Kept'
BY IndexedKept, StepData DEF Kept

LEMMA KeptAtFirst == Watched /\ Init => Kept
BY IndexedInit, InitData DEF Kept

\* No row has more copies in the dataset than one and the faults that struck its run from
\* its first part-file to its index row (promotion.py, promote_replayable_runs), however
\* many times the sink flushes by itself in between (storage.py, 457).
THEOREM OneCopyAndFaults == Watched /\ Spec => []CopiesNeedLateFaults
<1>1. Kept => CopiesNeedLateFaults
  <2> SUFFICES ASSUME Kept, NEW r \in New, NEW n \in RowNumbers
               PROVE  Cardinality(Copies(curated[r], n)) <= 1 + lateFaults[r]
    BY DEF CopiesNeedLateFaults
  <2>1. Cardinality(Copies(curated[r], n))
          <= lateFaults[r] + IF promoted[r] # Absent \/ IsStored(r, n) THEN 1 ELSE 0
    BY DEF Kept, DataInv
  <2>2. Cardinality(Copies(curated[r], n)) \in Nat /\ lateFaults[r] \in Nat BY DataTypes
  <2> HIDE DEF Kept
  <2> QED BY <2>1, <2>2
<1> QED BY <1>1, KeptAtFirst, KeptByNext, PTL DEF Spec

\* An index row implies that all rows of the run are in its part-files, whatever crashes.
THEOREM IndexRowsAreDurable == Watched /\ Spec => []IndexedIsDurable
<1>1. Kept => IndexedIsDurable BY DEF Kept, DataInv, IndexedIsDurable
<1> QED BY <1>1, KeptAtFirst, KeptByNext, PTL DEF Spec
-----------------------------------------------------------------------------
(* The repair.                                                              *)

\* No part-files, no rows.
LEMMA TotalOfNone == Total(<<>>) = 0
<1> DEFINE none == [i \in 0..0 |-> 0]
           sum == CHOOSE f : f = [i \in 0..Len(<<>>) |-> IF i = 0 THEN 0 ELSE f[i - 1] + Cardinality(<<>>[i])]
<1>1. none = [i \in 0..Len(<<>>) |-> IF i = 0 THEN 0 ELSE none[i - 1] + Cardinality(<<>>[i])] OBVIOUS
<1>2. sum = [i \in 0..Len(<<>>) |-> IF i = 0 THEN 0 ELSE sum[i - 1] + Cardinality(<<>>[i])]
  <2> HIDE DEF none
  <2> QED BY <1>1
<1>3. sum[Len(<<>>)] = 0
  <2> HIDE DEF sum
  <2> QED BY <1>2
<1> QED BY <1>3 DEF Total

\* The rows of one part-file.
LEMMA TotalOfOne == ASSUME NEW n \in Nat PROVE Total(<<1..n>>) = n
<1> DEFINE q == <<1..n>>
           one == [i \in 0..1 |-> IF i = 0 THEN 0 ELSE n]
           sum == CHOOSE f : f = [i \in 0..Len(q) |-> IF i = 0 THEN 0 ELSE f[i - 1] + Cardinality(q[i])]
<1>0. Cardinality(1..n) = n
  <2>1. 1 \in Int /\ n \in Int OBVIOUS
  <2> QED BY <2>1, FS_Interval
<1>1. Len(q) = 1 /\ Cardinality(q[1]) = n BY <1>0
<1>2. one = [i \in 0..Len(q) |-> IF i = 0 THEN 0 ELSE one[i - 1] + Cardinality(q[i])]
  <2> HIDE DEF q
  <2> QED BY <1>1
<1>3. sum = [i \in 0..Len(q) |-> IF i = 0 THEN 0 ELSE sum[i - 1] + Cardinality(q[i])]
  <2> HIDE DEF one, q
  <2> QED BY <1>2
<1>4. sum[Len(q)] = n
  <2> HIDE DEF sum, q
  <2> QED BY <1>1, <1>3
<1> QED BY <1>4 DEF Total

\* From the choice of a legacy run to its new index row the run is short by its old one,
\* which nobody else replaces; what the scan has counted is all it has.
RepairInv ==
    /\ \A r \in Legacy : segment[r] = "closed" /\ promoted[r] # Absent /\ buffer[r] = {}
    /\ \A r \in Legacy \cap short :
          /\ NeedsRepair(r)
          /\ repair \in {"check"} \cup Repairing => scan[r] = Len(curated[r])
    /\ repair \in Repairing /\ mend \in Legacy =>
          /\ NeedsRepair(mend)
          /\ repair = "delete" => scan[mend] = Len(curated[mend])
          /\ repair = "write" => keep /\ curated[mend] = <<>>
          /\ repair = "sync" => keep /\ curated[mend] = <<1..rows[mend]>>
          /\ repair = "index" => IF keep THEN curated[mend] = <<1..rows[mend]>> /\ mend \notin unsynced
                                 ELSE curated[mend] = <<>>
    /\ \A r \in Legacy \cap unsynced : NeedsRepair(r) \/ curated[r] = <<>>
    /\ BrokenRepairIsFound

LEMMA InitRepair == Init => RepairInv
<1> SUFFICES ASSUME Init PROVE RepairInv
  OBVIOUS
<1>0. {1} = 1..1 OBVIOUS
<1>1. /\ Legacy \subseteq Runs /\ short = {} /\ unsynced = {} /\ repair \notin Repairing
      /\ \A r \in Legacy : /\ segment[r] = "closed" /\ promoted[r] = 1 /\ buffer[r] = {}
                           /\ curated[r] = <<1..1>>
  BY <1>0, RunsAssumption DEF Init, Repairing, EmptyBuffer
<1>2. \A r \in Legacy : Total(curated[r]) = promoted[r]
  BY <1>1, TotalOfOne
<1> QED BY <1>1, <1>2 DEF RepairInv, BrokenRepairIsFound, Absent

\* A run that needs its repair goes on to need it while its index row is the same.
LEMMA StillShort ==
    ASSUME TypeOK, NEW r \in Runs, NeedsRepair(r), age'[r] \in Nat, age'[r] >= age[r],
           rows'[r] = rows[r], promoted'[r] = promoted[r], r \in removed' <=> r \in removed
    PROVE  NeedsRepair(r)'
  BY AgeAssumption DEF TypeOK, NeedsRepair, IsShort

\* What the collector and the passes do leaves the legacy runs as they are.
LEMMA ElsewhereKeepsRepair ==
    ASSUME Apart, RepairInv, age' \in [Runs -> 0..MaxAge],
           \A r \in Legacy : /\ segment'[r] = "closed" /\ buffer'[r] = {} /\ age'[r] >= age[r]
                             /\ rows'[r] = rows[r] /\ promoted'[r] = promoted[r]
                             /\ curated'[r] = curated[r]
                             /\ r \in unsynced' => r \in unsynced,
           UNCHANGED <<removed, repairVars>>
    PROVE  RepairInv'
<1>1. \A r \in Runs : age'[r] \in Nat BY AgeAssumption
<1>2. Legacy \subseteq Runs BY RunsAssumption
<1>3. \A r \in Legacy : NeedsRepair(r) => NeedsRepair(r)'
  BY <1>1, <1>2, StillShort DEF Apart, Typed
<1>4. \A r \in Legacy : Total(curated'[r]) # promoted'[r] => NeedsRepair(r)'
  BY <1>3 DEF RepairInv, BrokenRepairIsFound
<1>5. \A r \in Legacy \cap short' :
          NeedsRepair(r)' /\ (repair' \in {"check"} \cup Repairing => scan'[r] = Len(curated'[r]))
  BY <1>3 DEF RepairInv
<1>6. repair' \in Repairing /\ mend' \in Legacy =>
          /\ NeedsRepair(mend)'
          /\ repair' = "delete" => scan'[mend'] = Len(curated'[mend'])
          /\ repair' = "write" => keep' /\ curated'[mend'] = <<>>
          /\ repair' = "sync" => keep' /\ curated'[mend'] = <<1..rows'[mend']>>
          /\ repair' = "index" =>
                IF keep' THEN curated'[mend'] = <<1..rows'[mend']>> /\ mend' \notin unsynced'
                ELSE curated'[mend'] = <<>>
  BY <1>3 DEF RepairInv
<1>7. \A r \in Legacy \cap unsynced' : NeedsRepair(r)' \/ curated'[r] = <<>>
  BY <1>3 DEF RepairInv
<1> QED BY <1>4, <1>5, <1>6, <1>7 DEF RepairInv, BrokenRepairIsFound

\* What a step of the repair leaves of the runs it is not at.
LEMMA NeedUnchanged ==
    ASSUME UNCHANGED <<age, rows, promoted, removed>>
    PROVE  \A r : NeedsRepair(r)' = NeedsRepair(r)
  BY DEF NeedsRepair, IsShort


\* Wherever the repair is stopped, a legacy run keeps the short index row it was chosen
\* for until all its parts are gone and, if it is replayable, written anew.
LEMMA StepRepair == Apart /\ RepairInv /\ [Next]_vars => RepairInv'
<1> SUFFICES ASSUME Apart, RepairInv, [Next]_vars PROVE RepairInv'
  OBVIOUS
<1>t. /\ TypeOK /\ Legacy \subseteq Runs /\ age \in [Runs -> 0..MaxAge]
      /\ \A r \in Runs : age[r] \in Nat /\ curated[r] \in Parts /\ rows[r] \in Nat
      /\ pos # "visit" => cur \in Runs \ Legacy
  <2>1. TypeOK BY DEF Apart, Typed
  <2>2. pos # "visit" => cur \in Runs \ Legacy
    BY <2>1 DEF Apart, PassInv, RepairInv, TypeOK
  <2>3. age \in [Runs -> 0..MaxAge] /\ 0..MaxAge \subseteq Nat BY <2>1, AgeAssumption DEF TypeOK
  <2>4. \A r \in Runs : age[r] \in Nat BY <2>3
  <2>5. \A r \in Runs : curated[r] \in Parts BY <2>1 DEF TypeOK, Parts
  <2>6. \A r \in Runs : rows[r] \in 0..MaxRows BY <2>1 DEF TypeOK
  <2>7. Legacy \subseteq Runs BY RunsAssumption
  <2> QED BY <2>1, <2>2, <2>3, <2>4, <2>5, <2>6, <2>7, RowsNat
<1>l. \A r \in Legacy : segment[r] = "closed" /\ promoted[r] # Absent /\ buffer[r] = {}
  BY DEF RepairInv
<1>f. \A r \in Legacy : Flushed[r] = curated[r] /\ r \notin Buffered
  BY <1>l, <1>t DEF Flushed, Buffered
\* A step of a pass or of the collector.
<1>a. ASSUME UNCHANGED <<segment, age, rows, promoted, removed, repairVars>>,
             \A r \in Legacy : /\ buffer'[r] = {} /\ curated'[r] = curated[r]
                               /\ r \in unsynced' => r \in unsynced
      PROVE  RepairInv'
  <2>1. \A r \in Runs : age'[r] >= age[r] BY <1>a, <1>t
  <2> QED BY <1>a, <1>l, <1>t, <2>1, ElsewhereKeepsRepair
<1>1. ASSUME NEW r \in Runs,
             OpenSegment(r) \/ WriteRow(r) \/ KillSegment(r)
             \/ \E v \in Verdicts : CloseSegment(r, v) \/ LastRow(r, v)
      PROVE  RepairInv'
  <2>1. /\ segment[r] # "closed" /\ UNCHANGED <<age, promoted, removed, repairVars, curated, unsynced, buffer>>
        /\ \A s \in Runs \ {r} : segment'[s] = segment[s] /\ rows'[s] = rows[s]
    BY <1>1, <1>t DEF OpenSegment, WriteRow, KillSegment, CloseSegment, LastRow, TypeOK
  <2>2. r \notin Legacy BY <1>l, <2>1
  <2>3. \A s \in Runs : age'[s] >= age[s] BY <1>t, <2>1
  <2> QED BY <1>l, <1>t, <2>1, <2>2, <2>3, ElsewhereKeepsRepair
<1>2. ASSUME NEW r \in Runs, GrowOlder(r) PROVE RepairInv'
  <2>1. /\ age' = [age EXCEPT ![r] = @ + 1] /\ age[r] < MaxAge
        /\ UNCHANGED <<segment, rows, promoted, removed, repairVars, curated, unsynced, buffer>>
    BY <1>2 DEF GrowOlder
  <2>2. age' \in [Runs -> 0..MaxAge] BY <1>t, <2>1, AgeAssumption
  <2>3. \A s \in Runs : age'[s] >= age[s] BY <1>t, <2>1
  <2> QED BY <1>l, <1>t, <2>1, <2>2, <2>3, ElsewhereKeepsRepair
<1>3. CASE Starts
  BY <1>a, <1>3, <1>t
  DEF Starts, StartScore, StartQuarantine, StartPromote, StartBackstop, StartPass, EmptyBuffer
<1>4. ASSUME NEW r \in Runs,
             \/ SkipScoring(r) \/ QuarantineRun(r) \/ SkipPromotion(r)
             \/ \E v \in Verdicts : ScoreRun(r, v) \/ Rescore(r, v)
      PROVE  RepairInv'
  BY <1>a, <1>l, <1>4 DEF SkipScoring, QuarantineRun, SkipPromotion, ScoreRun, Rescore
<1>5. ASSUME NEW r \in Runs, BufferRun(r) PROVE RepairInv'
  BY <1>a, <1>l, <1>5 DEF BufferRun
<1>22. CASE FillBuffer
  <2>1. cur \in Runs \ Legacy /\ buffer' = [buffer EXCEPT ![cur] = (stored + 1)..Filled]
    BY <1>22, <1>t DEF FillBuffer
  <2>2. \A s \in Legacy : buffer'[s] = {} BY <1>l, <1>t, <2>1 DEF TypeOK
  <2> QED BY <1>a, <1>22, <2>2 DEF FillBuffer
<1>6. CASE \/ Flush \/ EndPass \/ CrashPass
           \/ \E n \in 0..(MaxRows - 1) : BufferFails(n)
           \/ \E written \in BOOLEAN : PromotionFails(written)
  BY <1>a, <1>f, <1>t, <1>6
  DEF Flush, EndPass, BufferFails, PromotionFails, CrashPass, PassDies, EmptyBuffer
<1>7. CASE SyncParts BY <1>a, <1>l, <1>7 DEF SyncParts
<1>8. CASE AppendPromoted
  <2>1. /\ cur \in Runs \ Legacy /\ promoted' = [promoted EXCEPT ![cur] = passed]
        /\ UNCHANGED <<segment, age, rows, removed, repairVars, curated, unsynced, buffer>>
    BY <1>8, <1>t DEF AppendPromoted
  <2>2. \A r \in Legacy : promoted'[r] = promoted[r] BY <1>t, <2>1 DEF TypeOK
  <2>3. \A s \in Runs : age'[s] >= age[s] BY <1>t, <2>1
  <2> QED BY <1>l, <1>t, <2>1, <2>2, <2>3, ElsewhereKeepsRepair
<1> USE DEF RepairInv
<1>9. CASE StartRepair
  <2>1. /\ short' = {r \in Runs : NeedsRepair(r)} /\ repair' = "select"
        /\ UNCHANGED <<segment, age, rows, promoted, removed, curated, unsynced, buffer>>
    BY <1>9 DEF StartRepair
  <2> QED BY <2>1, NeedUnchanged DEF Repairing, BrokenRepairIsFound
<1>10. CASE ScanDataset
  <2>1. /\ scan' = [r \in Runs |-> Len(curated[r])] /\ repair = "select" /\ repair' = "check"
        /\ UNCHANGED <<segment, age, rows, promoted, removed, curated, unsynced, buffer, short, mend>>
    BY <1>10 DEF ScanDataset
  <2> QED BY <1>t, <2>1, NeedUnchanged DEF Repairing, BrokenRepairIsFound
\* The repair gives up what it is at, or has nothing more to do.
<1>11. ASSUME UNCHANGED <<segment, age, rows, promoted, removed, curated, unsynced, buffer, scan>>,
              short' \subseteq short, repair' \notin Repairing,
              repair' = "check" => repair \in {"check"} \cup Repairing
       PROVE  RepairInv'
  BY <1>11, NeedUnchanged DEF BrokenRepairIsFound
<1>12. CASE EndRepair \/ RepairFails \/ CrashRepair \/ \E r \in Runs : SkipShort(r)
  BY <1>11, <1>12
  DEF EndRepair, RepairFails, CrashRepair, RepairDies, SkipShort, NextShort, Repairing
<1>13. ASSUME NEW r \in Runs, RepairRun(r) PROVE RepairInv'
  <2>1. /\ short' = short \ {r} /\ r \in short /\ repair = "check"
        /\ mend' = r /\ repair' = "delete"
        /\ UNCHANGED <<segment, age, rows, promoted, removed, curated, unsynced, buffer, scan>>
    BY <1>13 DEF RepairRun, NextShort
  <2> QED BY <2>1, NeedUnchanged DEF Repairing, BrokenRepairIsFound
\* A step of the repair on the parts of its run.
<1>14. ASSUME repair \in Repairing, repair' \in Repairing,
              UNCHANGED <<segment, age, rows, promoted, removed, buffer, short, mend, keep>>,
              \A r \in Runs \ {mend} : /\ scan'[r] = scan[r] /\ curated'[r] = curated[r]
                                       /\ r \in unsynced' => r \in unsynced,
              mend \in Legacy =>
                 /\ repair' = "delete" => scan'[mend] = Len(curated'[mend])
                 /\ repair' = "write" => keep /\ curated'[mend] = <<>>
                 /\ repair' = "sync" => keep /\ curated'[mend] = <<1..rows[mend]>>
                 /\ repair' = "index" =>
                       IF keep THEN curated'[mend] = <<1..rows[mend]>> /\ mend \notin unsynced'
                       ELSE curated'[mend] = <<>>
       PROVE  RepairInv'
  <2>1. mend \in Runs /\ mend \notin short /\ short \subseteq Runs
    BY <1>14, <1>t DEF TypeOK, Apart, Typed, ScanInv, Repairing
  <2>2. \A r \in Legacy \ {mend} : Total(curated'[r]) # promoted'[r] => NeedsRepair(r)'
    BY <1>14, <1>t, NeedUnchanged DEF BrokenRepairIsFound
  <2>3. mend \in Legacy => NeedsRepair(mend)' BY <1>14, NeedUnchanged
  <2>4. BrokenRepairIsFound' BY <1>14, <2>2, <2>3 DEF BrokenRepairIsFound
  <2>5. \A r \in Legacy \cap short' :
          /\ NeedsRepair(r)'
          /\ repair' \in {"check"} \cup Repairing => scan'[r] = Len(curated'[r])
    BY <1>14, <2>1, NeedUnchanged
  <2>6. \A r \in Legacy \cap unsynced' : NeedsRepair(r)' \/ curated'[r] = <<>>
    BY <1>14, <1>t, <2>3, NeedUnchanged
  <2> HIDE DEF BrokenRepairIsFound
  <2> QED BY <1>14, <2>3, <2>4, <2>5, <2>6
<1>15. CASE DeletePart
  <2>1. mend \in Runs /\ mend \notin short
    BY <1>15, <1>t DEF DeletePart, TypeOK, Apart, Typed, ScanInv, Repairing
  <2>2. /\ curated[mend] \in Parts /\ scan[mend] \in Nat /\ scan[mend] > 0
        /\ scan[mend] <= Len(curated[mend])
    BY <1>15, <1>t, <2>1 DEF DeletePart, TypeOK, Apart, Typed, ScanInv, Parts
  <2>3. Len(Tail(curated[mend])) = Len(curated[mend]) - 1 BY <2>2, PartsTail
  <2>4. /\ repair = "delete" /\ repair' = "delete"
        /\ curated' = [curated EXCEPT ![mend] = Tail(@)] /\ scan' = [scan EXCEPT ![mend] = @ - 1]
        /\ UNCHANGED <<segment, age, rows, promoted, removed, buffer, short, mend, keep, unsynced>>
    BY <1>15 DEF DeletePart
  <2>5. mend \in Legacy => scan'[mend] = Len(curated'[mend])
    BY <1>t, <2>1, <2>2, <2>3, <2>4 DEF TypeOK, Repairing
  <2>6. \A r \in Runs \ {mend} : scan'[r] = scan[r] /\ curated'[r] = curated[r]
    BY <1>t, <2>4 DEF TypeOK
  <2> QED BY <1>14, <2>4, <2>5, <2>6 DEF Repairing
<1>16. CASE PartsDeleted
  <2>1. /\ repair = "delete" /\ scan[mend] = 0 /\ repair' = (IF keep THEN "write" ELSE "index")
        /\ UNCHANGED <<segment, age, rows, promoted, removed, buffer, short, mend, keep, unsynced,
                       curated, scan>>
    BY <1>16 DEF PartsDeleted
  <2>2. mend \in Legacy => curated[mend] = <<>>
    <3>1. mend \in Legacy => Len(curated[mend]) = 0 /\ curated[mend] \in Seq(SUBSET RowNumbers)
      BY <1>t, <2>1 DEF Repairing, Parts
    <3> QED BY <3>1, EmptySeq
  <2> QED BY <1>14, <2>1, <2>2 DEF Repairing
<1>17. CASE RewriteRun
  <2>1. /\ repair = "write" /\ repair' = "sync" /\ mend \in Runs
        /\ curated' = [curated EXCEPT ![mend] = Append(@, 1..rows[mend])]
        /\ unsynced' = unsynced \cup {mend}
        /\ UNCHANGED <<segment, age, rows, promoted, removed, buffer, short, mend, keep, scan>>
    BY <1>17, <1>t DEF RewriteRun, TypeOK
  <2>2. mend \in Legacy => keep /\ curated'[mend] = <<1..rows[mend]>>
    <3>1. mend \in Legacy => keep /\ curated[mend] = <<>> BY <2>1 DEF Repairing
    <3>2. Append(<<>>, 1..rows[mend]) = <<1..rows[mend]>> OBVIOUS
    <3> QED BY <1>t, <2>1, <3>1, <3>2 DEF TypeOK
  <2>3. \A r \in Runs \ {mend} : curated'[r] = curated[r] BY <1>t, <2>1 DEF TypeOK
  <2> QED BY <1>14, <2>1, <2>2, <2>3 DEF Repairing
<1>18. CASE SyncRewritten
  <2>1. /\ repair = "sync" /\ repair' = "index" /\ unsynced' = unsynced \ {mend}
        /\ UNCHANGED <<segment, age, rows, promoted, removed, buffer, short, mend, keep, scan, curated>>
    BY <1>18 DEF SyncRewritten
  <2>2. mend \in Legacy => keep /\ curated[mend] = <<1..rows[mend]>> BY <2>1 DEF Repairing
  <2> QED BY <1>14, <2>1, <2>2 DEF Repairing
<1>19. CASE AppendRepaired
  <2>1. mend \in Runs /\ mend \notin short
    BY <1>19, <1>t DEF AppendRepaired, TypeOK, Apart, Typed, ScanInv, Repairing
  <2>2. /\ repair = "index" /\ repair' = "check"
        /\ UNCHANGED <<segment, age, rows, buffer, short, scan, curated, unsynced>>
        /\ IF keep THEN promoted' = [promoted EXCEPT ![mend] = rows[mend]] /\ removed' = removed
           ELSE promoted' = [promoted EXCEPT ![mend] = 0] /\ removed' = removed \cup {mend}
    BY <1>19 DEF AppendRepaired
  <2>3. mend \in Legacy =>
          IF keep THEN curated[mend] = <<1..rows[mend]>> /\ mend \notin unsynced
          ELSE curated[mend] = <<>>
    BY <2>2 DEF Repairing
  <2>4. \A r \in Runs \ {mend} : promoted'[r] = promoted[r] /\ (r \in removed' <=> r \in removed)
    BY <1>t, <2>2 DEF TypeOK
  <2>5. \A r \in Runs \ {mend} : NeedsRepair(r)' = NeedsRepair(r)
    BY <2>2, <2>4 DEF NeedsRepair, IsShort
  <2>6. promoted'[mend] = (IF keep THEN rows[mend] ELSE 0) BY <1>t, <2>1, <2>2 DEF TypeOK
  <2>7. mend \in Legacy => Total(curated'[mend]) = promoted'[mend]
    BY <1>t, <2>1, <2>2, <2>3, <2>6, TotalOfNone, TotalOfOne
  <2>8. BrokenRepairIsFound' BY <1>t, <2>2, <2>4, <2>5, <2>7 DEF BrokenRepairIsFound
  <2>9. \A r \in Legacy \cap unsynced' : NeedsRepair(r)' \/ curated'[r] = <<>>
    BY <1>t, <2>2, <2>3, <2>5
  <2>10. \A r \in Legacy \cap short' : NeedsRepair(r)' /\ scan'[r] = Len(curated'[r])
    BY <1>t, <2>1, <2>2, <2>5 DEF Repairing
  <2>11. promoted'[mend] # Absent BY <1>t, <2>1, <2>6 DEF Absent
  <2> HIDE DEF BrokenRepairIsFound
  <2> QED BY <1>t, <2>2, <2>4, <2>8, <2>9, <2>10, <2>11 DEF Repairing
<1>20. ASSUME NEW kept \in [Runs -> 0..MaxRows], NEW torn \in SUBSET Runs, NEW lost \in SUBSET Runs,
              PowerLoss(kept, torn, lost)
       PROVE  RepairInv'
  <2>1. /\ \A r \in Legacy : rows'[r] = rows[r] /\ segment'[r] = "closed" /\ buffer'[r] = {}
        /\ UNCHANGED <<age, promoted, removed>>
        /\ lost \subseteq unsynced /\ unsynced' = {} /\ short' = {} /\ repair' = "idle"
        /\ curated' = [r \in Runs |-> IF r \in lost THEN AllButLast(curated[r]) ELSE curated[r]]
    BY <1>20, <1>l, <1>t DEF PowerLoss, PassDies, RepairDies, EmptyBuffer
  <2>2. \A r \in Legacy : NeedsRepair(r)' = NeedsRepair(r)
    BY <2>1 DEF NeedsRepair, IsShort
  <2>3. ASSUME NEW q \in Parts, q = <<>> PROVE AllButLast(q) = <<>>
    <3>1. Len(q) = 0 BY <2>3
    <3>2. AllButLast(q) \in Seq(SUBSET RowNumbers) /\ Len(AllButLast(q)) \in Nat /\ Len(AllButLast(q)) <= Len(q)
      BY <2>3, PartsFront DEF Parts
    <3>3. Len(AllButLast(q)) = 0 BY <3>1, <3>2
    <3> QED BY <3>2, <3>3, EmptySeq
  <2>4. \A r \in Legacy : NeedsRepair(r) \/ curated'[r] = curated[r]
    <3>1. ASSUME NEW r \in Legacy, ~NeedsRepair(r), r \in unsynced PROVE AllButLast(curated[r]) = curated[r]
      <4>1. curated[r] = <<>> /\ curated[r] \in Parts BY <1>t, <3>1 DEF RepairInv
      <4> QED BY <2>3, <4>1
    <3> QED BY <1>t, <2>1, <3>1
  <2>5. BrokenRepairIsFound' BY <1>t, <2>1, <2>2, <2>4 DEF BrokenRepairIsFound
  <2> HIDE DEF BrokenRepairIsFound
  <2> QED BY <1>l, <2>1, <2>5 DEF Repairing
<1>21. CASE UNCHANGED vars
  BY <1>a, <1>l, <1>21 DEF vars
<1> HIDE DEF RepairInv
<1> QED
  BY <1>1, <1>2, <1>3, <1>4, <1>5, <1>6, <1>7, <1>8, <1>9, <1>10, <1>12, <1>13, <1>15, <1>16,
     <1>17, <1>18, <1>19, <1>20, <1>21, <1>22
  DEF Next, Collector, PassStep, Operator, Fault

\* Wherever a repair dies, or a power loss takes what it wrote, a run whose part-files do
\* not add up to its index row is one the next repair chooses (repromote.py: the index row
\* is the last thing that is written).
THEOREM BrokenRepairsAreFound == Spec => []BrokenRepairIsFound
<1>1. Init => Apart /\ RepairInv BY InitTyped, InitPass, InitRepair DEF Apart
<1>2. Apart /\ RepairInv /\ [Next]_vars => Apart' /\ RepairInv' BY ApartKept, StepRepair
<1>3. RepairInv => BrokenRepairIsFound BY DEF RepairInv
<1> QED BY <1>1, <1>2, <1>3, PTL DEF Spec
=============================================================================
