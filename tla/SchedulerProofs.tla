--------------------------- MODULE SchedulerProofs ---------------------------
(* Proofs about OpsRunner.run (ops.py, 600-1010) and what the health report   *)
(* makes of it, for any jobs, limits and thresholds: what the heartbeat says  *)
(* of a runner that is over stays true, a job has one run at a time in its    *)
(* executor, what is launched is reported, silence and a job that hangs are   *)
(* seen, a runner whose jobs end in time is not called sick, and no job waits *)
(* for the slot longer than its allowance explains.                           *)
(* At the end, what the offload it launches promises for every lane, run      *)
(* size, budget and number of faults.                                         *)
EXTENDS Health, Offload, SequenceTheorems, FiniteSetTheorems, WellFoundedInduction, TLAPS

USE DEF queue, log

Statuses == {"starting", "running", "idle", "error", "stopped"}
IsBeat(b) == "status" \in DOMAIN b /\ b.status \in Statuses

\* The refresher is joined before the executors are waited for, and is not
\* there when the last heartbeat is written; every heartbeat has a status.
BeatInv ==
    /\ IsBeat(file)
    /\ DOMAIN beat = {"pc", "due", "payload"}
    /\ IsBeat(beat.payload)
    /\ pc \in {"drain", "over"} => beat.pc = "gone"
    /\ beat.pc = "gone" => pc \in {"drain", "over"}
-----------------------------------------------------------------------------
LEMMA PayloadIsBeat ==
    \A s \in Statuses : \A e, a : IsBeat(Payload(s, e, a)) /\ Payload(s, e, a).status = s
BY DEF IsBeat, Payload

LEMMA ResolvedStatus == \A e : Resolved(e) \in Statuses
BY DEF Resolved, Statuses

\* A write of the heartbeat leaves a heartbeat.
LEMMA EmitIsBeat ==
    ASSUME BeatInv, NEW p, IsBeat(p), Emit(p)
    PROVE  IsBeat(file')
BY DEF BeatInv, Emit

LEMMA InitBeat == Init => BeatInv
BY PayloadIsBeat DEF Init, BeatInv, Quiet, Starting, Statuses

LEMMA StepBeat == BeatInv /\ [Next]_vars => BeatInv'
<1> SUFFICES ASSUME BeatInv, [Next]_vars PROVE BeatInv'
  OBVIOUS
<1>s. {"starting", "running", "idle", "error", "stopped"} = Statuses BY DEF Statuses
<1>1. CASE TickLoop BY <1>1 DEF TickLoop, BeatInv
<1>2. ASSUME NEW j, Reap(j), beat' = beat, pc \notin {"drain", "over"}, pc' \notin {"drain", "over"}
      PROVE  BeatInv'
  <2> DEFINE status == IF execution[j].state = "error" /\ mode.stopOnError
                       THEN "error" ELSE Resolved(execution')
             says == Payload(status, execution', tick)
  <2>1. Emit(says) \/ file' = says BY <1>2, Zenon DEF Reap
  <2>2. status \in Statuses BY ResolvedStatus, <1>s
  <2>3. IsBeat(says) BY <2>2, PayloadIsBeat
  <2>4. IsBeat(file')
    <3> HIDE DEF says
    <3> QED BY <2>1, <2>3, EmitIsBeat
  <2> QED BY <1>2, <2>4 DEF BeatInv
<1>3. CASE ReapLane BY <1>2, <1>3 DEF ReapLane
<1>4. CASE LanesReaped BY <1>4 DEF LanesReaped, BeatInv
<1>5. CASE ReapMaintenance
  <2>1. beat' = beat /\ pc = "reapMaint" /\ pc' \in {"join", "dispatch"}
    BY <1>5 DEF ReapMaintenance
  <2>2. Reap(slot) \/ file' = file BY <1>5 DEF ReapMaintenance
  <2>3. CASE Reap(slot) BY <1>2, <2>1, <2>3
  <2>4. CASE file' = file BY <2>1, <2>4 DEF BeatInv
  <2> QED BY <2>2, <2>3, <2>4
<1>6. CASE DispatchLanes
  <2>1. beat' = beat /\ pc = "dispatch" /\ pc' = "dispatchMaint" BY <1>6 DEF DispatchLanes
  <2>2. file' = file \/ Emit(Payload("running", execution', tick)) BY <1>6 DEF DispatchLanes
  <2>3. IsBeat(file') BY <1>s, <2>2, PayloadIsBeat, EmitIsBeat DEF BeatInv
  <2> QED BY <2>1, <2>3 DEF BeatInv
<1>7. CASE DispatchMaintenance
  <2>1. beat' = beat /\ pc = "dispatchMaint" /\ pc' \in {"tick", "asleep"}
    BY <1>7 DEF DispatchMaintenance
  <2>2. \/ file' = file
        \/ Emit(Payload("running", execution', tick))
        \/ Emit(Payload("idle", execution, tick))
    BY <1>7 DEF DispatchMaintenance
  <2>3. IsBeat(file') BY <1>s, <2>2, PayloadIsBeat, EmitIsBeat DEF BeatInv
  <2> QED BY <2>1, <2>3 DEF BeatInv
<1>8. CASE Interrupt BY <1>8 DEF Interrupt, BeatInv
<1>9. CASE Join BY <1>9 DEF Join, BeatInv
<1>10. CASE Drain
  <2>1. beat' = beat /\ pc = "drain" /\ pc' = "over" BY <1>10 DEF Drain
  <2>2. \/ file' = file
        \/ Emit(Payload("error", execution', tick))
        \/ Emit(Payload("stopped", execution', tick))
    BY <1>10 DEF Drain
  <2>3. IsBeat(file') BY <1>s, <2>2, PayloadIsBeat, EmitIsBeat DEF BeatInv
  <2> QED BY <2>1, <2>3 DEF BeatInv
<1>11. ASSUME NEW j \in Jobs, RunEnds(j) PROVE BeatInv' BY <1>11 DEF RunEnds, BeatInv
<1>12. CASE Refresh
  <2>1. beat.pc = "wait" /\ beat' = Quiet /\ pc' = pc BY <1>12 DEF Refresh
  <2>2. IsBeat(file') BY <1>12, PayloadIsBeat, ResolvedStatus, EmitIsBeat DEF Refresh
  <2> QED BY <1>s, <2>1, <2>2, PayloadIsBeat DEF BeatInv, Quiet, Starting
<1>13. CASE BuildOnly
  BY <1>13, PayloadIsBeat, ResolvedStatus DEF BuildOnly, BeatInv
<1>14. CASE EmitLate
  <2>1. beat.pc = "emit" /\ beat' = Quiet /\ pc' = pc BY <1>14 DEF EmitLate
  <2>2. IsBeat(file') BY <1>14, EmitIsBeat DEF EmitLate, BeatInv
  <2> QED BY <1>s, <2>1, <2>2, PayloadIsBeat DEF BeatInv, Quiet, Starting
<1>15. CASE Clock
  <2>1. /\ beat' = [beat EXCEPT !.due = pc = "asleep"]
        /\ pc' = IF pc = "asleep" THEN "tick" ELSE pc
        /\ "status" \in DOMAIN file' /\ file'.status = file.status
    BY <1>15 DEF Clock, BeatInv, IsBeat
  <2>2. DOMAIN beat' = DOMAIN beat /\ beat'.pc = beat.pc /\ beat'.payload = beat.payload
    BY <2>1 DEF BeatInv
  <2> QED BY <2>1, <2>2 DEF BeatInv, IsBeat
<1>16. CASE Kill \/ Restart
  BY <1>s, <1>16, PayloadIsBeat DEF Kill, Restart, Forget, Quiet, Starting, BeatInv
<1>17. CASE UNCHANGED vars BY <1>17 DEF vars, BeatInv
<1> QED
  BY <1>1, <1>3, <1>4, <1>5, <1>6, <1>7, <1>8, <1>9, <1>10, <1>11, <1>12, <1>13, <1>14, <1>15,
     <1>16, <1>17
  DEF Next, SchedulerStep

\* When the runner is over only the clock goes on, and ages are all it changes.
LEMMA OverIsQuiet ==
    ASSUME BeatInv, [Next]_vars, pc = "over"
    PROVE  file'.status = file.status
<1>1. CASE Clock BY <1>1 DEF Clock, BeatInv, IsBeat
<1>2. ASSUME NEW j \in Jobs, RunEnds(j) PROVE file' = file BY <1>2 DEF RunEnds
<1>3. CASE UNCHANGED vars BY <1>3 DEF vars
<1> QED
  BY <1>1, <1>2, <1>3
  DEF Next, SchedulerStep, TickLoop, ReapLane, LanesReaped, ReapMaintenance, DispatchLanes,
      DispatchMaintenance, Join, Drain, Interrupt, Refresh, BuildOnly, EmitLate, Kill, Restart,
      BeatInv

\* Whoever reads the heartbeat of a runner that is over reads how it ended
\* (ops.py, run(): the refresher's join comes before the last beat).
THEOREM LastBeatIsLast == Spec => LastBeatStays
<1>1. Init => BeatInv BY InitBeat
<1>2. BeatInv /\ [Next]_vars => BeatInv' BY StepBeat
<1>3. BeatInv /\ [Next]_vars => [pc = "over" => file'.status = file.status]_vars
  BY OverIsQuiet
<1> QED BY <1>1, <1>2, <1>3, PTL DEF Spec, LastBeatStays

-----------------------------------------------------------------------------
(* Facts about sets, sequences and the operators on them.                    *)

\* A set of subsets of a finite set has one that none of the others is smaller than.
LEMMA MinFin ==
    ASSUME NEW S, IsFiniteSet(S), NEW F \in SUBSET SUBSET S, F # {}
    PROVE  \E T \in F : \A U \in F : ~(U \subseteq T /\ U # T)
<1>1. \A T \in F : T \in FiniteSubsetsOf(S)  BY FS_Subset DEF FiniteSubsetsOf
<1>2. PICK x \in F : \A y \in F : ~ (<<y, x>> \in StrictSubsetOrdering(S))
  BY <1>1, FS_StrictSubsetOrderingWellFounded, WFMin
<1>3. QED BY <1>2 DEF StrictSubsetOrdering

\* Finite sets have a least element by any measure; sets of naturals have one anyway.
LEMMA LeastOf ==
    ASSUME NEW S, NEW T \in SUBSET S, IsFiniteSet(T), T # {}, NEW f \in [S -> Int]
    PROVE  \E x \in T : \A y \in T : f[x] <= f[y]
<1> DEFINE Below(x) == {y \in T : f[y] < f[x]}
           F == {Below(x) : x \in T}
<1>1. F \in SUBSET SUBSET T /\ F # {} OBVIOUS
<1>2. PICK U \in F : \A V \in F : ~(V \subseteq U /\ V # U)
  <2> HIDE DEF F
  <2> QED BY <1>1, MinFin
<1>3. PICK x \in T : U = Below(x) BY <1>2
<1>4. ASSUME NEW y \in T, f[y] < f[x] PROVE FALSE
  <2>1. y \in Below(x) /\ y \notin Below(y) BY <1>4
  <2>2. Below(y) \subseteq Below(x) BY <1>4
  <2> QED BY <1>2, <1>3, <2>1, <2>2
<1> QED BY <1>4

LEMMA LeastNat ==
    ASSUME NEW T \in SUBSET Nat, T # {}
    PROVE  \E x \in T : \A y \in T : x <= y
<1>1. PICK n \in T : TRUE OBVIOUS
<1> DEFINE B == T \cap 0..n
           id == [i \in Nat |-> i]
<1>2. IsFiniteSet(B) /\ B # {} /\ B \in SUBSET Nat
  <2>1. IsFiniteSet(0..n) BY <1>1, FS_Interval
  <2> QED BY <1>1, <2>1, FS_Subset
<1>3. PICK x \in B : \A y \in B : id[x] <= id[y]
  <2>1. id \in [Nat -> Int] OBVIOUS
  <2> HIDE DEF B, id
  <2> QED BY <1>2, <2>1, LeastOf
<1>4. \A y \in B : x <= y BY <1>3, <1>2
<1>5. \A y \in T : x <= y BY <1>1, <1>3, <1>4
<1> QED BY <1>3, <1>5

\* What Min and Max give.
LEMMA MinNat ==
    ASSUME NEW T \in SUBSET Nat, T # {}
    PROVE  Min(T) \in T /\ \A y \in T : Min(T) <= y
BY LeastNat DEF Min

LEMMA MinTwo == ASSUME NEW a \in Int, NEW b \in Int
                PROVE  Min({a, b}) = IF a <= b THEN a ELSE b
<1>1. \E x \in {a, b} : \A y \in {a, b} : x <= y OBVIOUS
<1>2. Min({a,b}) \in {a,b} /\ \A y \in {a,b} : Min({a,b}) <= y
  BY <1>1 DEF Min
<1> QED BY <1>2

LEMMA MaxTwo == ASSUME NEW a \in Int, NEW b \in Int
                PROVE  Max({a, b}) = IF a >= b THEN a ELSE b
<1>1. \E x \in {a, b} : \A y \in {a, b} : x >= y OBVIOUS
<1>2. Max({a,b}) \in {a,b} /\ \A y \in {a,b} : Max({a,b}) >= y
  BY <1>1 DEF Max
<1> QED BY <1>2

\* The equation of the recursion in Those, which has a solution up to any length.
Keeps(s, S, f, n) ==
    f = [i \in 0..n |-> IF i = 0 THEN <<>>
                        ELSE IF s[i] \in S THEN Append(f[i - 1], s[i]) ELSE f[i - 1]]

LEMMA ThoseExist ==
    ASSUME NEW s, NEW S, NEW m \in Nat PROVE \E f : Keeps(s, S, f, m)
<1> DEFINE Bad == {n \in Nat : ~\E f : Keeps(s, S, f, n)}
<1>1. SUFFICES ASSUME Bad # {} PROVE FALSE OBVIOUS
<1>2. PICK n \in Bad : \A k \in Bad : n <= k
  <2>1. Bad \in SUBSET Nat OBVIOUS
  <2> HIDE DEF Bad
  <2> QED BY <1>1, <2>1, LeastNat
<1>3. n # 0
  <2> DEFINE z == [i \in 0..0 |-> <<>>]
  <2>1. z = [i \in 0..0 |-> IF i = 0 THEN <<>>
                        ELSE IF s[i] \in S THEN Append(z[i - 1], s[i]) ELSE z[i - 1]]
    OBVIOUS
  <2>2. Keeps(s, S, z, 0) BY <2>1 DEF Keeps
  <2> QED BY <1>2, <2>2
<1>4. n - 1 \in Nat /\ n - 1 \notin Bad /\ n \in Nat BY <1>2, <1>3
<1>5. PICK f : Keeps(s, S, f, n - 1) BY <1>4
<1> DEFINE g == [i \in 0..n |-> IF i < n THEN f[i]
                                ELSE IF s[i] \in S THEN Append(f[i - 1], s[i]) ELSE f[i - 1]]
<1>6. f = [i \in 0..(n - 1) |-> IF i = 0 THEN <<>>
                        ELSE IF s[i] \in S THEN Append(f[i - 1], s[i]) ELSE f[i - 1]]
  BY <1>5 DEF Keeps
<1>7. ASSUME NEW i \in 0..n
      PROVE  g[i] = IF i = 0 THEN <<>>
                        ELSE IF s[i] \in S THEN Append(g[i - 1], s[i]) ELSE g[i - 1]
  <2>1. CASE i = n
    <3>1. g[i] = IF s[i] \in S THEN Append(f[i - 1], s[i]) ELSE f[i - 1] BY <2>1, <1>4
    <3>2. g[i - 1] = f[i - 1] BY <2>1, <1>4
    <3> QED BY <2>1, <1>3, <3>1, <3>2
  <2>2. CASE i < n
    <3>1. i \in 0..(n-1) /\ g[i] = f[i] BY <2>2, <1>4
    <3>2. i # 0 => i - 1 \in 0..n /\ i - 1 < n BY <2>2, <1>4
    <3>3. i # 0 => g[i - 1] = f[i - 1] BY <3>2
    <3>4. f[i] = IF i = 0 THEN <<>>
                 ELSE IF s[i] \in S THEN Append(f[i - 1], s[i]) ELSE f[i - 1]
      BY <3>1, <1>6
    <3> HIDE DEF g
    <3> QED BY <3>1, <3>3, <3>4
  <2> QED BY <2>1, <2>2, <1>4
<1>8. Keeps(s, S, g, n)
  <2>1. g = [i \in 0..n |-> g[i]] OBVIOUS
  <2> HIDE DEF g
  <2> QED BY <1>7, <2>1 DEF Keeps
<1> QED BY <1>2, <1>8

\* What a member more does to a sequence without repetition.
LEMMA AppendMembers ==
    ASSUME NEW X, NEW q \in Seq(X), NEW x \in X
    PROVE  /\ Append(q, x) \in Seq(X)
           /\ ToSet(Append(q, x)) = ToSet(q) \cup {x}
           /\ IsInjective(q) /\ x \notin ToSet(q) => IsInjective(Append(q, x))
<1> DEFINE p == Append(q, x)
<1>1. /\ p \in Seq(X) /\ Len(p) = Len(q) + 1 /\ Len(q) \in Nat
      /\ \A i \in 1..Len(q) : p[i] = q[i]
      /\ p[Len(q) + 1] = x
  BY AppendProperties
<1>2. DOMAIN p = 1..(Len(q) + 1) /\ DOMAIN q = 1..Len(q) BY <1>1
<1> HIDE DEF p
<1>3. ToSet(p) = ToSet(q) \cup {x}
  <2>1. \A y \in ToSet(p) : y \in ToSet(q) \cup {x}
    <3>1. \A i \in 1..(Len(q) + 1) : i \in 1..Len(q) \/ i = Len(q) + 1 BY <1>1
    <3> QED BY <1>1, <1>2, <3>1 DEF ToSet
  <2>2. \A y \in ToSet(q) \cup {x} : y \in ToSet(p)
    <3>1. Len(q) + 1 \in 1..(Len(q) + 1) /\ \A i \in 1..Len(q) : i \in 1..(Len(q) + 1) BY <1>1
    <3> QED BY <1>1, <1>2, <3>1 DEF ToSet
  <2> QED BY <2>1, <2>2
<1>4. ASSUME IsInjective(q), x \notin ToSet(q) PROVE IsInjective(p)
  <2> SUFFICES ASSUME NEW a \in DOMAIN p, NEW b \in DOMAIN p, p[a] = p[b] PROVE a = b
    BY DEF IsInjective
  <2>1. a \in 1..Len(q) => p[a] \in ToSet(q) BY <1>1, <1>2 DEF ToSet
  <2>2. b \in 1..Len(q) => p[b] \in ToSet(q) BY <1>1, <1>2 DEF ToSet
  <2>3. a \in 1..Len(q) \/ a = Len(q) + 1 BY <1>1, <1>2
  <2>4. b \in 1..Len(q) \/ b = Len(q) + 1 BY <1>1, <1>2
  <2>5. a \in 1..Len(q) /\ b \in 1..Len(q) => a = b BY <1>1, <1>2, <1>4 DEF IsInjective
  <2> QED BY <1>1, <1>4, <2>1, <2>2, <2>3, <2>4, <2>5
<1> QED BY <1>1, <1>3, <1>4 DEF p

\* What is kept of the first n members.
KeptOf(s, S, X, q, n) ==
    /\ q \in Seq(X)
    /\ ToSet(q) = {s[i] : i \in 1..n} \cap S
    /\ IsInjective(s) => IsInjective(q)

\* A list comprehension gives the members that qualify, each as often as the sequence has it.
LEMMA ThoseAre ==
    ASSUME NEW X, NEW s \in Seq(X), NEW S
    PROVE  /\ Those(s, S) \in Seq(X)
           /\ ToSet(Those(s, S)) = ToSet(s) \cap S
           /\ IsInjective(s) => IsInjective(Those(s, S))
<1> DEFINE kept == CHOOSE kept : kept = [n \in 0..Len(s) |->
                        IF n = 0 THEN <<>>
                        ELSE IF s[n] \in S THEN Append(kept[n - 1], s[n]) ELSE kept[n - 1]]
           Bad == {n \in 0..Len(s) : ~KeptOf(s, S, X, kept[n], n)}
<1>l. Len(s) \in Nat /\ DOMAIN s = 1..Len(s) /\ \A i \in 1..Len(s) : s[i] \in X
  <2>1. \A i \in 1..Len(s) : s[i] \in X BY ElementOfSeq
  <2> QED BY <2>1
<1>1. kept = [n \in 0..Len(s) |->
                        IF n = 0 THEN <<>>
                        ELSE IF s[n] \in S THEN Append(kept[n - 1], s[n]) ELSE kept[n - 1]]
  <2>1. \E f : Keeps(s, S, f, Len(s)) BY <1>l, ThoseExist
  <2> QED BY <2>1 DEF Keeps
<1> HIDE DEF kept
<1>2. KeptOf(s, S, X, kept[0], 0)
  <2>1. kept[0] = <<>> BY <1>l, <1>1
  <2>2. {s[i] : i \in 1..0} = {} OBVIOUS
  <2>3. <<>> \in Seq(X) /\ ToSet(<<>>) = {} /\ IsInjective(<<>>) BY DEF ToSet, IsInjective
  <2> QED BY <2>1, <2>2, <2>3 DEF KeptOf
<1>3. ASSUME NEW n \in 1..Len(s), KeptOf(s, S, X, kept[n - 1], n - 1)
      PROVE  KeptOf(s, S, X, kept[n], n)
  <2> DEFINE q == kept[n - 1]
  <2>1. kept[n] = IF s[n] \in S THEN Append(q, s[n]) ELSE q
    <3>1. n \in 0..Len(s) /\ n # 0 BY <1>l
    <3> QED BY <1>1, <3>1
  <2>2. /\ q \in Seq(X) /\ ToSet(q) = {s[i] : i \in 1..(n - 1)} \cap S
        /\ IsInjective(s) => IsInjective(q)
    BY <1>3 DEF KeptOf
  <2>3. s[n] \in X BY <1>l
  <2>4. {s[i] : i \in 1..n} = {s[i] : i \in 1..(n - 1)} \cup {s[n]}
    <3>1. 1..n = 1..(n - 1) \cup {n} BY <1>l
    <3> QED BY <3>1
  <2>5. IsInjective(s) => s[n] \notin {s[i] : i \in 1..(n - 1)}
    <3>1. \A i \in 1..(n - 1) : i \in DOMAIN s /\ n \in DOMAIN s /\ i # n BY <1>l
    <3> QED BY <3>1 DEF IsInjective
  <2> HIDE DEF q
  <2>6. CASE s[n] \in S
    <3>1. /\ Append(q, s[n]) \in Seq(X) /\ ToSet(Append(q, s[n])) = ToSet(q) \cup {s[n]}
          /\ IsInjective(q) /\ s[n] \notin ToSet(q) => IsInjective(Append(q, s[n]))
      BY <2>2, <2>3, AppendMembers
    <3>2. kept[n] = Append(q, s[n]) BY <2>1, <2>6
    <3> QED BY <2>2, <2>4, <2>5, <2>6, <3>1, <3>2 DEF KeptOf
  <2>7. CASE s[n] \notin S
    <3>1. kept[n] = q BY <2>1, <2>7
    <3> QED BY <2>2, <2>4, <2>7, <3>1 DEF KeptOf
  <2> QED BY <2>6, <2>7
<1>4. Bad = {}
  <2> SUFFICES ASSUME Bad # {} PROVE FALSE OBVIOUS
  <2>1. PICK n \in Bad : \A k \in Bad : n <= k
    <3>1. Bad \in SUBSET Nat OBVIOUS
    <3> HIDE DEF Bad
    <3> QED BY <3>1, LeastNat
  <2>2. n # 0 BY <1>2, <2>1
  <2>3. n \in 1..Len(s) /\ n - 1 \in 0..Len(s) /\ n - 1 \notin Bad BY <1>l, <2>1, <2>2
  <2> QED BY <1>3, <2>1, <2>3
<1>5. KeptOf(s, S, X, kept[Len(s)], Len(s)) BY <1>4, <1>l
<1>6. Those(s, S) = kept[Len(s)] BY DEF Those, kept
<1>7. ToSet(s) = {s[i] : i \in 1..Len(s)} BY <1>l DEF ToSet
<1> QED BY <1>5, <1>6, <1>7 DEF KeptOf

\* Sequences without repetition: their length, concatenation, prefixes and tail.
LEMMA LenIsCardinality ==
    ASSUME NEW X, NEW s \in Seq(X), IsInjective(s)
    PROVE  IsFiniteSet(ToSet(s)) /\ Cardinality(ToSet(s)) = Len(s)
<1>1. Len(s) \in Nat /\ DOMAIN s = 1..Len(s) OBVIOUS
<1>2. IsFiniteSet(DOMAIN s) /\ Cardinality(DOMAIN s) = Len(s)
  <2>1. IsFiniteSet(1..Len(s)) /\ Cardinality(1..Len(s)) = IF 1 > Len(s) THEN 0 ELSE Len(s) - 1 + 1
    BY <1>1, FS_Interval
  <2> QED BY <1>1, <2>1
<1>3. s \in [DOMAIN s -> ToSet(s)] BY DEF ToSet
<1>4. s \in Injection(DOMAIN s, ToSet(s)) BY <1>3 DEF Injection, IsInjective
<1>5. s \in Surjection(DOMAIN s, ToSet(s)) BY <1>3 DEF Surjection, ToSet
<1> QED BY <1>2, <1>4, <1>5, FS_Surjection

LEMMA ConcatMembers ==
    ASSUME NEW X, NEW s \in Seq(X), NEW t \in Seq(X)
    PROVE  /\ s \o t \in Seq(X) /\ Len(s \o t) = Len(s) + Len(t)
           /\ ToSet(s \o t) = ToSet(s) \cup ToSet(t)
           /\ IsInjective(s) /\ IsInjective(t) /\ ToSet(s) \cap ToSet(t) = {} => IsInjective(s \o t)
<1> DEFINE p == s \o t
<1>1. /\ p \in Seq(X) /\ Len(p) = Len(s) + Len(t) /\ Len(s) \in Nat /\ Len(t) \in Nat
      /\ DOMAIN p = 1..(Len(s) + Len(t)) /\ DOMAIN s = 1..Len(s) /\ DOMAIN t = 1..Len(t)
      /\ \A i \in 1..(Len(s) + Len(t)) : p[i] = IF i <= Len(s) THEN s[i] ELSE t[i - Len(s)]
  BY ConcatProperties
<1> HIDE DEF p
<1>2. \A i \in DOMAIN p : \/ i \in DOMAIN s /\ p[i] = s[i]
                          \/ i - Len(s) \in DOMAIN t /\ p[i] = t[i - Len(s)]
  BY <1>1
<1>3. \A i \in DOMAIN s : i \in DOMAIN p /\ p[i] = s[i] BY <1>1
<1>4. \A i \in DOMAIN t : i + Len(s) \in DOMAIN p /\ p[i + Len(s)] = t[i]
  <2> SUFFICES ASSUME NEW i \in DOMAIN t PROVE i + Len(s) \in DOMAIN p /\ p[i + Len(s)] = t[i]
    OBVIOUS
  <2>1. i \in Nat /\ i >= 1 /\ i <= Len(t) BY <1>1
  <2>2. i + Len(s) \in 1..(Len(s) + Len(t)) /\ ~(i + Len(s) <= Len(s)) /\ i + Len(s) - Len(s) = i
    BY <1>1, <2>1
  <2> QED BY <1>1, <2>2
<1>5. ToSet(p) = ToSet(s) \cup ToSet(t)
  <2>1. \A x \in ToSet(p) : x \in ToSet(s) \cup ToSet(t) BY <1>2 DEF ToSet
  <2>2. \A x \in ToSet(s) : x \in ToSet(p) BY <1>3 DEF ToSet
  <2>3. \A x \in ToSet(t) : x \in ToSet(p) BY <1>4 DEF ToSet
  <2> QED BY <2>1, <2>2, <2>3
<1>6. ASSUME IsInjective(s), IsInjective(t), ToSet(s) \cap ToSet(t) = {} PROVE IsInjective(p)
  <2> SUFFICES ASSUME NEW a \in DOMAIN p, NEW b \in DOMAIN p, p[a] = p[b] PROVE a = b
    BY DEF IsInjective
  <2>1. a \in Int /\ b \in Int /\ Len(s) \in Int BY <1>1
  <2>2. CASE a \in DOMAIN s /\ b \in DOMAIN s BY <1>3, <1>6, <2>2 DEF IsInjective
  <2>3. ASSUME NEW i \in DOMAIN s, NEW k \in DOMAIN t PROVE s[i] # t[k]
    BY <1>6 DEF ToSet
  <2>4. CASE a \notin DOMAIN s /\ b \notin DOMAIN s
    <3>1. /\ a - Len(s) \in DOMAIN t /\ p[a] = t[a - Len(s)]
          /\ b - Len(s) \in DOMAIN t /\ p[b] = t[b - Len(s)]
      BY <1>2, <2>4
    <3>2. a - Len(s) = b - Len(s) BY <1>6, <3>1 DEF IsInjective
    <3> QED BY <2>1, <3>2
  <2>5. ~(a \in DOMAIN s /\ b \notin DOMAIN s) BY <1>2, <1>3, <2>3
  <2>6. ~(b \in DOMAIN s /\ a \notin DOMAIN s) BY <1>2, <1>3, <2>3
  <2> QED BY <2>2, <2>4, <2>5, <2>6
<1> QED BY <1>1, <1>5, <1>6 DEF p

LEMMA PrefixMembers ==
    ASSUME NEW X, NEW s \in Seq(X), NEW n \in Nat, n <= Len(s)
    PROVE  /\ SubSeq(s, 1, n) \in Seq(X) /\ Len(SubSeq(s, 1, n)) = n
           /\ ToSet(SubSeq(s, 1, n)) \subseteq ToSet(s)
           /\ IsInjective(s) => IsInjective(SubSeq(s, 1, n))
<1> DEFINE p == SubSeq(s, 1, n)
<1>1. Len(s) \in Nat /\ DOMAIN s = 1..Len(s) OBVIOUS
<1>2. \A i \in 1..n : s[i] \in X
  <2>1. \A i \in 1..n : i \in 1..Len(s) BY <1>1
  <2> QED BY <2>1, ElementOfSeq
<1>3. /\ p \in Seq(X)
      /\ Len(p) = IF 1 <= n THEN n - 1 + 1 ELSE 0
      /\ \A i \in 1..(n - 1 + 1) : p[i] = s[1 + i - 1]
  <2>1. 1 \in Int /\ n \in Int OBVIOUS
  <2> QED BY <1>2, <2>1, SubSeqProperties
<1>4. Len(p) = n /\ DOMAIN p = 1..n /\ \A i \in 1..n : p[i] = s[i] /\ i \in DOMAIN s
  <2>1. Len(p) = n /\ n - 1 + 1 = n BY <1>3
  <2>2. DOMAIN p = 1..n BY <1>3, <2>1
  <2>3. \A i \in 1..n : 1 + i - 1 = i /\ i \in DOMAIN s BY <1>1
  <2> QED BY <1>3, <2>1, <2>2, <2>3
<1> HIDE DEF p
<1>5. ToSet(p) \subseteq ToSet(s) BY <1>4 DEF ToSet
<1>6. IsInjective(s) => IsInjective(p) BY <1>4 DEF IsInjective
<1> QED BY <1>3, <1>4, <1>5, <1>6 DEF p

LEMMA TailMembers ==
    ASSUME NEW X, NEW s \in Seq(X), s # <<>>
    PROVE  /\ Head(s) \in X /\ Head(s) \in ToSet(s) /\ Tail(s) \in Seq(X)
           /\ ToSet(Tail(s)) \subseteq ToSet(s)
           /\ IsInjective(s) => IsInjective(Tail(s)) /\ Head(s) \notin ToSet(Tail(s))
<1>1. /\ Len(s) \in Nat /\ Len(s) >= 1 /\ DOMAIN s = 1..Len(s)
      /\ Head(s) \in X /\ Head(s) = s[1]
      /\ Tail(s) \in Seq(X) /\ Len(Tail(s)) = Len(s) - 1
      /\ \A i \in 1..Len(Tail(s)) : Tail(s)[i] = s[i + 1]
  BY HeadTailProperties, EmptySeq
<1>2. DOMAIN Tail(s) = 1..(Len(s) - 1) BY <1>1
<1>3. \A i \in DOMAIN Tail(s) : i + 1 \in DOMAIN s /\ i + 1 # 1 /\ Tail(s)[i] = s[i + 1] /\ i \in Int
  BY <1>1, <1>2
<1>4. 1 \in DOMAIN s BY <1>1
<1>5. ToSet(Tail(s)) \subseteq ToSet(s) BY <1>3 DEF ToSet
<1>6. ASSUME IsInjective(s) PROVE IsInjective(Tail(s)) /\ Head(s) \notin ToSet(Tail(s))
  <2>1. ASSUME NEW a \in DOMAIN Tail(s), NEW b \in DOMAIN Tail(s), Tail(s)[a] = Tail(s)[b] PROVE a = b
    <3>1. a + 1 = b + 1 BY <1>3, <1>6, <2>1 DEF IsInjective
    <3> QED BY <1>3, <3>1
  <2>2. Head(s) \notin ToSet(Tail(s)) BY <1>1, <1>3, <1>4, <1>6 DEF IsInjective, ToSet
  <2> QED BY <2>1, <2>2 DEF IsInjective
<1> QED BY <1>1, <1>4, <1>5, <1>6 DEF ToSet

-----------------------------------------------------------------------------
(* What is launched is accounted for.                                        *)

Executions == [Jobs -> [state : {"idle", "running", "success", "error", "hung"},
                        started : Age, ended : Age]]
Rows == [Jobs -> [status : {"missing", "success", "error"}, age : Age]]

\* The futures an iteration reaps are done, and each is in the pool once.
BatchInv ==
    /\ batch # <<>> => pc = "reap"
    /\ IsInjective(batch)
    /\ \A l \in ToSet(batch) : l \in ToSet(futures) /\ Done(l)

\* What a bounded runner has launched is reported or in flight.
CountInv ==
    /\ Limited /\ pc # "dead" => launched = count + InFlight /\ launched <= mode.limit
    /\ pc \in {"over", "dead"} => futures = <<>> /\ slot = None

LaunchInv == TypeOK /\ OneRunPerJob /\ BatchInv /\ CountInv

\* Types of the constants and of what is built from them.
LEMMA ModeIs ==
    ASSUME mode \in Modes
    PROVE  /\ mode.enabled \subseteq Jobs /\ mode.concurrency \in Nat \ {0}
           /\ Limited => mode.limit \in Nat
           /\ mode.troubles \subseteq Kinds
BY SchedulerAssumption DEF Limited

LEMMA AgeIs ==
    /\ Cap \in Nat /\ 0 \in Age /\ Cap \in Age /\ Age \subseteq Nat /\ NotActive \in 0..NotActive
    /\ \A n \in Age : Older(n) \in Age /\ n \in 0..NotActive
    /\ \A n \in 0..NotActive : n # NotActive => n \in Age
<1>1. Cap \in Nat BY SchedulerAssumption
<1>2. ASSUME NEW n \in Age PROVE Older(n) \in Age
  <2>1. n + 1 \in Int /\ Cap \in Int /\ n \in Nat BY <1>1 DEF Age
  <2>2. Older(n) = IF n + 1 <= Cap THEN n + 1 ELSE Cap BY <2>1, MinTwo DEF Older
  <2> QED BY <1>1, <2>1, <2>2 DEF Age
<1> QED BY <1>1, <1>2 DEF Age, NotActive

LEMMA JobsAre == /\ IsFiniteSet(Lanes) /\ IsFiniteSet(Maint) /\ IsFiniteSet(Jobs)
                 /\ Lanes \cap Maint = {} /\ None \notin Jobs
                 /\ LaneSeq \in Seq(Lanes) /\ MaintSeq \in Seq(Maint)
                 /\ IsInjective(LaneSeq) /\ IsInjective(MaintSeq)
<1>1. /\ LaneSeq \in Seq(Lanes) /\ MaintSeq \in Seq(Maint)
      /\ IsInjective(LaneSeq) /\ IsInjective(MaintSeq)
      /\ Lanes \cap Maint = {} /\ None \notin Jobs
  BY SchedulerAssumption DEF ConfigAccepted
<1>2. IsFiniteSet(Lanes) BY <1>1, LenIsCardinality DEF Lanes
<1>3. IsFiniteSet(Maint) BY <1>1, LenIsCardinality DEF Maint
<1> QED BY <1>1, <1>2, <1>3, FS_Union DEF Jobs

\* The slot counts for one run or none.
LEMMA SlotIs == \A s : Cardinality({s} \ {None}) = IF s = None THEN 0 ELSE 1
<1> SUFFICES ASSUME NEW s PROVE Cardinality({s} \ {None}) = IF s = None THEN 0 ELSE 1
  OBVIOUS
<1>1. CASE s = None
  <2>1. {s} \ {None} = {} BY <1>1
  <2> QED BY <1>1, <2>1, FS_EmptySet
<1>2. CASE s # None
  <2>1. {s} \ {None} = {s} BY <1>2
  <2> QED BY <1>2, <2>1, FS_Singleton
<1> QED BY <1>1, <1>2

LEMMA PayloadTyped ==
    ASSUME NEW s \in Statuses, NEW e \in Executions, NEW a \in Age
    PROVE  Payload(s, e, a) \in Beat
<1>1. \A j \in Jobs : (IF e[j].state = "idle" THEN NotActive ELSE e[j].started) \in 0..NotActive
  BY AgeIs DEF Executions
<1> QED BY <1>1, AgeIs DEF Payload, Beat, Statuses

LEMMA TroubleTyped ==
    ASSUME TypeOK, NEW k, Trouble(k) PROVE troubles' \subseteq Kinds
BY ModeIs DEF Trouble, TypeOK

LEMMA EmitTyped ==
    ASSUME TypeOK, NEW p \in Beat, Emit(p)
    PROVE  file' \in Beat /\ troubles' \subseteq Kinds
BY TroubleTyped DEF Emit, Fails, TypeOK

LEMMA IdleTyped == AllIdle \in Executions /\ Idle.state = "idle" /\ Running.state = "running"
                   /\ Idle \in [state : {"idle", "running", "success", "error", "hung"},
                                started : Age, ended : Age]
                   /\ Running \in [state : {"idle", "running", "success", "error", "hung"},
                                started : Age, ended : Age]
BY AgeIs DEF AllIdle, Executions, Idle, Running

LEMMA QuietTyped == Starting \in Beat /\ Quiet \in [pc : {"wait", "emit", "gone"}, due : BOOLEAN, payload : Beat]
BY AgeIs, IdleTyped, PayloadTyped DEF Starting, Quiet, Statuses

\* A job's runs begin and end, and nothing is launched or reported.
LEMMA NothingLaunched ==
    ASSUME LaunchInv, TypeOK', UNCHANGED <<mode, futures, slot, count, launched, batch>>,
           \A j \in Jobs : (Active(j)' <=> Active(j)) /\ (Done(j) => Done(j)'),
           pc' = pc \/ (pc # "dead" /\ pc' \notin {"over", "dead"}),
           batch # <<>> => pc' = "reap"
    PROVE  LaunchInv'
<1>1. \A j \in Jobs : Active(j)' <=> Active(j) OBVIOUS
<1>2. {j \in Lanes : Active(j)}' = {j \in Lanes : Active(j)}
  BY <1>1 DEF Jobs
<1>3. {j \in Maint : Active(j)}' = {j \in Maint : Active(j)}
  BY <1>1 DEF Jobs
<1>4. OneRunPerJob' BY <1>2, <1>3 DEF LaunchInv, OneRunPerJob
<1>5. ToSet(futures) \subseteq Jobs BY DEF LaunchInv, OneRunPerJob, Jobs
<1>6. BatchInv' BY <1>5 DEF LaunchInv, BatchInv
<1>7. CountInv' BY DEF LaunchInv, CountInv, InFlight, Limited
<1> QED BY <1>4, <1>6, <1>7 DEF LaunchInv

LEMMA InitLaunch == Init => LaunchInv
<1> SUFFICES ASSUME Init PROVE LaunchInv
  OBVIOUS
<1>1. /\ IsInjective(<<>>) /\ ToSet(<<>>) = {} /\ Len(<<>>) = 0 /\ <<>> \in Seq(Lanes)
  BY DEF IsInjective, ToSet
<1>2. \A j \in Jobs : ~Active(j) BY IdleTyped DEF Init, Active, AllIdle
<1>3. TypeOK
  <2>1. left \in [Jobs -> Int] BY DEF Init, AllDue
  <2>2. rows \in Rows BY AgeIs DEF Init, Rows, NoRow
  <2>3. failure \in Age /\ tick \in Age BY AgeIs DEF Init
  <2> QED BY <1>1, <2>1, <2>2, <2>3, IdleTyped, QuietTyped DEF Init, TypeOK, Executions, Rows
<1>5. OneRunPerJob BY <1>1, <1>2, <1>3, ModeIs DEF Init, OneRunPerJob, TypeOK, Jobs
<1>6. BatchInv BY <1>1 DEF Init, BatchInv
<1>7. CountInv
  <2>1. Cardinality({slot} \ {None}) = 0 BY SlotIs DEF Init
  <2>2. InFlight = 0 BY <1>1, <2>1 DEF InFlight, Init
  <2> QED BY <1>3, <2>2, ModeIs DEF Init, CountInv, TypeOK
<1> QED BY <1>3, <1>5, <1>6, <1>7 DEF LaunchInv

\* _finalize_run of jobs that have ended.
LEMMA FinalizeTyped ==
    ASSUME TypeOK, NEW S \in SUBSET Jobs, \A j \in S : Done(j), NEW noted \in BOOLEAN,
           Finalize(S, noted)
    PROVE  /\ execution' \in Executions /\ left' \in [Jobs -> Int] /\ rows' \in Rows
           /\ failure' \in Age
           /\ count' \in Nat /\ Cardinality(S) \in Nat
           /\ count' = IF Limited THEN count + Cardinality(S) ELSE count
           /\ \A j \in Jobs : execution'[j] = IF j \in S THEN Idle ELSE execution[j]
<1>1. /\ execution' = [j \in Jobs |-> IF j \in S THEN Idle ELSE execution[j]]
      /\ left' = [j \in Jobs |-> IF j \in S THEN Interval[j] - execution[j].ended ELSE left[j]]
      /\ count' = IF Limited THEN count + Cardinality(S) ELSE count
      /\ rows' = [j \in Jobs |-> IF j \in S /\ noted
                               THEN [status |-> execution[j].state, age |-> execution[j].ended]
                               ELSE rows[j]]
      /\ failure' = Min({failure} \cup {execution[j].ended :
                        j \in {k \in S : noted /\ execution[k].state = "error"}})
  BY DEF Finalize
<1>2. /\ execution \in Executions /\ left \in [Jobs -> Int] /\ count \in Nat /\ rows \in Rows
      /\ failure \in Age
  BY DEF TypeOK, Executions, Rows
<1>3. execution' \in Executions BY <1>1, <1>2, IdleTyped DEF Executions
<1>4. left' \in [Jobs -> Int]
  <2>1. ASSUME NEW j \in Jobs PROVE Interval[j] - execution[j].ended \in Int
    <3>1. execution[j].ended \in Nat BY <1>2, AgeIs DEF Executions
    <3>2. Interval[j] \in Nat BY SchedulerAssumption
    <3> QED BY <3>1, <3>2
  <2> QED BY <1>1, <1>2, <2>1
<1>5. rows' \in Rows BY <1>1, <1>2 DEF Rows, Executions, Done
<1>6. failure' \in Age
  <2> DEFINE T == {failure} \cup {execution[j].ended :
                        j \in {k \in S : noted /\ execution[k].state = "error"}}
  <2>1. T \subseteq Age BY <1>2 DEF Executions
  <2>2. T \in SUBSET Nat /\ T # {} BY <2>1, AgeIs
  <2>3. Min(T) \in T
    <3> HIDE DEF T
    <3> QED BY <2>2, MinNat
  <2> QED BY <1>1, <2>1, <2>3
<1>7. Cardinality(S) \in Nat /\ count' \in Nat
  <2>1. Cardinality(S) \in Nat BY JobsAre, FS_Subset, FS_CardinalityType
  <2> QED BY <1>1, <1>2, <2>1
<1> QED BY <1>1, <1>3, <1>4, <1>5, <1>6, <1>7

\* One finished run: it is off the active set, counted, and told.
LEMMA ReapIs ==
    ASSUME TypeOK, NEW j \in Jobs, Done(j), Reap(j)
    PROVE  /\ execution' \in Executions /\ left' \in [Jobs -> Int] /\ rows' \in Rows
           /\ failure' \in Age /\ count' \in Nat /\ file' \in Beat /\ troubles' \subseteq Kinds
           /\ pending' \in {"no", "error", "interrupt"}
           /\ count' = IF Limited THEN count + 1 ELSE count
           /\ \A k \in Jobs : execution'[k] = IF k = j THEN Idle ELSE execution[k]
<1> DEFINE stops == execution[j].state = "error" /\ mode.stopOnError
           says == Payload(IF stops THEN "error" ELSE Resolved(execution'), execution', tick)
<1>1. /\ \/ Finalize({j}, TRUE) /\ Emit(says)
         \/ Finalize({j}, FALSE) /\ Fails /\ file' = says
      /\ pending' = IF stops THEN "error" ELSE pending
  BY Zenon DEF Reap
<1>2. PICK noted \in BOOLEAN : Finalize({j}, noted) BY <1>1
<1>3. Cardinality({j}) = 1 BY FS_Singleton
<1>4. {j} \in SUBSET Jobs /\ \A k \in {j} : Done(k) OBVIOUS
<1>5. /\ execution' \in Executions /\ left' \in [Jobs -> Int] /\ rows' \in Rows
      /\ failure' \in Age
      /\ count' \in Nat
      /\ count' = IF Limited THEN count + 1 ELSE count
      /\ \A k \in Jobs : execution'[k] = IF k \in {j} THEN Idle ELSE execution[k]
  BY <1>2, <1>3, <1>4, FinalizeTyped
<1>6. (IF stops THEN "error" ELSE Resolved(execution')) \in Statuses
  BY ResolvedStatus DEF Statuses
<1>7. says \in Beat BY <1>5, <1>6, PayloadTyped DEF TypeOK
<1>8. file' \in Beat /\ troubles' \subseteq Kinds
  <2> HIDE DEF says
  <2> QED BY <1>1, <1>7, EmitTyped, TroubleTyped DEF Fails
<1>9. pending' \in {"no", "error", "interrupt"} BY <1>1 DEF TypeOK
<1> QED BY <1>5, <1>8, <1>9

\* Runs begin, of jobs that were idle.
LEMMA LaunchIs ==
    ASSUME TypeOK, NEW S \in SUBSET Jobs, Launch(S)
    PROVE  /\ execution' \in Executions /\ launched' \in Nat
           /\ launched' = IF Limited THEN launched + Cardinality(S) ELSE launched
           /\ \A j \in Jobs : execution'[j] = IF j \in S THEN Running ELSE execution[j]
<1>1. Cardinality(S) \in Nat BY JobsAre, FS_Subset, FS_CardinalityType
<1> QED BY <1>1, IdleTyped DEF Launch, TypeOK, Executions

\* The steps of the scheduler thread.
LEMMA StepTick == ASSUME LaunchInv, TickLoop PROVE LaunchInv'
<1>1. /\ pc = "tick" /\ tick' = 0 /\ worked' = FALSE
      /\ UNCHANGED <<mode, queue, log, pending, beat, file, troubles>>
      /\ pc' \in {"join", "reap"}
      /\ \/ batch' = batch
         \/ pc' = "reap" /\ batch' = Those(futures, {l \in Lanes : Done(l)})
  BY DEF TickLoop
<1>2. batch = <<>> BY <1>1 DEF LaunchInv, BatchInv
<1>3. futures \in Seq(Lanes) /\ IsInjective(futures) BY DEF LaunchInv, TypeOK, OneRunPerJob
<1>4. CASE batch' = batch
  <2>1. TypeOK' BY <1>1, <1>4, AgeIs DEF LaunchInv, TypeOK
  <2>2. \A j \in Jobs : (Active(j)' <=> Active(j)) /\ (Done(j) => Done(j)')
    BY <1>1 DEF Active, Done
  <2> QED BY <1>1, <1>2, <1>4, <2>1, <2>2, NothingLaunched
<1>5. CASE pc' = "reap" /\ batch' = Those(futures, {l \in Lanes : Done(l)})
  <2> DEFINE D == {l \in Lanes : Done(l)}
  <2>1. /\ Those(futures, D) \in Seq(Lanes) /\ ToSet(Those(futures, D)) = ToSet(futures) \cap D
        /\ IsInjective(Those(futures, D))
    BY <1>3, ThoseAre
  <2>2. batch' \in Seq(Lanes) /\ ToSet(batch') = ToSet(futures) \cap D /\ IsInjective(batch')
    BY <1>5, <2>1
  <2>3. TypeOK' BY <1>1, <1>5, <2>2, AgeIs DEF LaunchInv, TypeOK
  <2>4. UNCHANGED <<mode, futures, slot, execution, count, launched>> BY <1>1
  <2>5. OneRunPerJob' BY <2>4 DEF LaunchInv, OneRunPerJob, Active
  <2>6. BatchInv' BY <1>5, <2>2, <2>4 DEF BatchInv, Done
  <2>7. CountInv' BY <1>1, <1>5, <2>4 DEF LaunchInv, CountInv, InFlight, Limited
  <2> QED BY <2>3, <2>5, <2>6, <2>7 DEF LaunchInv
<1> QED BY <1>1, <1>4, <1>5

LEMMA StepReapLane == ASSUME LaunchInv, ReapLane PROVE LaunchInv'
<1> DEFINE h == Head(batch)
<1>1. /\ pc = "reap" /\ batch # <<>> /\ Reap(h)
      /\ futures' = Those(futures, Lanes \ {h})
      /\ batch' = Tail(batch) \/ batch' = <<>>
      /\ UNCHANGED <<mode, pc, worked, slot, launched, tick, beat>>
  BY DEF ReapLane
<1>2. TypeOK /\ batch \in Seq(Lanes) /\ IsInjective(batch)
  BY DEF LaunchInv, TypeOK, BatchInv
<1>3. futures \in Seq(Lanes) /\ IsInjective(futures) /\ ToSet(futures) = {j \in Lanes : Active(j)}
  BY DEF LaunchInv, TypeOK, OneRunPerJob
<1>4. /\ h \in Lanes /\ h \in ToSet(batch) /\ Tail(batch) \in Seq(Lanes)
      /\ ToSet(Tail(batch)) \subseteq ToSet(batch)
      /\ IsInjective(Tail(batch)) /\ h \notin ToSet(Tail(batch))
  BY <1>1, <1>2, TailMembers
<1>5. h \in Jobs /\ Done(h) /\ h \in ToSet(futures) /\ h \notin Maint /\ slot # h
  BY <1>4, JobsAre DEF LaunchInv, BatchInv, Jobs, TypeOK
<1> HIDE DEF h
<1>6. /\ execution' \in Executions /\ left' \in [Jobs -> Int] /\ rows' \in Rows
      /\ failure' \in Age /\ count' \in Nat /\ file' \in Beat /\ troubles' \subseteq Kinds
      /\ pending' \in {"no", "error", "interrupt"}
      /\ count' = IF Limited THEN count + 1 ELSE count
      /\ \A k \in Jobs : execution'[k] = IF k = h THEN Idle ELSE execution[k]
  BY <1>1, <1>2, <1>5, ReapIs
<1>7. /\ futures' \in Seq(Lanes) /\ ToSet(futures') = ToSet(futures) \ {h}
      /\ IsInjective(futures')
  <2>1. /\ Those(futures, Lanes \ {h}) \in Seq(Lanes)
        /\ ToSet(Those(futures, Lanes \ {h})) = ToSet(futures) \cap (Lanes \ {h})
        /\ IsInjective(Those(futures, Lanes \ {h}))
    BY <1>3, ThoseAre
  <2> QED BY <1>1, <1>3, <2>1
<1>8. Len(futures') = Len(futures) - 1 /\ Len(futures) \in Nat
  <2>1. IsFiniteSet(ToSet(futures)) /\ Cardinality(ToSet(futures)) = Len(futures)
    BY <1>3, LenIsCardinality
  <2>2. Cardinality(ToSet(futures')) = Len(futures') BY <1>7, LenIsCardinality
  <2>3. Cardinality(ToSet(futures) \ {h}) = Cardinality(ToSet(futures)) - 1
    BY <1>5, <2>1, FS_RemoveElement
  <2> QED BY <1>3, <1>7, <2>1, <2>2, <2>3
<1>9. batch' \in Seq(Lanes) /\ IsInjective(batch') /\ ToSet(batch') \subseteq ToSet(batch) \ {h}
  <2>1. CASE batch' = Tail(batch) BY <1>4, <2>1
  <2>2. CASE batch' = <<>>
    <3>1. <<>> \in Seq(Lanes) /\ IsInjective(<<>>) /\ ToSet(<<>>) = {} BY DEF IsInjective, ToSet
    <3> QED BY <2>2, <3>1
  <2> QED BY <1>1, <2>1, <2>2
<1>10. TypeOK'
  BY <1>1, <1>6, <1>7, <1>9 DEF LaunchInv, TypeOK, Executions, Rows
<1>11. \A k \in Jobs : Active(k)' <=> Active(k) /\ k # h
  BY <1>6, IdleTyped DEF Active
<1>12. OneRunPerJob'
  <2>1. {j \in Lanes : Active(j)}' = {j \in Lanes : Active(j)} \ {h} BY <1>11 DEF Jobs
  <2>2. {j \in Maint : Active(j)}' = {j \in Maint : Active(j)} BY <1>5, <1>11 DEF Jobs
  <2>3. Len(futures') <= mode.concurrency
    BY <1>2, <1>8, ModeIs DEF LaunchInv, OneRunPerJob, TypeOK
  <2> QED BY <1>1, <1>3, <1>7, <2>1, <2>2, <2>3 DEF LaunchInv, OneRunPerJob
<1>13. BatchInv'
  <2>1. \A l \in ToSet(batch') : l \in ToSet(futures') /\ l \in Jobs /\ l # h /\ Done(l)
    BY <1>3, <1>7, <1>9 DEF LaunchInv, BatchInv, Jobs
  <2>2. \A l \in ToSet(batch') : Done(l)' BY <1>6, <2>1 DEF Done
  <2> QED BY <1>1, <1>9, <2>1, <2>2 DEF BatchInv
<1>14. CountInv'
  <2>1. Limited' = Limited /\ count \in Nat BY <1>1, <1>2 DEF Limited, TypeOK
  <2>2. InFlight' = Len(futures') + Cardinality({slot} \ {None}) BY <1>1 DEF InFlight
  <2>3. InFlight = Len(futures) + Cardinality({slot} \ {None}) BY DEF InFlight
  <2>6. Cardinality({slot} \ {None}) \in Nat BY SlotIs
  <2>4. Limited => launched = count + InFlight /\ launched <= mode.limit
    BY <1>1 DEF LaunchInv, CountInv
  <2>5. Limited => count' + InFlight' = count + InFlight
    BY <1>6, <1>8, <2>1, <2>2, <2>3, <2>6
  <2> QED BY <1>1, <2>1, <2>4, <2>5 DEF CountInv
<1> QED BY <1>10, <1>12, <1>13, <1>14 DEF LaunchInv

LEMMA StepReapMaintenance == ASSUME LaunchInv, ReapMaintenance PROVE LaunchInv'
<1>1. /\ pc = "reapMaint" /\ pc' \in {"join", "dispatch"}
      /\ UNCHANGED <<mode, batch, worked, futures, launched, tick, beat>>
      /\ \/ slot # None /\ Done(slot) /\ Reap(slot) /\ slot' = None
         \/ UNCHANGED <<slot, execution, left, log, pending, file, troubles>>
  BY DEF ReapMaintenance
<1>2. batch = <<>> /\ TypeOK BY <1>1 DEF LaunchInv, BatchInv
<1>3. CASE UNCHANGED <<slot, execution, left, log, pending, file, troubles>>
  <2>1. TypeOK' BY <1>1, <1>2, <1>3 DEF TypeOK
  <2>2. \A j \in Jobs : (Active(j)' <=> Active(j)) /\ (Done(j) => Done(j)')
    BY <1>3 DEF Active, Done
  <2> QED BY <1>1, <1>2, <1>3, <2>1, <2>2, NothingLaunched
<1>4. CASE slot # None /\ Done(slot) /\ Reap(slot) /\ slot' = None
  <2>1. slot \in Maint /\ slot \in Jobs /\ slot \notin Lanes
    BY <1>2, <1>4, JobsAre DEF TypeOK, Jobs
  <2>2. /\ execution' \in Executions /\ left' \in [Jobs -> Int] /\ rows' \in Rows
        /\ failure' \in Age /\ count' \in Nat /\ file' \in Beat /\ troubles' \subseteq Kinds
        /\ pending' \in {"no", "error", "interrupt"}
        /\ count' = IF Limited THEN count + 1 ELSE count
        /\ \A k \in Jobs : execution'[k] = IF k = slot THEN Idle ELSE execution[k]
    BY <1>2, <1>4, <2>1, ReapIs
  <2>3. TypeOK' BY <1>1, <1>2, <1>4, <2>2 DEF TypeOK, Executions, Rows
  <2>4. \A k \in Jobs : Active(k)' <=> Active(k) /\ k # slot BY <2>2, IdleTyped DEF Active
  <2>5. OneRunPerJob'
    <3>1. {j \in Lanes : Active(j)}' = {j \in Lanes : Active(j)} BY <2>1, <2>4 DEF Jobs
    <3>2. {j \in Maint : Active(j)}' = {j \in Maint : Active(j)} \ {slot} BY <2>4 DEF Jobs
    <3>3. {slot} \ {None} = {j \in Maint : Active(j)} BY DEF LaunchInv, OneRunPerJob
    <3>4. {slot'} \ {None} = {} /\ {j \in Maint : Active(j)} \ {slot} = {} BY <1>4, <3>3
    <3> QED BY <1>1, <3>1, <3>2, <3>4 DEF LaunchInv, OneRunPerJob
  <2>6. BatchInv'
    <3>1. batch' = <<>> /\ ToSet(<<>>) = {} /\ IsInjective(<<>>)
      BY <1>1, <1>2 DEF ToSet, IsInjective
    <3> QED BY <3>1 DEF BatchInv
  <2>7. CountInv'
    <3>1. Limited' = Limited /\ count \in Nat /\ Len(futures) \in Nat
      BY <1>1, <1>2 DEF Limited, TypeOK
    <3>2. Cardinality({slot'} \ {None}) = 0 /\ Cardinality({slot} \ {None}) = 1
      BY <1>4, SlotIs
    <3>3. InFlight' = Len(futures) /\ InFlight = Len(futures) + 1
      BY <1>1, <3>1, <3>2 DEF InFlight
    <3> QED BY <1>1, <2>2, <3>1, <3>3 DEF LaunchInv, CountInv
  <2> QED BY <2>3, <2>5, <2>6, <2>7 DEF LaunchInv
<1> QED BY <1>1, <1>3, <1>4

\* The lanes that are started are due, and there is room for them.
LEMMA StartsAre ==
    ASSUME LaunchInv
    PROVE  /\ LanesToStart \in Seq(Lanes) /\ IsInjective(LanesToStart)
           /\ \A l \in ToSet(LanesToStart) : l \in Lanes /\ Due(l)
           /\ LanesToStart # <<>> =>
                /\ Len(futures) + Len(LanesToStart) <= mode.concurrency
                /\ Limited => count + InFlight + Len(LanesToStart) <= mode.limit
<1> DEFINE D == {l \in Lanes : Due(l)}
           due == Those(LaneSeq, D)
           n == Min({Len(due), Max({Room, 0})})
<1>1. due \in Seq(Lanes) /\ IsInjective(due) /\ ToSet(due) = ToSet(LaneSeq) \cap D
  BY JobsAre, ThoseAre
<1>2. LanesToStart = SubSeq(due, 1, n) BY DEF LanesToStart
<1>3. /\ mode.concurrency \in Nat /\ (Limited => mode.limit \in Nat) /\ Len(futures) \in Nat
      /\ count \in Nat /\ InFlight \in Nat
  <2>1. Cardinality({slot} \ {None}) \in Nat BY SlotIs
  <2> QED BY <2>1, ModeIs DEF LaunchInv, TypeOK, InFlight
<1>4. /\ Room \in Int /\ Room <= mode.concurrency - Len(futures)
      /\ Limited => Room <= mode.limit - (count + InFlight)
  <2>1. CASE Limited
    <3> DEFINE a == mode.concurrency - Len(futures)
               b == mode.limit - (count + InFlight)
    <3>1. a \in Int /\ b \in Int BY <1>3, <2>1
    <3>2. Room = Min({a, b}) BY <2>1 DEF Room
    <3>3. Min({a, b}) = IF a <= b THEN a ELSE b
      <4> HIDE DEF a, b
      <4> QED BY <3>1, MinTwo
    <3>4. Room \in Int /\ Room <= a /\ Room <= b
      <4> HIDE DEF a, b
      <4> QED BY <3>1, <3>2, <3>3
    <3> QED BY <3>4
  <2>2. CASE ~Limited BY <1>3, <2>2 DEF Room
  <2> QED BY <2>1, <2>2
<1>5. n \in Nat /\ n <= Len(due) /\ (n # 0 => n <= Room)
  <2>1. Max({Room, 0}) = IF Room >= 0 THEN Room ELSE 0 BY <1>4, MaxTwo
  <2>2. Max({Room, 0}) \in Int /\ Len(due) \in Nat BY <1>1, <1>4, <2>1
  <2>3. n = IF Len(due) <= Max({Room, 0}) THEN Len(due) ELSE Max({Room, 0})
    <3> DEFINE a == Len(due)
               b == Max({Room, 0})
    <3>1. a \in Int /\ b \in Int BY <2>2
    <3>2. n = Min({a, b}) OBVIOUS
    <3>3. Min({a, b}) = IF a <= b THEN a ELSE b
      <4> HIDE DEF a, b
      <4> QED BY <3>1, MinTwo
    <3> QED BY <3>2, <3>3
  <2> HIDE DEF due, n
  <2> QED BY <1>4, <2>1, <2>2, <2>3
<1> HIDE DEF due, n
<1>6. /\ SubSeq(due, 1, n) \in Seq(Lanes) /\ Len(SubSeq(due, 1, n)) = n
      /\ ToSet(SubSeq(due, 1, n)) \subseteq ToSet(due) /\ IsInjective(SubSeq(due, 1, n))
  BY <1>1, <1>5, PrefixMembers
<1>7. \A l \in ToSet(due) : l \in Lanes /\ Due(l) BY <1>1
<1>8. SubSeq(due, 1, n) # <<>> => n # 0 BY <1>6, EmptySeq
<1>9. LanesToStart # <<>> =>
                /\ Len(futures) + n <= mode.concurrency
                /\ Limited => count + InFlight + n <= mode.limit
  BY <1>2, <1>3, <1>4, <1>5, <1>8
<1> QED BY <1>2, <1>6, <1>7, <1>9

LEMMA StepDispatchLanes == ASSUME LaunchInv, DispatchLanes PROVE LaunchInv'
<1> DEFINE L == LanesToStart
<1>1. /\ pc = "dispatch" /\ pc' = "dispatchMaint"
      /\ UNCHANGED <<mode, batch, slot, left, log, tick, pending, beat>>
      /\ \/ UNCHANGED <<worked, futures, execution, launched, file, troubles>>
         \/ /\ L # <<>> /\ worked' = TRUE /\ futures' = futures \o L /\ Launch(ToSet(L))
            /\ Emit(Payload("running", execution', tick))
  BY DEF DispatchLanes
<1>2. batch = <<>> /\ TypeOK BY <1>1 DEF LaunchInv, BatchInv
<1>3. CASE UNCHANGED <<worked, futures, execution, launched, file, troubles>>
  <2>1. TypeOK' BY <1>1, <1>2, <1>3 DEF TypeOK
  <2>2. \A j \in Jobs : (Active(j)' <=> Active(j)) /\ (Done(j) => Done(j)')
    BY <1>3 DEF Active, Done
  <2> QED BY <1>1, <1>2, <1>3, <2>1, <2>2, NothingLaunched
<1>4. CASE /\ L # <<>> /\ worked' = TRUE /\ futures' = futures \o L /\ Launch(ToSet(L))
           /\ Emit(Payload("running", execution', tick))
  <2>1. /\ L \in Seq(Lanes) /\ IsInjective(L)
        /\ \A l \in ToSet(L) : l \in Lanes /\ ~Active(l)
        /\ Len(futures) + Len(L) <= mode.concurrency
        /\ Limited => count + InFlight + Len(L) <= mode.limit
    BY <1>4, StartsAre DEF Due
  <2> HIDE DEF L
  <2>2. IsFiniteSet(ToSet(L)) /\ Cardinality(ToSet(L)) = Len(L) BY <2>1, LenIsCardinality
  <2>3. ToSet(L) \in SUBSET Jobs /\ ToSet(L) \subseteq Lanes BY <2>1 DEF Jobs
  <2>4. /\ execution' \in Executions /\ launched' \in Nat
        /\ launched' = IF Limited THEN launched + Cardinality(ToSet(L)) ELSE launched
        /\ \A j \in Jobs : execution'[j] = IF j \in ToSet(L) THEN Running ELSE execution[j]
    BY <1>2, <1>4, <2>3, LaunchIs
  <2>5. /\ futures \in Seq(Lanes) /\ IsInjective(futures)
        /\ ToSet(futures) = {j \in Lanes : Active(j)}
    BY DEF LaunchInv, TypeOK, OneRunPerJob
  <2>6. /\ futures' \in Seq(Lanes) /\ Len(futures') = Len(futures) + Len(L)
        /\ ToSet(futures') = ToSet(futures) \cup ToSet(L)
        /\ IsInjective(futures')
    <3>1. ToSet(futures) \cap ToSet(L) = {} BY <2>1, <2>5
    <3> QED BY <1>4, <2>1, <2>5, <3>1, ConcatMembers
  <2>7. file' \in Beat /\ troubles' \subseteq Kinds
    <3>1. Payload("running", execution', tick) \in Beat
      BY <1>2, <2>4, PayloadTyped DEF TypeOK, Statuses
    <3> QED BY <1>2, <1>4, <3>1, EmitTyped
  <2>8. TypeOK' BY <1>1, <1>2, <1>4, <2>4, <2>6, <2>7 DEF TypeOK, Executions
  <2>9. \A k \in Jobs : Active(k)' <=> Active(k) \/ k \in ToSet(L)
    BY <2>4, IdleTyped DEF Active
  <2>10. OneRunPerJob'
    <3>1. {j \in Lanes : Active(j)}' = {j \in Lanes : Active(j)} \cup ToSet(L)
      BY <2>3, <2>9 DEF Jobs
    <3>2. {j \in Maint : Active(j)}' = {j \in Maint : Active(j)}
      BY <2>3, <2>9, JobsAre DEF Jobs
    <3> QED BY <1>1, <2>1, <2>5, <2>6, <3>1, <3>2 DEF LaunchInv, OneRunPerJob
  <2>11. BatchInv'
    <3>1. batch' = <<>> /\ ToSet(<<>>) = {} /\ IsInjective(<<>>)
      BY <1>1, <1>2 DEF ToSet, IsInjective
    <3> QED BY <3>1 DEF BatchInv
  <2>12. CountInv'
    <3>1. Limited' = Limited /\ count \in Nat /\ Len(futures) \in Nat /\ Len(L) \in Nat
      BY <1>1, <1>2, <2>1 DEF Limited, TypeOK
    <3>2. InFlight' = Len(futures') + Cardinality({slot} \ {None}) BY <1>1 DEF InFlight
    <3>3. InFlight = Len(futures) + Cardinality({slot} \ {None}) BY DEF InFlight
    <3>4. Cardinality({slot} \ {None}) \in Nat BY SlotIs
    <3>5. InFlight' = InFlight + Len(L) /\ InFlight \in Nat BY <2>6, <3>1, <3>2, <3>3, <3>4
    <3>6. Limited => launched = count + InFlight BY <1>1 DEF LaunchInv, CountInv
    <3>7. Limited => /\ launched' = count + InFlight + Len(L) /\ mode'.limit = mode.limit
                     /\ count' = count
      BY <1>1, <2>2, <2>4, <3>6
    <3>8. Limited => launched' = count' + InFlight' /\ launched' <= mode'.limit
      BY <2>1, <3>1, <3>5, <3>7
    <3> QED BY <1>1, <3>1, <3>8 DEF CountInv
  <2> QED BY <2>8, <2>10, <2>11, <2>12 DEF LaunchInv
<1> QED BY <1>1, <1>3, <1>4

\* The maintenance job that is picked is one of the due ones, and no other is due for longer.
LEMMA OldestIsDue ==
    ASSUME TypeOK, NEW due \in SUBSET Maint, due # {}
    PROVE  Oldest(due) \in due /\ \A k \in due : left[Oldest(due)] <= left[k]
<1> DEFINE first == {j \in due : \A k \in due : left[j] <= left[k]}
           I == {i \in DOMAIN MaintSeq : MaintSeq[i] \in first}
<1>1. first \subseteq due /\ first # {}
  <2>1. due \in SUBSET Jobs /\ left \in [Jobs -> Int] BY DEF Jobs, TypeOK
  <2>2. IsFiniteSet(due) BY JobsAre, FS_Subset
  <2>3. \E j \in due : \A k \in due : left[j] <= left[k] BY <2>1, <2>2, LeastOf
  <2> QED BY <2>3
<1>2. DOMAIN MaintSeq \subseteq Nat BY JobsAre
<1>3. Maint = {MaintSeq[i] : i \in DOMAIN MaintSeq} BY DEF Maint, ToSet
<1>4. I \in SUBSET Nat /\ I # {}
  <2> HIDE DEF first
  <2> QED BY <1>1, <1>2, <1>3
<1>5. Min(I) \in I
  <2> HIDE DEF I
  <2> QED BY <1>4, MinNat
<1>6. Oldest(due) = MaintSeq[Min(I)] BY DEF Oldest, FirstOf
<1>7. MaintSeq[Min(I)] \in first
  <2> HIDE DEF first
  <2> QED BY <1>5
<1> QED BY <1>1, <1>6, <1>7

LEMMA StepDispatchMaintenance == ASSUME LaunchInv, DispatchMaintenance PROVE LaunchInv'
<1> DEFINE job == Oldest(MaintDue)
<1>1. /\ pc = "dispatchMaint" /\ pc' \in {"tick", "asleep"}
      /\ UNCHANGED <<mode, batch, worked, futures, left, log, tick, pending, beat>>
      /\ \/ /\ UNCHANGED <<slot, execution, launched>>
            /\ Emit(Payload("idle", execution, tick)) \/ UNCHANGED <<file, troubles>>
         \/ /\ slot = None /\ MaintDue # {} /\ ~AtLimit(count + InFlight)
            /\ slot' = job /\ Launch({job})
            /\ Emit(Payload("running", execution', tick))
  BY DEF DispatchMaintenance
<1>2. batch = <<>> /\ TypeOK BY <1>1 DEF LaunchInv, BatchInv
<1>3. CASE /\ UNCHANGED <<slot, execution, launched>>
           /\ Emit(Payload("idle", execution, tick)) \/ UNCHANGED <<file, troubles>>
  <2>1. file' \in Beat /\ troubles' \subseteq Kinds
    <3>1. Payload("idle", execution, tick) \in Beat
      BY <1>2, PayloadTyped DEF TypeOK, Statuses, Executions
    <3>2. CASE Emit(Payload("idle", execution, tick)) BY <1>2, <3>1, <3>2, EmitTyped
    <3>3. CASE UNCHANGED <<file, troubles>> BY <1>2, <3>3 DEF TypeOK
    <3> QED BY <1>3, <3>2, <3>3
  <2>2. TypeOK' BY <1>1, <1>2, <1>3, <2>1 DEF TypeOK
  <2>3. \A j \in Jobs : (Active(j)' <=> Active(j)) /\ (Done(j) => Done(j)')
    BY <1>3 DEF Active, Done
  <2> QED BY <1>1, <1>2, <1>3, <2>2, <2>3, NothingLaunched
<1>4. CASE /\ slot = None /\ MaintDue # {} /\ ~AtLimit(count + InFlight)
           /\ slot' = job /\ Launch({job})
           /\ Emit(Payload("running", execution', tick))
  <2>1. job \in MaintDue BY <1>2, <1>4, OldestIsDue DEF MaintDue
  <2>2. job \in Maint /\ job \in Jobs /\ job \notin Lanes /\ job # None /\ ~Active(job)
    BY <2>1, JobsAre DEF MaintDue, Due, Jobs
  <2> HIDE DEF job
  <2>3. {job} \in SUBSET Jobs /\ Cardinality({job}) = 1 BY <2>2, FS_Singleton
  <2>4. /\ execution' \in Executions /\ launched' \in Nat
        /\ launched' = IF Limited THEN launched + 1 ELSE launched
        /\ \A j \in Jobs : execution'[j] = IF j \in {job} THEN Running ELSE execution[j]
    BY <1>2, <1>4, <2>3, LaunchIs
  <2>5. file' \in Beat /\ troubles' \subseteq Kinds
    <3>1. Payload("running", execution', tick) \in Beat
      BY <1>2, <2>4, PayloadTyped DEF TypeOK, Statuses
    <3> QED BY <1>2, <1>4, <3>1, EmitTyped
  <2>6. TypeOK' BY <1>1, <1>2, <1>4, <2>2, <2>4, <2>5 DEF TypeOK, Executions
  <2>7. \A k \in Jobs : Active(k)' <=> Active(k) \/ k = job
    BY <2>4, IdleTyped DEF Active
  <2>8. OneRunPerJob'
    <3>1. {j \in Lanes : Active(j)}' = {j \in Lanes : Active(j)} BY <2>2, <2>7 DEF Jobs
    <3>2. {j \in Maint : Active(j)}' = {j \in Maint : Active(j)} \cup {job}
      BY <2>2, <2>7 DEF Jobs
    <3>3. {j \in Maint : Active(j)} = {} BY <1>4 DEF LaunchInv, OneRunPerJob
    <3>4. {slot'} \ {None} = {job} BY <1>4, <2>2
    <3> QED BY <1>1, <3>1, <3>2, <3>3, <3>4 DEF LaunchInv, OneRunPerJob
  <2>9. BatchInv'
    <3>1. batch' = <<>> /\ ToSet(<<>>) = {} /\ IsInjective(<<>>)
      BY <1>1, <1>2 DEF ToSet, IsInjective
    <3> QED BY <3>1 DEF BatchInv
  <2>10. CountInv'
    <3>1. /\ Limited' = Limited /\ count \in Nat /\ Len(futures) \in Nat
          /\ Limited => mode.limit \in Nat
      BY <1>1, <1>2, ModeIs DEF Limited, TypeOK
    <3>2. Cardinality({slot'} \ {None}) = 1 /\ Cardinality({slot} \ {None}) = 0
      BY <1>4, <2>2, SlotIs
    <3>3. InFlight' = Len(futures) + 1 /\ InFlight = Len(futures)
      BY <1>1, <3>1, <3>2 DEF InFlight
    <3>4. Limited => launched = count + InFlight /\ ~(count + InFlight >= mode.limit)
      BY <1>1, <1>4 DEF LaunchInv, CountInv, AtLimit
    <3>5. Limited => launched' = count' + InFlight' /\ launched' <= mode'.limit
      BY <1>1, <2>4, <3>1, <3>3, <3>4
    <3> QED BY <1>1, <3>1, <3>5 DEF CountInv
  <2> QED BY <2>6, <2>8, <2>9, <2>10 DEF LaunchInv
<1> QED BY <1>1, <1>3, <1>4

LEMMA StepInterrupt == ASSUME LaunchInv, LanesReaped \/ Interrupt \/ Join PROVE LaunchInv'
<1>1. /\ pc \in {"reap", "asleep", "join"} /\ pc' \in {"reapMaint", "join", "drain"}
      /\ UNCHANGED <<mode, batch, worked, queue, log, tick, file, troubles>>
      /\ pending' \in {pending, "interrupt"} /\ (beat' = beat \/ beat' = [beat EXCEPT !.pc = "gone"])
      /\ batch = <<>> \/ pc # "reap"
  BY DEF LanesReaped, Interrupt, Join
<1>2. batch = <<>> /\ TypeOK BY <1>1 DEF LaunchInv, BatchInv
<1>3. TypeOK' BY <1>1, <1>2 DEF TypeOK
<1>4. \A j \in Jobs : (Active(j)' <=> Active(j)) /\ (Done(j) => Done(j)')
  BY <1>1 DEF Active, Done
<1> QED BY <1>1, <1>2, <1>3, <1>4, NothingLaunched

LEMMA StepDrain == ASSUME LaunchInv, Drain PROVE LaunchInv'
<1> DEFINE S == {j \in Jobs : Active(j)}
           says == Payload(IF pending = "error" THEN "error" ELSE "stopped", execution', tick)
<1>1. /\ pc = "drain" /\ pc' = "over" /\ \A j \in Jobs : Active(j) => Done(j)
      /\ Finalize(S, TRUE) /\ futures' = <<>> /\ slot' = None
      /\ UNCHANGED <<mode, batch, worked, launched, tick, pending, beat>>
      /\ UNCHANGED <<file, troubles>> \/ Emit(says)
  BY DEF Drain
<1>2. batch = <<>> /\ TypeOK BY <1>1 DEF LaunchInv, BatchInv
<1>3. /\ execution' \in Executions /\ left' \in [Jobs -> Int] /\ rows' \in Rows
      /\ failure' \in Age
      /\ count' \in Nat
      /\ count' = IF Limited THEN count + Cardinality(S) ELSE count
      /\ \A j \in Jobs : execution'[j] = IF j \in S THEN Idle ELSE execution[j]
  BY <1>1, <1>2, FinalizeTyped
<1>4. file' \in Beat /\ troubles' \subseteq Kinds
  <2>1. says \in Beat BY <1>2, <1>3, PayloadTyped DEF TypeOK, Statuses
  <2> HIDE DEF says
  <2>2. CASE Emit(says) BY <1>2, <2>1, <2>2, EmitTyped
  <2>3. CASE UNCHANGED <<file, troubles>> BY <1>2, <2>3 DEF TypeOK
  <2> QED BY <1>1, <2>2, <2>3
<1>5. <<>> \in Seq(Lanes) /\ Len(<<>>) = 0 /\ ToSet(<<>>) = {} /\ IsInjective(<<>>)
  BY DEF ToSet, IsInjective
<1>6. TypeOK' BY <1>1, <1>2, <1>3, <1>4, <1>5 DEF TypeOK, Executions, Rows
<1>7. \A j \in Jobs : ~Active(j)' BY <1>3, IdleTyped DEF Active
<1>8. OneRunPerJob'
  <2>1. {j \in Lanes : Active(j)}' = {} /\ {j \in Maint : Active(j)}' = {} BY <1>7 DEF Jobs
  <2>2. Len(futures') <= mode'.concurrency BY <1>1, <1>2, <1>5, ModeIs DEF TypeOK
  <2> QED BY <1>1, <1>5, <2>1, <2>2 DEF OneRunPerJob
<1>9. BatchInv' BY <1>1, <1>2, <1>5 DEF BatchInv
<1>10. Cardinality(S) = InFlight
  <2>1. /\ futures \in Seq(Lanes) /\ IsInjective(futures)
        /\ ToSet(futures) = {j \in Lanes : Active(j)}
        /\ {slot} \ {None} = {j \in Maint : Active(j)}
    BY DEF LaunchInv, TypeOK, OneRunPerJob
  <2>2. S = ToSet(futures) \cup ({slot} \ {None}) BY <2>1 DEF Jobs
  <2>3. ToSet(futures) \cap ({slot} \ {None}) = {} BY <2>1, JobsAre
  <2>4. IsFiniteSet(ToSet(futures)) /\ Cardinality(ToSet(futures)) = Len(futures)
    BY <2>1, LenIsCardinality
  <2>5. IsFiniteSet({slot} \ {None}) /\ Cardinality({slot} \ {None}) \in Nat
    <3>1. IsFiniteSet({slot}) BY FS_Singleton
    <3>2. IsFiniteSet({slot} \ {None}) BY <3>1, FS_Difference
    <3> QED BY <3>2, SlotIs
  <2>6. Cardinality(ToSet(futures) \cup ({slot} \ {None}))
            = Len(futures) + Cardinality({slot} \ {None}) - Cardinality({})
    BY <2>3, <2>4, <2>5, FS_Union
  <2>7. Cardinality({}) = 0 /\ Len(futures) \in Nat BY <2>1, FS_EmptySet
  <2> QED BY <2>2, <2>5, <2>6, <2>7 DEF InFlight
<1>11. CountInv'
  <2>1. Limited' = Limited /\ Limited => launched' = count' /\ launched' <= mode'.limit
    BY <1>1, <1>3, <1>10 DEF Limited, LaunchInv, CountInv
  <2>2. InFlight' = 0
    <3>1. Cardinality({slot'} \ {None}) = 0 BY <1>1, SlotIs
    <3> QED BY <1>1, <1>5, <3>1 DEF InFlight
  <2>3. count' + InFlight' = count' BY <1>3, <2>2
  <2> QED BY <1>1, <2>1, <2>3 DEF CountInv, Limited
<1> QED BY <1>6, <1>8, <1>9, <1>11 DEF LaunchInv

\* The executors, the refresher, the clock, and the end of the process.
LEMMA StepRun == ASSUME LaunchInv, NEW j \in Jobs, RunEnds(j) PROVE LaunchInv'
<1>1. /\ execution[j].state = "running" /\ Outcome(j)
      /\ UNCHANGED <<mode, pc, batch, worked, futures, slot, left, launched, log,
                   tick, pending, beat, file>>
  BY DEF RunEnds
<1>2. TypeOK /\ execution \in Executions BY DEF LaunchInv, TypeOK, Executions
<1>3. /\ troubles' \subseteq Kinds
      /\ \E state \in {"success", "error", "hung"} :
            execution' = [execution EXCEPT ![j].state = state]
  BY <1>1, <1>2, TroubleTyped DEF Outcome, TypeOK
<1>4. PICK state \in {"success", "error", "hung"} : execution' = [execution EXCEPT ![j].state = state]
  BY <1>3
<1>5. execution' \in Executions BY <1>2, <1>4 DEF Executions
<1>6. \A k \in Jobs : execution'[k].state = IF k = j THEN state ELSE execution[k].state
  BY <1>2, <1>4 DEF Executions
<1>7. TypeOK' BY <1>1, <1>2, <1>3, <1>5 DEF TypeOK, Executions
<1>8. \A k \in Jobs : (Active(k)' <=> Active(k)) /\ (Done(k) => Done(k)')
  BY <1>1, <1>6 DEF Active, Done
<1>9. batch # <<>> => pc' = "reap" BY <1>1 DEF LaunchInv, BatchInv
<1> QED BY <1>1, <1>7, <1>8, <1>9, NothingLaunched

LEMMA StepRefresh == ASSUME LaunchInv, Refresh \/ BuildOnly \/ EmitLate PROVE LaunchInv'
<1> DEFINE says == Payload(Resolved(execution), execution, tick)
           beats == [pc : {"wait", "emit", "gone"}, due : BOOLEAN, payload : Beat]
<1>1. /\ UNCHANGED <<mode, pc, batch, worked, queue, log, tick, pending>>
      /\ \/ beat' = Quiet /\ (Emit(says) \/ Emit(beat.payload))
         \/ beat' = [pc |-> "emit", due |-> FALSE, payload |-> says] /\ Trouble("slow") /\ file' = file
  BY DEF Refresh, BuildOnly, EmitLate
<1>2. TypeOK /\ beat \in beats /\ file \in Beat BY DEF LaunchInv, TypeOK
<1>3. says \in Beat /\ beat.payload \in Beat
  <2>1. execution \in Executions /\ tick \in Age BY <1>2 DEF TypeOK, Executions
  <2> QED BY <1>2, <2>1, PayloadTyped, ResolvedStatus
<1> HIDE DEF says
<1>4. beat' \in beats /\ file' \in Beat /\ troubles' \subseteq Kinds
  <2>1. CASE beat' = Quiet /\ (Emit(says) \/ Emit(beat.payload))
    BY <1>2, <1>3, <2>1, EmitTyped, QuietTyped
  <2>2. CASE beat' = [pc |-> "emit", due |-> FALSE, payload |-> says] /\ Trouble("slow") /\ file' = file
    BY <1>2, <1>3, <2>2, TroubleTyped
  <2> QED BY <1>1, <2>1, <2>2
<1>5. TypeOK' BY <1>1, <1>2, <1>4 DEF TypeOK
<1>6. \A j \in Jobs : (Active(j)' <=> Active(j)) /\ (Done(j) => Done(j)')
  BY <1>1 DEF Active, Done
<1>7. batch # <<>> => pc' = "reap" BY <1>1 DEF LaunchInv, BatchInv
<1> QED BY <1>1, <1>5, <1>6, <1>7, NothingLaunched

LEMMA StepClock == ASSUME LaunchInv, Clock PROVE LaunchInv'
<1>1. /\ pc \in {"asleep", "drain", "over", "dead"}
      /\ pc' = IF pc = "asleep" THEN "tick" ELSE pc
      /\ beat' = [beat EXCEPT !.due = pc = "asleep"]
      /\ execution' = [j \in Jobs |-> [execution[j] EXCEPT
                        !.started = IF Active(j) THEN Older(@) ELSE 0,
                        !.ended = IF Done(j) THEN Older(@) ELSE 0]]
      /\ left' = [j \in Jobs |-> IF Active(j) \/ j \notin mode.enabled THEN left[j]
                              ELSE Max({left[j] - 1, -Cap})]
      /\ tick' = Older(tick)
      /\ file' = [file EXCEPT !.seen = Older(@), !.tick = Older(@),
                            !.active = [j \in Jobs |-> IF @[j] = NotActive THEN @[j] ELSE Older(@[j])]]
      /\ rows' = [j \in Jobs |-> IF rows[j] = NoRow THEN NoRow ELSE [rows[j] EXCEPT !.age = Older(@)]]
      /\ failure' = Older(failure)
      /\ UNCHANGED <<mode, batch, worked, futures, slot, count, launched, pending, troubles>>
  BY DEF Clock
<1>2. batch = <<>> /\ TypeOK BY <1>1 DEF LaunchInv, BatchInv
<1>3. /\ execution \in Executions /\ left \in [Jobs -> Int] /\ rows \in Rows
      /\ tick \in Age /\ failure \in Age /\ file \in Beat
  BY <1>2 DEF TypeOK, Executions, Rows
<1>4. ASSUME NEW j \in Jobs
      PROVE  /\ execution'[j].state = execution[j].state
             /\ execution'[j] \in [state : {"idle", "running", "success", "error", "hung"},
                                   started : Age, ended : Age]
  <2>1. execution[j] \in [state : {"idle", "running", "success", "error", "hung"},
                          started : Age, ended : Age]
    BY <1>3 DEF Executions
  <2>2. /\ (IF Active(j) THEN Older(execution[j].started) ELSE 0) \in Age
        /\ (IF Done(j) THEN Older(execution[j].ended) ELSE 0) \in Age
    BY <2>1, AgeIs
  <2> QED BY <1>1, <2>1, <2>2
<1>5. execution' \in Executions BY <1>1, <1>4 DEF Executions
<1>6. left' \in [Jobs -> Int]
  <2>1. ASSUME NEW j \in Jobs PROVE Max({left[j] - 1, -Cap}) \in Int
    <3>1. left[j] - 1 \in Int /\ -Cap \in Int BY <1>3, AgeIs
    <3>2. Max({left[j] - 1, -Cap}) = IF left[j] - 1 >= -Cap THEN left[j] - 1 ELSE -Cap
      BY <3>1, MaxTwo
    <3> QED BY <3>1, <3>2
  <2> QED BY <1>1, <1>3, <2>1
<1>7. rows' \in Rows
  <2>1. NoRow \in [status : {"missing", "success", "error"}, age : Age] BY AgeIs DEF NoRow
  <2>2. ASSUME NEW j \in Jobs
        PROVE  [rows[j] EXCEPT !.age = Older(@)] \in [status : {"missing", "success", "error"}, age : Age]
    <3>1. rows[j] \in [status : {"missing", "success", "error"}, age : Age] BY <1>3 DEF Rows
    <3> QED BY <3>1, AgeIs
  <2> QED BY <1>1, <2>1, <2>2 DEF Rows
<1>8. file' \in Beat
  <2> DEFINE act == [j \in Jobs |-> IF file.active[j] = NotActive THEN file.active[j]
                                    ELSE Older(file.active[j])]
  <2>1. /\ file.seen \in Age /\ file.tick \in Age /\ file.active \in [Jobs -> 0..NotActive]
        /\ file.status \in {"starting", "running", "idle", "error", "stopped"}
    BY <1>3 DEF Beat
  <2>2. act \in [Jobs -> 0..NotActive]
    <3>1. ASSUME NEW j \in Jobs
          PROVE  (IF file.active[j] = NotActive THEN file.active[j] ELSE Older(file.active[j])) \in 0..NotActive
      <4>1. file.active[j] \in 0..NotActive BY <2>1
      <4> QED BY <4>1, AgeIs
    <3> QED BY <3>1
  <2>3. Older(file.seen) \in Age /\ Older(file.tick) \in Age BY <2>1, AgeIs
  <2>4. file' = [file EXCEPT !.seen = Older(file.seen), !.tick = Older(file.tick), !.active = act]
    BY <1>1, <1>3 DEF Beat
  <2> HIDE DEF act
  <2> QED BY <1>3, <2>2, <2>3, <2>4 DEF Beat
<1>9. TypeOK'
  <2>1. tick' \in Age /\ failure' \in Age BY <1>1, <1>3, AgeIs
  <2>2. beat' \in [pc : {"wait", "emit", "gone"}, due : BOOLEAN, payload : Beat]
    BY <1>1, <1>2 DEF TypeOK
  <2> QED BY <1>1, <1>2, <1>5, <1>6, <1>7, <1>8, <2>1, <2>2 DEF TypeOK, Executions, Rows
<1>10. \A j \in Jobs : (Active(j)' <=> Active(j)) /\ (Done(j) => Done(j)')
  BY <1>4 DEF Active, Done
<1> QED BY <1>1, <1>2, <1>9, <1>10, NothingLaunched

LEMMA StepKill == ASSUME LaunchInv, Kill \/ Restart PROVE LaunchInv'
<1>1. /\ pc' \in {"dead", "tick"} /\ UNCHANGED <<mode, rows, failure>> /\ Forget
      /\ tick' \in {tick, 0} /\ file' \in {file, Starting}
      /\ Trouble("kill") \/ troubles' = troubles
  BY DEF Kill, Restart
<1>2. /\ batch' = <<>> /\ worked' = FALSE /\ futures' = <<>> /\ slot' = None
      /\ execution' = AllIdle /\ left' = AllDue
      /\ count' = 0 /\ launched' = 0 /\ pending' = "no"
      /\ beat' = Quiet
  BY <1>1 DEF Forget
<1>3. TypeOK BY DEF LaunchInv
<1>4. <<>> \in Seq(Lanes) /\ Len(<<>>) = 0 /\ ToSet(<<>>) = {} /\ IsInjective(<<>>)
  BY DEF ToSet, IsInjective
<1>5. TypeOK'
  <2>1. left' \in [Jobs -> Int] BY <1>2 DEF AllDue
  <2>2. troubles' \subseteq Kinds BY <1>1, <1>3, TroubleTyped DEF TypeOK
  <2>3. tick' \in Age /\ file' \in Beat BY <1>1, <1>3, AgeIs, QuietTyped DEF TypeOK
  <2> QED BY <1>1, <1>2, <1>3, <1>4, <2>1, <2>2, <2>3, IdleTyped, QuietTyped
          DEF TypeOK, Executions
<1>6. \A j \in Jobs : ~Active(j)' BY <1>2, IdleTyped DEF Active, AllIdle
<1>7. OneRunPerJob'
  <2>1. {j \in Lanes : Active(j)}' = {} /\ {j \in Maint : Active(j)}' = {} BY <1>6 DEF Jobs
  <2>2. Len(futures') <= mode'.concurrency BY <1>1, <1>2, <1>3, <1>4, ModeIs DEF TypeOK
  <2> QED BY <1>2, <1>4, <2>1, <2>2 DEF OneRunPerJob
<1>8. BatchInv' BY <1>2, <1>4 DEF BatchInv
<1>9. CountInv'
  <2>1. Cardinality({slot'} \ {None}) = 0 BY <1>2, SlotIs
  <2>2. InFlight' = 0 BY <1>2, <1>4, <2>1 DEF InFlight
  <2>3. Limited' = Limited /\ (Limited => mode'.limit \in Nat) BY <1>1, <1>3, ModeIs DEF TypeOK, Limited
  <2> QED BY <1>2, <2>2, <2>3 DEF CountInv
<1> QED BY <1>5, <1>7, <1>8, <1>9 DEF LaunchInv

LEMMA StepLaunch == LaunchInv /\ [Next]_vars => LaunchInv'
<1> SUFFICES ASSUME LaunchInv, [Next]_vars PROVE LaunchInv'
  OBVIOUS
<1>1. CASE UNCHANGED vars
  <2>1. TypeOK' BY <1>1 DEF LaunchInv, TypeOK, vars
  <2>2. \A j \in Jobs : (Active(j)' <=> Active(j)) /\ (Done(j) => Done(j)')
    BY <1>1 DEF Active, Done, vars
  <2>3. batch # <<>> => pc' = "reap" BY <1>1 DEF LaunchInv, BatchInv, vars
  <2> QED BY <1>1, <2>1, <2>2, <2>3, NothingLaunched DEF vars
<1>2. CASE Next
  <2> HIDE DEF LaunchInv
  <2> QED
    BY <1>2, StepTick, StepReapLane, StepReapMaintenance, StepDispatchLanes,
       StepDispatchMaintenance, StepInterrupt, StepDrain, StepRun, StepRefresh, StepClock, StepKill
    DEF Next, SchedulerStep
<1> QED BY <1>1, <1>2

\* However the ticks, the ends of runs, errors, interrupts and kills interleave: a job has one
\* run at a time, in the executor that is there for it, and a bounded run never launches more
\* than it will report (ops.py, run(): "a bounded (max_runs) run never launches more work
\* than it will eventually report").
THEOREM LaunchesAccounted == Spec => []LaunchesAreAccounted
<1>1. Init => LaunchInv BY InitLaunch
<1>2. LaunchInv /\ [Next]_vars => LaunchInv' BY StepLaunch
<1>3. LaunchInv => LaunchesAreAccounted
  <2> SUFFICES ASSUME LaunchInv PROVE LaunchedIsReported
    BY DEF LaunchInv, LaunchesAreAccounted
  <2>1. pc = "over" => InFlight = 0
    <3>1. Cardinality({None} \ {None}) = 0 /\ Len(<<>>) = 0 BY SlotIs
    <3> QED BY <3>1 DEF LaunchInv, CountInv, InFlight
  <2>2. count \in Nat BY DEF LaunchInv, TypeOK
  <2> QED BY <2>1, <2>2 DEF LaunchInv, CountInv, LaunchedIsReported
<1> QED BY <1>1, <1>2, <1>3, PTL DEF Spec

-----------------------------------------------------------------------------
(* A scheduler that has fallen silent is seen.                               *)

\* While the scheduler ticks, no tick is older than a sleep; when it does no more, its last
\* heartbeat is as old as its last tick, or says how the runner ended.
SilenceInv ==
    /\ pc \in {"reap", "reapMaint", "dispatch", "dispatchMaint", "asleep", "join"} => tick = 0
    /\ pc = "tick" => tick <= 1
    /\ pc \in {"drain", "over", "dead"} =>
            file.seen >= tick - 1 \/ (pc = "over" /\ file.status \in {"stopped", "error"})
    /\ pc = "dead" => beat.pc = "wait" /\ ~beat.due

\* The clock keeps the distance of two ages.
LEMMA OlderKeeps ==
    ASSUME NEW a \in Age, NEW b \in Age, a >= b - 1
    PROVE  Older(a) >= Older(b) - 1 /\ Older(0) <= 1
<1>1. Cap \in Nat /\ a \in Nat /\ b \in Nat BY AgeIs
<1>2. a + 1 \in Int /\ b + 1 \in Int /\ 0 + 1 \in Int /\ Cap \in Int BY <1>1
<1>3. /\ Min({a + 1, Cap}) = IF a + 1 <= Cap THEN a + 1 ELSE Cap
      /\ Min({b + 1, Cap}) = IF b + 1 <= Cap THEN b + 1 ELSE Cap
      /\ Min({0 + 1, Cap}) = IF 0 + 1 <= Cap THEN 0 + 1 ELSE Cap
  BY <1>2, MinTwo
<1> QED BY <1>1, <1>3 DEF Older

LEMMA InitSilence == Init => SilenceInv
BY DEF Init, SilenceInv

LEMMA StepSilence == TypeOK /\ BeatInv /\ SilenceInv /\ [Next]_vars => SilenceInv'
<1> SUFFICES ASSUME TypeOK, BeatInv, SilenceInv, [Next]_vars PROVE SilenceInv'
  OBVIOUS
<1>t. tick \in Age /\ file.seen \in Age /\ tick \in Nat /\ file.seen \in Nat
  BY AgeIs DEF TypeOK, Beat
\* The scheduler at work, and threads that do not touch the heartbeat of a silent one.
<1>a. ASSUME pc \notin {"drain", "over", "dead"},
             \/ pc' = pc /\ tick' = tick
             \/ pc' \notin {"drain", "over", "dead"} /\ tick' = 0
      PROVE  SilenceInv'
  BY <1>a, AgeIs DEF SilenceInv
<1>b. ASSUME UNCHANGED <<pc, tick, file, beat>> PROVE SilenceInv' BY <1>b DEF SilenceInv
<1>1. CASE TickLoop BY <1>1, <1>a DEF TickLoop
<1>2. CASE ReapLane \/ LanesReaped \/ ReapMaintenance \/ DispatchLanes \/ DispatchMaintenance \/ Interrupt
  <2>1. /\ pc \in {"reap", "reapMaint", "dispatch", "dispatchMaint", "asleep"} /\ tick' = tick
        /\ pc' \in {"reap", "reapMaint", "join", "dispatch", "dispatchMaint", "tick", "asleep"}
    BY <1>2
    DEF ReapLane, LanesReaped, ReapMaintenance, DispatchLanes, DispatchMaintenance, Interrupt
  <2>2. tick = 0 BY <2>1 DEF SilenceInv
  <2> QED BY <1>a, <2>1, <2>2
<1>3. CASE Join
  <2>1. pc = "join" /\ pc' = "drain" /\ tick' = tick /\ file' = file BY <1>3 DEF Join
  <2> QED BY <1>t, <2>1 DEF SilenceInv
<1>4. CASE Drain
  <2> DEFINE status == IF pending = "error" THEN "error" ELSE "stopped"
  <2>1. /\ pc = "drain" /\ pc' = "over" /\ tick' = tick
        /\ file' = file \/ file' = Payload(status, execution', tick)
    BY <1>4 DEF Drain, Emit
  <2>2. Payload(status, execution', tick).status \in {"stopped", "error"} BY DEF Payload
  <2> QED BY <2>1, <2>2 DEF SilenceInv
<1>5. ASSUME NEW j \in Jobs, RunEnds(j) PROVE SilenceInv' BY <1>5, <1>b DEF RunEnds
<1>6. CASE Refresh \/ BuildOnly \/ EmitLate
  <2>1. /\ pc' = pc /\ tick' = tick
        /\ (beat.pc = "wait" /\ beat.due) \/ beat.pc = "emit"
    BY <1>6 DEF Refresh, BuildOnly, EmitLate
  <2>2. pc \notin {"drain", "over", "dead"} BY <2>1 DEF BeatInv, SilenceInv
  <2> QED BY <1>a, <2>1, <2>2
<1>7. CASE Clock
  <2>1. /\ pc \in {"asleep", "drain", "over", "dead"} /\ pc' = (IF pc = "asleep" THEN "tick" ELSE pc)
        /\ tick' = Older(tick) /\ beat' = [beat EXCEPT !.due = pc = "asleep"]
    BY <1>7 DEF Clock
  <2>2. file'.seen = Older(file.seen) /\ file'.status = file.status
    BY <1>7 DEF Clock, TypeOK, Beat
  <2>3. beat'.pc = beat.pc /\ beat'.due = (pc = "asleep") BY <2>1 DEF TypeOK
  <2>4. CASE pc = "asleep" BY <1>t, <2>1, <2>4, AgeIs, OlderKeeps DEF SilenceInv
  <2>5. CASE pc # "asleep"
    <3>1. file.seen >= tick - 1 => file'.seen >= tick' - 1 BY <1>t, <2>1, <2>2, OlderKeeps
    <3> QED BY <2>1, <2>2, <2>3, <2>5, <3>1 DEF SilenceInv
  <2> QED BY <2>4, <2>5
<1>8. CASE Kill
  <2>1. pc' = "dead" /\ pc # "over" /\ pc # "dead" /\ beat' = Quiet /\ UNCHANGED <<tick, file>>
    BY <1>8 DEF Kill, Forget
  <2>2. tick <= 1 \/ file.seen >= tick - 1 BY <1>t, <2>1 DEF SilenceInv, TypeOK
  <2> QED BY <1>t, <2>1, <2>2 DEF SilenceInv, Quiet
<1>9. CASE Restart BY <1>9 DEF Restart, SilenceInv
<1>10. CASE UNCHANGED vars BY <1>10, <1>b DEF vars
<1> QED
  BY <1>1, <1>2, <1>3, <1>4, <1>5, <1>6, <1>7, <1>8, <1>9, <1>10 DEF Next, SchedulerStep

\* A scheduler that has not ticked for longer than a heartbeat may be old is an error of the
\* report, killed, draining or over, unless its last heartbeat says that it was stopped
\* (ops.py, build_health_report: the age of the heartbeat counts whatever it says).
THEOREM SilenceIsSeen == Spec => []SilentSchedulerIsSeen
<1>1. Init => LaunchInv /\ BeatInv /\ SilenceInv BY InitLaunch, InitBeat, InitSilence
<1>2. LaunchInv /\ BeatInv /\ SilenceInv /\ [Next]_vars => (LaunchInv /\ BeatInv /\ SilenceInv)'
  BY StepLaunch, StepBeat, StepSilence DEF LaunchInv
<1>3. LaunchInv /\ BeatInv /\ SilenceInv => SilentSchedulerIsSeen
  <2> SUFFICES ASSUME TypeOK, SilenceInv, tick > StaleAfter + 1
               PROVE  Status = "error" \/ (pc = "over" /\ file.status = "stopped")
    BY DEF LaunchInv, SilentSchedulerIsSeen
  <2>1. StaleAfter \in Nat /\ tick \in Nat /\ file.seen \in Nat
    BY AgeIs, HealthAssumption DEF TypeOK, Beat
  <2>2. ~(tick <= 1) BY <2>1
  <2>3. pc \in {"drain", "over", "dead"} BY <2>1, <2>2 DEF SilenceInv, TypeOK
  <2>4. CASE file.seen >= tick - 1
    <3>1. ~Fresh BY <2>1, <2>4 DEF Fresh
    <3>2. "stale_heartbeat" \in HeartbeatFindings BY <3>1 DEF HeartbeatFindings
    <3> QED BY <3>2 DEF Status
  <2>5. CASE file.status = "error"
    <3>1. "runner_error_state" \in HeartbeatFindings BY <2>5 DEF HeartbeatFindings
    <3> QED BY <3>1 DEF Status
  <2> QED BY <2>3, <2>4, <2>5 DEF SilenceInv
<1> QED BY <1>1, <1>2, <1>3, PTL DEF Spec

-----------------------------------------------------------------------------
(* A run that hangs is seen, and a runner at work is not called sick.        *)

\* The heartbeat names the job as active, and knows how long it has been.
Tells(b, j) ==
    b.status = "running" /\ b.active[j] # NotActive /\ b.active[j] >= execution[j].started

\* A job that is active is told, unless the heartbeat is as old as its run; what the
\* refresher has built and not yet written tells it too, or the run has just begun.
HangInv ==
    /\ \A j \in Jobs : Active(j) =>
        file.status = "error" \/ file.seen >= execution[j].started \/ Tells(file, j)
    /\ beat.pc = "emit" =>
        \A j \in Jobs : Active(j) => execution[j].started = 0 \/ Tells(beat.payload, j)
    /\ \A j \in Jobs : /\ Active(j) => j \in mode.enabled
                       /\ execution[j].state = "hung" => j \in MayHang

\* What a heartbeat says of the runs that go on.
LEMMA PayloadTells ==
    ASSUME NEW e \in Executions, NEW a \in Age, NEW s, NEW j \in Jobs
    PROVE  /\ Payload(s, e, a).status = s /\ Payload(s, e, a).seen = 0 /\ Payload(s, e, a).tick = a
           /\ Payload(s, e, a).active[j] = IF e[j].state = "idle" THEN NotActive ELSE e[j].started
           /\ e[j].state # "idle" => e[j].started # NotActive /\ Resolved(e) = "running"
<1>1. e[j].started \in Age BY DEF Executions
<1>2. e[j].started # NotActive BY <1>1, AgeIs DEF Age, NotActive
<1> QED BY <1>2 DEF Payload, Resolved

\* A step that begins runs, reports some, and perhaps tells of what then goes on.
LEMMA HangKept ==
    ASSUME TypeOK, HangInv, TypeOK', UNCHANGED mode,
           \A j \in Jobs : Active(j)' =>
              \/ Active(j) /\ execution'[j].started = execution[j].started
              \/ execution'[j].started = 0 /\ j \in mode.enabled,
           \A j \in Jobs : execution'[j].state = "hung" => j \in MayHang,
           \/ file' = file
           \/ \E s : /\ file' = Payload(s, execution', tick)
                     /\ s \in {"error", Resolved(execution')} \/ \A j \in Jobs : ~Active(j)',
           beat'.pc = "emit" => beat' = beat
    PROVE  HangInv'
<1>1. /\ execution \in Executions /\ execution' \in Executions /\ tick \in Age
      /\ file.seen \in Nat
  BY AgeIs DEF TypeOK, Executions, Beat
<1>2. ASSUME NEW j \in Jobs, Active(j)'
      PROVE  file'.status = "error" \/ file'.seen >= execution'[j].started \/ Tells(file, j)'
  <2>1. execution'[j].started \in Nat BY <1>1, AgeIs DEF Executions
  <2>2. CASE file' = file
    <3>1. CASE execution'[j].started = 0 BY <1>1, <2>2, <3>1
    <3>2. CASE Active(j) /\ execution'[j].started = execution[j].started
      BY <2>2, <3>2 DEF HangInv, Tells
    <3> QED BY <1>2, <3>1, <3>2
  <2>3. CASE file' # file
    <3>1. PICK s : /\ file' = Payload(s, execution', tick)
                   /\ s \in {"error", Resolved(execution')}
      BY <1>2, <2>3
    <3>2. /\ file'.status = s /\ file'.active[j] = execution'[j].started
          /\ execution'[j].started # NotActive /\ Resolved(execution') = "running"
      BY <1>1, <1>2, <3>1, PayloadTells DEF Active
    <3> QED BY <2>1, <3>1, <3>2 DEF Tells
  <2> QED BY <2>2, <2>3
<1>3. ASSUME NEW j \in Jobs, Active(j)', beat'.pc = "emit"
      PROVE  execution'[j].started = 0 \/ Tells(beat.payload, j)'
  BY <1>3 DEF HangInv, Tells
<1>4. ASSUME NEW j \in Jobs
      PROVE  /\ Active(j)' => j \in mode'.enabled
             /\ execution'[j].state = "hung" => j \in MayHang
  BY DEF HangInv
<1> QED BY <1>2, <1>3, <1>4 DEF HangInv

\* What a unit of time does to the runs and to the heartbeat.
LEMMA ClockIs ==
    ASSUME TypeOK, Clock, NEW j \in Jobs
    PROVE  /\ execution'[j].state = execution[j].state
           /\ execution'[j].started = IF Active(j) THEN Older(execution[j].started) ELSE 0
           /\ execution'[j].ended = IF Done(j) THEN Older(execution[j].ended) ELSE 0
           /\ file'.status = file.status
           /\ file'.seen = Older(file.seen) /\ file'.tick = Older(file.tick)
           /\ file'.active[j] = IF file.active[j] = NotActive THEN NotActive
                                ELSE Older(file.active[j])
           /\ execution[j].started \in Age /\ execution[j].ended \in Age
           /\ file.seen \in Age /\ file.tick \in Age /\ file.active[j] \in 0..NotActive
<1>1. /\ execution[j] \in [state : {"idle", "running", "success", "error", "hung"},
                           started : Age, ended : Age]
      /\ file \in Beat
  BY DEF TypeOK
<1>2. execution'[j] = [execution[j] EXCEPT !.started = IF Active(j) THEN Older(@) ELSE 0,
                                           !.ended = IF Done(j) THEN Older(@) ELSE 0]
  BY DEF Clock
<1>3. /\ execution'[j].state = execution[j].state
      /\ execution'[j].started = IF Active(j) THEN Older(execution[j].started) ELSE 0
      /\ execution'[j].ended = IF Done(j) THEN Older(execution[j].ended) ELSE 0
  BY <1>1, <1>2
<1>4. file' = [file EXCEPT !.seen = Older(@), !.tick = Older(@),
                           !.active = [k \in Jobs |-> IF @[k] = NotActive THEN @[k] ELSE Older(@[k])]]
  BY DEF Clock
<1>5. /\ file'.status = file.status
      /\ file'.seen = Older(file.seen) /\ file'.tick = Older(file.tick)
      /\ file'.active[j] = IF file.active[j] = NotActive THEN NotActive ELSE Older(file.active[j])
  BY <1>1, <1>4 DEF Beat
<1> QED BY <1>1, <1>3, <1>5 DEF Beat

\* The clock keeps the order of two ages, and moves each by one at most.
LEMMA OlderOrders ==
    ASSUME NEW a \in Age, NEW b \in Age
    PROVE  /\ Older(a) = IF a + 1 <= Cap THEN a + 1 ELSE Cap
           /\ Older(a) <= a + 1 /\ Older(a) # NotActive /\ a # NotActive
           /\ a >= b => Older(a) >= Older(b)
<1>1. Cap \in Nat /\ a \in 0..Cap /\ b \in 0..Cap BY AgeIs DEF Age
<1>2. a + 1 \in Int /\ b + 1 \in Int /\ Cap \in Int BY <1>1
<1>3. /\ Min({a + 1, Cap}) = IF a + 1 <= Cap THEN a + 1 ELSE Cap
      /\ Min({b + 1, Cap}) = IF b + 1 <= Cap THEN b + 1 ELSE Cap
  BY <1>2, MinTwo
<1> QED BY <1>1, <1>3 DEF Older, NotActive

LEMMA InitHang == Init => HangInv
<1> SUFFICES ASSUME Init PROVE HangInv
  OBVIOUS
<1>1. \A j \in Jobs : ~Active(j) /\ execution[j].state # "hung"
  BY IdleTyped DEF Init, AllIdle, Active
<1> QED BY <1>1 DEF Init, HangInv, Quiet

LEMMA ClockHang == ASSUME TypeOK, BeatInv, SilenceInv, HangInv, Clock PROVE HangInv'
<1>1. ASSUME NEW j \in Jobs, Active(j)'
      PROVE  file'.status = "error" \/ file'.seen >= execution'[j].started \/ Tells(file, j)'
  <2>1. /\ execution'[j].state = execution[j].state
        /\ execution'[j].started = IF Active(j) THEN Older(execution[j].started) ELSE 0
        /\ file'.status = file.status /\ file'.seen = Older(file.seen)
        /\ file'.active[j] = IF file.active[j] = NotActive THEN NotActive ELSE Older(file.active[j])
        /\ execution[j].started \in Age /\ file.seen \in Age /\ file.active[j] \in 0..NotActive
    BY ClockIs
  <2>2. Active(j) BY <1>1, <2>1 DEF Active
  <2>3. CASE file.seen >= execution[j].started BY <2>1, <2>2, <2>3, OlderOrders
  <2>4. CASE Tells(file, j)
    <3>1. file.active[j] \in Age BY <2>1, <2>4, AgeIs DEF Tells
    <3>2. Older(file.active[j]) >= Older(execution[j].started) /\ Older(file.active[j]) # NotActive
      BY <2>1, <2>4, <3>1, OlderOrders DEF Tells
    <3> QED BY <2>1, <2>2, <2>4, <3>2 DEF Tells
  <2> QED BY <2>1, <2>2, <2>3, <2>4 DEF HangInv
<1>2. beat'.pc # "emit"
  <2>1. beat'.pc = beat.pc BY DEF Clock, TypeOK
  <2> QED BY <2>1 DEF Clock, BeatInv, SilenceInv
<1>3. ASSUME NEW j \in Jobs
      PROVE  /\ Active(j)' => j \in mode'.enabled
             /\ execution'[j].state = "hung" => j \in MayHang
  BY <1>3, ClockIs DEF HangInv, Active, Clock
<1> QED BY <1>1, <1>2, <1>3 DEF HangInv

LEMMA StepHang == LaunchInv /\ LaunchInv' /\ BeatInv /\ SilenceInv /\ HangInv /\ [Next]_vars => HangInv'
<1> SUFFICES ASSUME LaunchInv, LaunchInv', BeatInv, SilenceInv, HangInv, [Next]_vars PROVE HangInv'
  OBVIOUS
<1>t. TypeOK /\ TypeOK' BY DEF LaunchInv
<1>h. \A j \in Jobs : execution[j].state = "hung" => j \in MayHang BY DEF HangInv
\* Runs that go on, and a heartbeat that stays.
<1>a. ASSUME UNCHANGED <<mode, execution, file>>, beat'.pc = "emit" => beat' = beat PROVE HangInv'
  BY <1>a, <1>t, <1>h, HangKept DEF Active
<1>1. CASE TickLoop \/ LanesReaped \/ Interrupt \/ Join \/ UNCHANGED vars
  <2>1. UNCHANGED <<mode, execution, file>> /\ (beat' = beat \/ beat' = [beat EXCEPT !.pc = "gone"])
    BY <1>1 DEF TickLoop, LanesReaped, Interrupt, Join, vars
  <2> QED BY <1>a, <1>t, <2>1 DEF TypeOK
<1>2. ASSUME NEW j \in Jobs, Done(j), Reap(j), beat' = beat, mode' = mode PROVE HangInv'
  <2> DEFINE s == IF execution[j].state = "error" /\ mode.stopOnError
                  THEN "error" ELSE Resolved(execution')
  <2>1. \A k \in Jobs : execution'[k] = IF k = j THEN Idle ELSE execution[k]
    BY <1>t, <1>2, ReapIs
  <2>2. \A k \in Jobs : Active(k)' => Active(k) /\ execution'[k].started = execution[k].started
    BY <2>1, IdleTyped DEF Active
  <2>3. \A k \in Jobs : execution'[k].state = "hung" => k \in MayHang BY <1>h, <2>1, IdleTyped
  <2>4. file' = file \/ file' = Payload(s, execution', tick) BY <1>2, Zenon DEF Reap, Emit
  <2>5. s \in {"error", Resolved(execution')} OBVIOUS
  <2> HIDE DEF s
  <2> QED BY <1>2, <1>t, <2>2, <2>3, <2>4, <2>5, HangKept
<1>3. CASE ReapLane
  <2>1. batch # <<>> /\ batch \in Seq(Lanes) BY <1>3, <1>t DEF ReapLane, TypeOK
  <2>2. Head(batch) \in Lanes /\ Head(batch) \in ToSet(batch)
    BY <2>1, TailMembers DEF LaunchInv, BatchInv
  <2>3. Head(batch) \in Jobs /\ Done(Head(batch)) BY <2>2 DEF LaunchInv, BatchInv, Jobs
  <2> QED BY <1>2, <1>3, <2>3 DEF ReapLane
<1>4. CASE ReapMaintenance
  <2>1. CASE slot # None /\ Done(slot)
    <3>1. slot \in Jobs BY <1>t, <2>1 DEF TypeOK, Jobs
    <3> QED BY <1>2, <1>4, <2>1, <3>1 DEF ReapMaintenance
  <2>2. CASE ~(slot # None /\ Done(slot)) BY <1>a, <1>4, <2>2 DEF ReapMaintenance
  <2> QED BY <2>1, <2>2
\* Runs begin, and the heartbeat says "running".
<1>5. ASSUME NEW S \in SUBSET Jobs, S # {}, \A j \in S : Due(j), Launch(S),
             Emit(Payload("running", execution', tick)), UNCHANGED <<mode, beat>>
      PROVE  HangInv'
  <2>1. \A j \in Jobs : execution'[j] = IF j \in S THEN Running ELSE execution[j]
    BY <1>t, <1>5, LaunchIs
  <2>2. \A j \in S : j \in mode.enabled /\ execution'[j].started = 0 /\ execution'[j].state = "running"
    BY <1>5, <2>1 DEF Due, Running, Idle
  <2>3. \A j \in Jobs : Active(j)' => \/ Active(j) /\ execution'[j].started = execution[j].started
                                      \/ execution'[j].started = 0 /\ j \in mode.enabled
    BY <2>1, <2>2 DEF Active
  <2>4. \A j \in Jobs : execution'[j].state = "hung" => j \in MayHang BY <1>h, <2>1, <2>2
  <2>5. Resolved(execution') = "running" BY <1>5, <2>2 DEF Resolved
  <2>6. file' = file \/ file' = Payload("running", execution', tick) BY <1>5 DEF Emit
  <2> QED BY <1>5, <1>t, <2>3, <2>4, <2>5, <2>6, HangKept
<1>6. CASE DispatchLanes
  <2>1. CASE LanesToStart = <<>> BY <1>6, <1>a, <2>1 DEF DispatchLanes
  <2>2. CASE LanesToStart # <<>>
    <3>1. \A l \in ToSet(LanesToStart) : l \in Lanes /\ Due(l)
      BY StartsAre
    <3>2. ToSet(LanesToStart) \in SUBSET Jobs BY <3>1 DEF Jobs
    <3>3. ToSet(LanesToStart) # {}
      <4>1. LanesToStart \in Seq(Lanes) BY StartsAre
      <4> QED BY <2>2, <4>1 DEF ToSet
    <3>4. Launch(ToSet(LanesToStart)) /\ Emit(Payload("running", execution', tick)) /\ UNCHANGED <<mode, beat>>
      BY <1>6, <2>2 DEF DispatchLanes
    <3> QED BY <1>5, <3>1, <3>2, <3>3, <3>4
  <2> QED BY <2>1, <2>2
<1>7. CASE DispatchMaintenance
  <2> DEFINE job == Oldest(MaintDue)
  <2>1. CASE slot = None /\ MaintDue # {} /\ ~AtLimit(count + InFlight)
    <3>1. job \in Jobs /\ Due(job) BY <1>t, <2>1, OldestIsDue DEF MaintDue, Jobs
    <3>2. Launch({job}) /\ Emit(Payload("running", execution', tick)) /\ UNCHANGED <<mode, beat>>
      BY <1>7, <2>1 DEF DispatchMaintenance
    <3> HIDE DEF job
    <3> QED BY <1>5, <3>1, <3>2
  <2>2. CASE ~(slot = None /\ MaintDue # {} /\ ~AtLimit(count + InFlight))
    <3>1. UNCHANGED <<mode, execution, beat>> /\ (file' = file \/ (futures = <<>> /\ slot = None))
      BY <1>7, <2>2 DEF DispatchMaintenance, Emit
    <3>2. file' = file \/ file' = Payload("idle", execution, tick)
      BY <1>7, <2>2 DEF DispatchMaintenance, Emit
    <3>3. CASE file' = file BY <1>a, <3>1, <3>3
    <3>4. CASE futures = <<>> /\ slot = None
      <4>1. ToSet(<<>>) = {} BY DEF ToSet
      <4>2. \A j \in Jobs : ~Active(j) BY <3>4, <4>1 DEF LaunchInv, OneRunPerJob, Jobs
      <4>3. \A j \in Jobs : ~Active(j)' BY <3>1, <4>2 DEF Active
      <4>4. file' = file \/ file' = Payload("idle", execution', tick) BY <3>1, <3>2
      <4> QED BY <1>t, <1>h, <3>1, <4>3, <4>4, HangKept
    <3> QED BY <3>1, <3>3, <3>4
  <2> QED BY <2>1, <2>2
<1>8. CASE Drain
  <2>1. \A j \in Jobs : Done(j) \/ ~Active(j) BY <1>8 DEF Drain
  <2>2. execution' = [j \in Jobs |-> IF j \in {k \in Jobs : Active(k)} THEN Idle ELSE execution[j]]
    BY <1>8 DEF Drain, Finalize
  <2>3. \A j \in Jobs : execution'[j].state = "idle" BY <2>2, IdleTyped DEF Active
  <2>4. \A j \in Jobs : ~Active(j)' BY <2>3 DEF Active
  <2>5. /\ UNCHANGED <<mode, beat>>
        /\ \/ file' = file
           \/ file' = Payload(IF pending = "error" THEN "error" ELSE "stopped", execution', tick)
    BY <1>8 DEF Drain, Emit
  <2> QED BY <1>t, <2>3, <2>4, <2>5, HangKept
<1>9. ASSUME NEW j \in Jobs, RunEnds(j) PROVE HangInv'
  <2>1. /\ UNCHANGED <<mode, file, beat>> /\ execution[j].state = "running"
        /\ \E state \in {"success", "error", "hung"} :
              /\ execution' = [execution EXCEPT ![j].state = state]
              /\ state = "hung" => j \in MayHang
    BY <1>9 DEF RunEnds, Outcome
  <2>2. PICK state \in {"success", "error", "hung"} :
              /\ execution' = [execution EXCEPT ![j].state = state]
              /\ state = "hung" => j \in MayHang
    BY <2>1
  <2>3. ASSUME NEW k \in Jobs
        PROVE  /\ execution'[k].started = execution[k].started
               /\ execution'[k].state = IF k = j THEN state ELSE execution[k].state
    BY <1>t, <2>2 DEF TypeOK
  <2>4. \A k \in Jobs : Active(k)' => Active(k) /\ execution'[k].started = execution[k].started
    BY <2>1, <2>3 DEF Active
  <2>5. \A k \in Jobs : execution'[k].state = "hung" => k \in MayHang BY <1>h, <2>2, <2>3
  <2> QED BY <1>t, <2>1, <2>4, <2>5, HangKept
<1>10. CASE Refresh
  <2>1. /\ UNCHANGED <<mode, execution>> /\ beat' = Quiet
        /\ file' = file \/ file' = Payload(Resolved(execution'), execution', tick)
    BY <1>10 DEF Refresh, Emit
  <2>2. beat'.pc = "wait" BY <2>1 DEF Quiet
  <2>3. \A j \in Jobs : Active(j)' => Active(j) /\ execution'[j].started = execution[j].started
    BY <2>1 DEF Active
  <2> QED BY <1>t, <1>h, <2>1, <2>2, <2>3, HangKept
<1>11. CASE BuildOnly
  <2> DEFINE says == Payload(Resolved(execution), execution, tick)
  <2>1. UNCHANGED <<mode, execution, file>> /\ beat' = [pc |-> "emit", due |-> FALSE, payload |-> says]
    BY <1>11 DEF BuildOnly
  <2>2. ASSUME NEW j \in Jobs, Active(j)' PROVE Tells(beat.payload, j)'
    <3>1. execution \in Executions /\ tick \in Age /\ Active(j) BY <1>t, <2>1, <2>2 DEF TypeOK, Executions, Active
    <3>2. /\ says.status = "running" /\ says.active[j] = execution[j].started
          /\ execution[j].started # NotActive
      BY <3>1, PayloadTells DEF Active
    <3>3. execution[j].started \in Nat BY <3>1, AgeIs DEF Executions
    <3> HIDE DEF says
    <3> QED BY <2>1, <3>2, <3>3 DEF Tells
  <2> QED BY <2>1, <2>2 DEF HangInv, Active, Tells
<1>12. CASE EmitLate
  <2>1. /\ UNCHANGED <<mode, execution>> /\ beat.pc = "emit" /\ beat' = Quiet
        /\ file' = file \/ file' = beat.payload
    BY <1>12 DEF EmitLate, Emit
  <2>2. beat'.pc = "wait" BY <2>1 DEF Quiet
  <2>3. CASE file' = file BY <1>a, <2>1, <2>2, <2>3
  <2>4. CASE file' = beat.payload
    <3>1. ASSUME NEW j \in Jobs, Active(j)'
          PROVE  file'.seen >= execution'[j].started \/ Tells(file, j)'
      <4>1. Active(j) BY <2>1, <3>1 DEF Active
      <4>2. CASE execution[j].started = 0
        <5>1. file'.seen \in Nat BY <1>t, AgeIs DEF TypeOK, Beat
        <5> QED BY <2>1, <4>2, <5>1
      <4>3. CASE Tells(beat.payload, j) BY <2>1, <2>4, <4>3 DEF Tells
      <4> QED BY <2>1, <4>1, <4>2, <4>3 DEF HangInv
    <3> QED BY <2>1, <2>2, <3>1 DEF HangInv, Active
  <2> QED BY <2>1, <2>3, <2>4
<1>13. CASE Clock BY <1>13, <1>t, ClockHang
<1>14. CASE Kill \/ Restart
  <2>1. execution' = AllIdle /\ beat' = Quiet BY <1>14 DEF Kill, Restart, Forget
  <2>2. \A j \in Jobs : ~Active(j)' /\ execution'[j].state # "hung" BY <2>1, IdleTyped DEF AllIdle, Active
  <2> QED BY <2>1, <2>2 DEF HangInv, Quiet
<1> QED
  BY <1>1, <1>3, <1>4, <1>6, <1>7, <1>8, <1>9, <1>10, <1>11, <1>12, <1>13, <1>14
  DEF Next, SchedulerStep

-----------------------------------------------------------------------------
(* A runner that is well is not called sick.                                 *)

\* No run outlasts its bound but by the time it waits to be reaped, which is less than a
\* sleep: the next iteration looks at the lanes and then at the slot.
InTime(j) == Active(j) => execution[j].started <= Longest[j] + execution[j].ended
ReapedBy(j) ==
    execution[j].ended > 0 =>
        /\ Done(j) /\ execution[j].ended = 1
        /\ \/ pc = "tick"
           \/ pc = "reap" /\ (j \in Lanes => j \in ToSet(batch))
           \/ pc = "reapMaint" /\ j \in Maint

\* A heartbeat of that age finds no fault.
Mild(b, lag) ==
    /\ b.status # "error" /\ b.tick <= lag + 1
    /\ \A j \in Jobs : b.active[j] = NotActive \/ b.active[j] <= Longest[j] + 1 + lag

Well == troubles \subseteq {"slow"}
WellNow ==
    /\ failure = Cap
    /\ \A j \in Jobs : execution[j].state \notin {"error", "hung"}
    /\ InLoop =>
        /\ pending = "no"
        /\ file.seen <= 1 /\ (beat.pc = "wait" /\ ~beat.due => file.seen = 0)
        /\ Mild(file, file.seen) /\ beat.payload.seen = 0 /\ Mild(beat.payload, 0)
        /\ \A j \in Jobs : InTime(j) /\ ReapedBy(j)
WellInv == (pc = "dead" => "kill" \in troubles) /\ (Well => WellNow)

\* Troubles are remembered: a runner that is well has met none but a late beat.
LEMMA TroublesStay ==
    ASSUME [Next]_vars PROVE troubles \subseteq troubles'
<1>1. \A k : Trouble(k) => troubles \subseteq troubles' BY DEF Trouble
<1>2. \A p : Emit(p) => troubles \subseteq troubles' BY <1>1 DEF Emit, Fails
<1>3. \A j : Reap(j) => troubles \subseteq troubles'
  <2> SUFFICES ASSUME NEW j, Reap(j) PROVE troubles \subseteq troubles'
    OBVIOUS
  <2>1. (\E p : Emit(p)) \/ Fails BY Zenon DEF Reap
  <2> QED BY <1>1, <1>2, <2>1 DEF Fails
<1>4. CASE TickLoop \/ LanesReaped \/ Interrupt \/ Join \/ Clock \/ Restart \/ UNCHANGED vars
  BY <1>4 DEF TickLoop, LanesReaped, Interrupt, Join, Clock, Restart, vars
<1>5. CASE ReapLane \/ ReapMaintenance BY <1>3, <1>5 DEF ReapLane, ReapMaintenance
<1>6. CASE DispatchLanes \/ DispatchMaintenance \/ Drain
  <2>1. troubles' = troubles \/ \E p : Emit(p)
    BY <1>6, Zenon DEF DispatchLanes, DispatchMaintenance, Drain
  <2> QED BY <1>2, <2>1
<1>7. CASE \E j \in Jobs : RunEnds(j) BY <1>1, <1>7 DEF RunEnds, Outcome
<1>8. CASE Refresh \/ BuildOnly \/ EmitLate \/ Kill
  BY <1>1, <1>2, <1>8 DEF Refresh, BuildOnly, EmitLate, Kill
<1> QED BY <1>4, <1>5, <1>6, <1>7, <1>8 DEF Next, SchedulerStep

LEMMA WellWrites ==
    ASSUME Well' PROVE  /\ ~Fails /\ ~Trouble("error") /\ ~Trouble("hang") /\ ~Trouble("kill")
                        /\ \A p : Emit(p) => file' = p
BY DEF Well, Trouble, Fails, Emit

\* A heartbeat written by a runner that is well is mild.
LEMMA PayloadIsMild ==
    ASSUME NEW e \in Executions, NEW s, s # "error", tick \in Nat, tick <= 1,
           \A j \in Jobs : e[j].state # "idle" => e[j].started <= Longest[j] + 1
    PROVE  Payload(s, e, tick).seen = 0 /\ Mild(Payload(s, e, tick), 0)
<1>1. ASSUME NEW j \in Jobs
      PROVE  LET a == IF e[j].state = "idle" THEN NotActive ELSE e[j].started
             IN  a = NotActive \/ a <= Longest[j] + 1 + 0
  <2>1. Longest[j] \in Nat BY SchedulerAssumption
  <2> QED BY <2>1
<1> QED BY <1>1 DEF Payload, Mild

\* A step within an iteration, which changes runs only by beginning or reporting them.
LEMMA WellKept ==
    ASSUME TypeOK, TypeOK', SilenceInv, WellNow, InLoop' => InLoop /\ tick' \in {tick, 0},
           failure' = failure, pending' = pending,
           \A j \in Jobs : execution'[j] \in {execution[j], Idle, Running},
           InLoop' => \A j \in Jobs : ReapedBy(j)',
           \/ file' = file /\ beat' = beat
           \/ /\ \E s : s # "error" /\ file' = Payload(s, execution', tick)
              /\ beat' = beat \/ beat' = Quiet
    PROVE  WellNow'
<1>1. \A j \in Jobs : execution'[j].state \notin {"error", "hung"}
  BY IdleTyped DEF WellNow
<1>2. CASE ~InLoop' BY <1>1, <1>2 DEF WellNow
<1>3. CASE InLoop'
  <2>1. /\ pending = "no" /\ file.seen <= 1 /\ (beat.pc = "wait" /\ ~beat.due => file.seen = 0)
        /\ Mild(file, file.seen) /\ beat.payload.seen = 0 /\ Mild(beat.payload, 0)
        /\ \A j \in Jobs : InTime(j) /\ ReapedBy(j)
    BY <1>3 DEF WellNow
  <2>2. tick \in Nat /\ tick <= 1
    <3>1. tick \in Nat BY AgeIs DEF TypeOK
    <3> QED BY <1>3, <3>1 DEF SilenceInv, InLoop
  <2>3. /\ execution' \in Executions
        /\ \A j \in Jobs : /\ Longest[j] \in Nat /\ execution'[j].started \in Nat
                           /\ execution'[j].ended \in Nat
    <3>1. execution' \in Executions BY DEF TypeOK, Executions
    <3> QED BY <3>1, AgeIs, SchedulerAssumption DEF Executions
  <2>4. \A j \in Jobs : InTime(j)' BY <2>1, <2>3 DEF InTime, Active, Idle, Running
  <2>5. \A j \in Jobs : execution'[j].state # "idle" => execution'[j].started <= Longest[j] + 1
    <3>1. \A j \in Jobs : execution'[j].ended <= 1 BY <1>3, <2>3 DEF ReapedBy
    <3> QED BY <2>3, <2>4, <3>1 DEF InTime, Active
  <2>6. CASE file' = file /\ beat' = beat
    BY <1>1, <1>3, <2>1, <2>4, <2>6 DEF WellNow, Mild
  <2>7. ASSUME NEW s, s # "error", file' = Payload(s, execution', tick), beat' = beat \/ beat' = Quiet
        PROVE  WellNow'
    <3>1. file'.seen = 0 /\ Mild(file', 0) BY <2>2, <2>3, <2>5, <2>7, PayloadIsMild
    <3>2. beat'.payload.seen = 0 /\ Mild(beat'.payload, 0)
      <4>1. \A j \in Jobs : AllIdle[j].state = "idle" BY IdleTyped DEF AllIdle
      <4>2. /\ Starting.seen = 0 /\ Starting.status = "starting" /\ Starting.tick = 0
            /\ \A j \in Jobs : Starting.active[j] = NotActive
        BY <4>1 DEF Starting, Payload
      <4>3. Mild(Starting, 0) BY <4>2 DEF Mild
      <4>4. Quiet.payload = Starting BY DEF Quiet
      <4> QED BY <2>1, <2>7, <4>2, <4>3, <4>4
    <3>3. Mild(file, file.seen)' /\ Mild(beat.payload, 0)' BY <3>1, <3>2 DEF Mild
    <3> QED BY <1>1, <1>3, <2>1, <2>4, <3>1, <3>2, <3>3 DEF WellNow
  <2> QED BY <2>6, <2>7
<1> QED BY <1>2, <1>3

LEMMA InitWell == Init => WellInv
<1> SUFFICES ASSUME Init PROVE WellInv
  OBVIOUS
<1>1. \A j \in Jobs : execution[j] = Idle BY DEF Init, AllIdle
<1>2. /\ Starting.seen = 0 /\ Starting.status = "starting" /\ Starting.tick = 0
      /\ \A j \in Jobs : Starting.active[j] = NotActive
  BY IdleTyped DEF Starting, Payload, AllIdle
<1>3. Mild(Starting, 0) BY <1>2 DEF Mild
<1>4. file = Starting /\ beat.payload = Starting /\ failure = Cap /\ pending = "no" /\ pc = "tick"
  BY DEF Init, Quiet
<1>5. \A j \in Jobs : InTime(j) /\ ReapedBy(j) BY <1>1 DEF InTime, ReapedBy, Active, Idle
<1>6. \A j \in Jobs : execution[j].state \notin {"error", "hung"} BY <1>1, IdleTyped
<1>7. WellNow BY <1>2, <1>3, <1>4, <1>5, <1>6 DEF WellNow
<1> QED BY <1>4, <1>7 DEF WellInv

\* A run is reported as it went, which was well.
LEMMA WellReaps ==
    ASSUME TypeOK, WellNow, Well', InLoop, NEW j \in Jobs, Done(j), Reap(j)
    PROVE  /\ failure' = failure /\ pending' = pending
           /\ \A k \in Jobs : execution'[k] = IF k = j THEN Idle ELSE execution[k]
           /\ \E s : s # "error" /\ file' = Payload(s, execution', tick)
<1> DEFINE stops == execution[j].state = "error" /\ mode.stopOnError
           says == Payload(IF stops THEN "error" ELSE Resolved(execution'), execution', tick)
<1>1. ~stops BY DEF WellNow
<1>2. Finalize({j}, TRUE) /\ Emit(says) /\ pending' = IF stops THEN "error" ELSE pending
  BY WellWrites, Zenon DEF Reap
<1>3. file' = says
  <2> HIDE DEF says
  <2> QED BY <1>2, WellWrites
<1>4. says = Payload(Resolved(execution'), execution', tick) BY <1>1
<1>5. Resolved(execution') # "error" BY DEF Resolved
<1>6. \A k \in Jobs : execution'[k] = IF k = j THEN Idle ELSE execution[k] BY ReapIs
<1>7. failure' = failure
  <2>1. {k \in {j} : TRUE /\ execution[k].state = "error"} = {} BY DEF WellNow
  <2>2. failure' = Min({failure} \cup {execution[k].ended : k \in {l \in {j} : TRUE /\ execution[l].state = "error"}})
    BY <1>2 DEF Finalize
  <2>3. {failure} \cup {execution[k].ended : k \in {l \in {j} : TRUE /\ execution[l].state = "error"}} = {failure, failure}
    BY <2>1
  <2>4. failure \in Int BY AgeIs DEF TypeOK
  <2> QED BY <2>2, <2>3, <2>4, MinTwo
<1> QED BY <1>1, <1>2, <1>3, <1>4, <1>5, <1>6, <1>7

LEMMA ClockWell ==
    ASSUME LaunchInv, TypeOK', SilenceInv, WellNow, Well', Clock PROVE WellNow'
<1>t. TypeOK BY DEF LaunchInv
<1>1. /\ pc' = (IF pc = "asleep" THEN "tick" ELSE pc) /\ tick' = Older(tick)
      /\ beat' = [beat EXCEPT !.due = pc = "asleep"]
      /\ failure' = Older(failure) /\ pending' = pending
      /\ pc = "asleep" => ~beat.due /\ beat.pc = "wait"
      /\ pc # "dead" => \A j \in Jobs : ~Overrun(j)
      /\ pc \in {"asleep", "drain", "over", "dead"}
  BY DEF Clock
<1>2. failure' = Cap
  <2>1. failure = Cap /\ Cap \in Age BY AgeIs DEF WellNow
  <2> QED BY <1>1, <2>1, OlderOrders, AgeIs
<1>3. \A j \in Jobs : execution'[j].state \notin {"error", "hung"} BY <1>t, ClockIs DEF WellNow
<1>4. CASE pc # "asleep"
  <2>1. ~InLoop' BY <1>1, <1>4 DEF InLoop
  <2> QED BY <1>2, <1>3, <2>1 DEF WellNow
<1>5. CASE pc = "asleep"
  <2>1. /\ InLoop /\ beat \in [pc : {"wait", "emit", "gone"}, due : BOOLEAN, payload : Beat]
        /\ pc' = "tick"
    BY <1>1, <1>5, <1>t DEF InLoop, TypeOK
  <2>2. beat'.due = TRUE /\ beat'.payload = beat.payload BY <1>1, <1>5, <2>1
  <2>3. /\ pending = "no" /\ file.seen = 0 /\ Mild(file, 0) /\ beat.payload.seen = 0 /\ Mild(beat.payload, 0)
        /\ \A j \in Jobs : InTime(j) /\ ReapedBy(j)
    BY <1>1, <1>5, <2>1 DEF WellNow
  <2>4. Cap \in Nat /\ 0 \in Age /\ Age \subseteq Nat BY AgeIs
  <2>5. Older(0) = (IF Cap = 0 THEN 0 ELSE 1) /\ (Cap = 0 => \A n \in Age : Older(n) = 0)
    <3>1. Older(0) = IF 0 + 1 <= Cap THEN 0 + 1 ELSE Cap BY <2>4, OlderOrders
    <3>2. \A n \in Age : Older(n) = IF n + 1 <= Cap THEN n + 1 ELSE Cap BY OlderOrders
    <3> QED BY <2>4, <3>1, <3>2 DEF Age
  <2>6. ASSUME NEW j \in Jobs
        PROVE  /\ InTime(j)' /\ ReapedBy(j)'
               /\ file'.active[j] = NotActive \/ file'.active[j] <= Longest[j] + 1 + Older(0)
    <3>1. /\ execution'[j].state = execution[j].state
          /\ execution'[j].started = IF Active(j) THEN Older(execution[j].started) ELSE 0
          /\ execution'[j].ended = IF Done(j) THEN Older(execution[j].ended) ELSE 0
          /\ file'.active[j] = IF file.active[j] = NotActive THEN NotActive ELSE Older(file.active[j])
          /\ execution[j].started \in Age /\ execution[j].ended \in Age
          /\ file.active[j] \in 0..NotActive
      BY <1>t, ClockIs
    <3>2. Longest[j] \in Nat /\ execution[j].started \in Nat /\ execution[j].ended \in Nat
      BY <2>4, <3>1, SchedulerAssumption
    <3>3. execution[j].ended = 0 BY <1>5, <2>3, <3>2 DEF ReapedBy
    <3>4. /\ Older(execution[j].started) \in Nat
          /\ Older(execution[j].started) <= execution[j].started + 1
      BY <2>4, <3>1, OlderOrders, AgeIs
    <3>5. InTime(j)'
      <4>1. SUFFICES ASSUME Active(j)' PROVE execution'[j].started <= Longest[j] + execution'[j].ended
        BY DEF InTime
      <4>2. Active(j) /\ execution[j].started <= Longest[j]
        BY <2>3, <3>1, <3>2, <3>3, <4>1 DEF Active, InTime
      <4>3. CASE Done(j)
        <5>1. execution'[j].ended = Older(0) /\ execution'[j].started = Older(execution[j].started)
          BY <3>1, <3>3, <4>2, <4>3
        <5> QED BY <2>4, <2>5, <3>1, <3>2, <3>4, <4>2, <5>1
      <4>4. CASE ~Done(j)
        <5>1. execution[j].state = "running"
          BY <1>t, <4>2, <4>4 DEF TypeOK, Active, Done, WellNow
        <5>2. ~(execution[j].started >= Longest[j]) BY <1>1, <1>5, <5>1 DEF Overrun
        <5> QED BY <3>1, <3>2, <3>4, <4>2, <4>4, <5>2
      <4> QED BY <4>3, <4>4
    <3>6. ReapedBy(j)'
      <4>1. Done(j)' <=> Done(j) BY <3>1 DEF Done
      <4> QED BY <2>1, <2>4, <2>5, <3>1, <3>3, <4>1 DEF ReapedBy
    <3>7. file'.active[j] = NotActive \/ file'.active[j] <= Longest[j] + 1 + Older(0)
      <4>1. SUFFICES ASSUME file.active[j] # NotActive PROVE Older(file.active[j]) <= Longest[j] + 1 + Older(0)
        BY <3>1
      <4>2. file.active[j] \in Age BY <3>1, <4>1, AgeIs
      <4>3. file.active[j] <= Longest[j] + 1 + 0 BY <2>3, <4>1 DEF Mild
      <4>4. Older(file.active[j]) <= file.active[j] + 1 BY <4>2, OlderOrders
      <4>5. Older(file.active[j]) \in Nat /\ file.active[j] \in Nat BY <2>4, <4>2, AgeIs
      <4>6. CASE Cap = 0 BY <2>5, <3>2, <4>2, <4>6
      <4>7. CASE Cap # 0
        <5>1. Older(0) = 1 BY <2>5, <4>7
        <5> QED BY <3>2, <4>3, <4>4, <4>5, <5>1
      <4> QED BY <4>6, <4>7
    <3> QED BY <3>5, <3>6, <3>7
  <2>7. Mild(file', Older(0)) /\ file'.seen = Older(0)
    <3>1. file'.status = file.status /\ file'.seen = Older(file.seen) /\ file'.tick = Older(file.tick)
      <4>1. file \in Beat BY <1>t DEF TypeOK
      <4>2. /\ file'.status = file.status /\ file'.seen = Older(file.seen) /\ file'.tick = Older(file.tick)
        BY <4>1 DEF Clock, Beat
      <4> QED BY <4>2
    <3>2. file.tick \in Age /\ file.tick <= 0 + 1 /\ file.status # "error"
      BY <1>t, <2>3 DEF TypeOK, Beat, Mild
    <3>3. Older(file.tick) <= Older(0) + 1
      <4>1. Older(file.tick) <= file.tick + 1 /\ Older(file.tick) \in Nat /\ file.tick \in Nat
        BY <2>4, <3>2, OlderOrders, AgeIs
      <4>2. CASE Cap = 0 BY <2>5, <3>2, <4>2
      <4>3. CASE Cap # 0
        <5>1. Older(0) = 1 BY <2>5, <4>3
        <5> QED BY <3>2, <4>1, <5>1
      <4> QED BY <4>2, <4>3
    <3> QED BY <2>3, <2>6, <3>1, <3>2, <3>3 DEF Mild
  <2>8. file'.seen <= 1 BY <2>5, <2>7
  <2>9. Mild(file, file.seen)' /\ Mild(beat.payload, 0)' BY <2>2, <2>3, <2>7 DEF Mild
  <2> QED BY <1>1, <1>2, <1>3, <2>2, <2>3, <2>6, <2>8, <2>9 DEF WellNow
<1> QED BY <1>4, <1>5

LEMMA HeadOrTail ==
    ASSUME NEW X, NEW s \in Seq(X), s # <<>>, NEW x \in ToSet(s), x # Head(s)
    PROVE  x \in ToSet(Tail(s))
<1>1. PICK i \in DOMAIN s : s[i] = x BY DEF ToSet
<1>2. /\ Len(s) \in Nat /\ DOMAIN s = 1..Len(s) /\ Head(s) = s[1]
      /\ Len(Tail(s)) = Len(s) - 1 /\ Tail(s) \in Seq(X)
      /\ \A k \in 1..Len(Tail(s)) : Tail(s)[k] = s[k + 1]
  BY HeadTailProperties, EmptySeq
<1>3. i # 1 BY <1>1, <1>2
<1>4. i - 1 \in 1..Len(Tail(s)) /\ Tail(s)[i - 1] = s[i] BY <1>1, <1>2, <1>3
<1>5. i - 1 \in DOMAIN Tail(s) BY <1>2, <1>4
<1> QED BY <1>1, <1>4, <1>5 DEF ToSet

LEMMA StepWell ==
    ASSUME LaunchInv, LaunchInv', SilenceInv, SilenceInv', WellNow, Well, Well', "kill" \notin troubles,
           pc # "dead", [Next]_vars
    PROVE  WellNow'
<1>t. TypeOK /\ TypeOK' BY DEF LaunchInv
<1>w. /\ ~Fails /\ ~Trouble("error") /\ ~Trouble("hang") /\ ~Trouble("kill")
      /\ \A p : Emit(p) => file' = p
  BY WellWrites
<1>s. \A j \in Jobs : execution[j] \in {execution[j], Idle, Running} OBVIOUS
\* What is known of the runs within an iteration.
<1>r. ASSUME InLoop
      PROVE  \A j \in Jobs : ReapedBy(j) /\ execution[j].ended \in Nat
  BY <1>r, <1>t, AgeIs DEF WellNow, TypeOK
<1>1. CASE TickLoop
  <2>1. /\ pc = "tick" /\ UNCHANGED <<failure, pending, execution, file, beat, futures>> /\ tick' = 0
        /\ pc' = "join" \/ (pc' = "reap" /\ batch' = Those(futures, {l \in Lanes : Done(l)}))
    BY <1>1 DEF TickLoop
  <2>2. InLoop' => InLoop BY <2>1 DEF InLoop
  <2>3. ASSUME InLoop', NEW j \in Jobs PROVE ReapedBy(j)'
    <3>1. pc' = "reap" /\ batch' = Those(futures, {l \in Lanes : Done(l)})
      BY <2>1, <2>3 DEF InLoop
    <3>2. futures \in Seq(Lanes) /\ IsInjective(futures) /\ ToSet(futures) = {l \in Lanes : Active(l)}
      BY DEF LaunchInv, TypeOK, OneRunPerJob
    <3>3. ToSet(batch') = ToSet(futures) \cap {l \in Lanes : Done(l)}
      BY <3>1, <3>2, ThoseAre
    <3>4. Done(j)' <=> Done(j) BY <2>1 DEF Done
    <3>5. Done(j) => Active(j) BY DEF Done, Active
    <3> QED BY <1>r, <2>1, <2>2, <2>3, <3>1, <3>2, <3>3, <3>4, <3>5 DEF ReapedBy
  <2> QED BY <1>t, <1>s, <2>1, <2>2, <2>3, WellKept
<1>2. CASE ReapLane
  <2> DEFINE h == Head(batch)
  <2>1. /\ pc = "reap" /\ batch # <<>> /\ Reap(h) /\ UNCHANGED <<pc, tick, beat>>
        /\ batch' = IF pending' = "no" THEN Tail(batch) ELSE <<>>
    BY <1>2 DEF ReapLane
  <2>2. InLoop /\ InLoop' /\ batch \in Seq(Lanes) BY <1>t, <2>1 DEF InLoop, TypeOK
  <2>3. h \in Lanes /\ h \in ToSet(batch) BY <2>1, <2>2, TailMembers
  <2>4. h \in Jobs /\ Done(h) BY <2>3 DEF LaunchInv, BatchInv, Jobs
  <2> HIDE DEF h
  <2>5. /\ failure' = failure /\ pending' = pending
        /\ \A k \in Jobs : execution'[k] = IF k = h THEN Idle ELSE execution[k]
        /\ \E s : s # "error" /\ file' = Payload(s, execution', tick)
    BY <1>t, <2>1, <2>2, <2>4, WellReaps
  <2>6. batch' = Tail(batch) BY <2>1, <2>2, <2>5 DEF WellNow
  <2>7. ASSUME NEW j \in Jobs PROVE ReapedBy(j)'
    <3>1. CASE j = h BY <2>5, <3>1 DEF ReapedBy, Idle
    <3>2. CASE j # h
      <4>1. execution'[j] = execution[j] /\ (Done(j)' <=> Done(j)) BY <2>5, <3>2 DEF Done
      <4>2. j \in ToSet(batch) => j \in ToSet(batch') BY <2>1, <2>2, <2>6, <3>2, HeadOrTail DEF h
      <4> QED BY <1>r, <2>1, <2>2, <4>1, <4>2 DEF ReapedBy
    <3> QED BY <3>1, <3>2
  <2>8. \A j \in Jobs : execution'[j] \in {execution[j], Idle, Running} BY <2>5
  <2> QED BY <1>t, <2>1, <2>2, <2>5, <2>7, <2>8, WellKept
<1>3. CASE LanesReaped
  <2>1. /\ pc = "reap" /\ batch = <<>> /\ pc' = "reapMaint"
        /\ UNCHANGED <<failure, pending, execution, file, beat, tick>>
    BY <1>3 DEF LanesReaped
  <2>2. InLoop BY <2>1 DEF InLoop
  <2>3. ToSet(batch) = {} BY <2>1 DEF ToSet
  <2>4. \A j \in Jobs : ReapedBy(j)'
    BY <1>r, <2>1, <2>2, <2>3 DEF ReapedBy, Done, Jobs
  <2> QED BY <1>t, <1>s, <2>1, <2>2, <2>4, WellKept
<1>4. CASE ReapMaintenance
  <2>1. pc = "reapMaint" /\ pc' \in {"join", "dispatch"} /\ UNCHANGED <<tick, beat>> /\ InLoop
    BY <1>4 DEF ReapMaintenance, InLoop
  <2>2. \A j \in Jobs : execution[j].ended > 0 => slot # None /\ Done(slot) /\ j = slot
    <3> SUFFICES ASSUME NEW j \in Jobs, execution[j].ended > 0 PROVE slot # None /\ Done(slot) /\ j = slot
      OBVIOUS
    <3>1. j \in Maint /\ Done(j) BY <1>r, <2>1 DEF ReapedBy
    <3>2. Active(j) BY <3>1 DEF Active, Done
    <3>3. j \in {slot} \ {None} BY <3>1, <3>2 DEF LaunchInv, OneRunPerJob
    <3> QED BY <3>1, <3>3
  <2>3. CASE slot # None /\ Done(slot)
    <3>1. slot \in Jobs /\ Reap(slot) BY <1>4, <1>t, <2>3 DEF ReapMaintenance, TypeOK, Jobs
    <3>2. /\ failure' = failure /\ pending' = pending
          /\ \A k \in Jobs : execution'[k] = IF k = slot THEN Idle ELSE execution[k]
          /\ \E s : s # "error" /\ file' = Payload(s, execution', tick)
      BY <1>t, <2>1, <2>3, <3>1, WellReaps
    <3>3. \A j \in Jobs : ReapedBy(j)' BY <2>2, <3>2 DEF ReapedBy, Idle
    <3>4. \A j \in Jobs : execution'[j] \in {execution[j], Idle, Running} BY <3>2
    <3> QED BY <1>t, <2>1, <3>2, <3>3, <3>4, WellKept
  <2>4. CASE ~(slot # None /\ Done(slot))
    <3>1. UNCHANGED <<failure, pending, execution, file>> BY <1>4, <2>4 DEF ReapMaintenance
    <3>2. \A j \in Jobs : ReapedBy(j)' BY <2>2, <2>4, <3>1 DEF ReapedBy
    <3> QED BY <1>t, <1>s, <2>1, <3>1, <3>2, WellKept
  <2> QED BY <2>3, <2>4
\* From the dispatch to the sleep no run waits to be reaped for longer than that.
<1>5. ASSUME pc \in {"dispatch", "dispatchMaint", "asleep"},
             InLoop' => InLoop /\ tick' \in {tick, 0},
             failure' = failure, pending' = pending,
             \A j \in Jobs : execution'[j] \in {execution[j], Idle, Running},
             \/ file' = file /\ beat' = beat
             \/ /\ \E s : s # "error" /\ file' = Payload(s, execution', tick)
                /\ beat' = beat \/ beat' = Quiet
      PROVE  WellNow'
  <2>1. InLoop BY <1>5 DEF InLoop
  <2>2. \A j \in Jobs : ~(execution[j].ended > 0) BY <1>r, <1>5, <2>1 DEF ReapedBy
  <2>3. \A j \in Jobs : ~(execution'[j].ended > 0) BY <1>5, <2>2 DEF Idle, Running
  <2>4. \A j \in Jobs : ReapedBy(j)' BY <2>3 DEF ReapedBy
  <2> QED BY <1>t, <1>5, <2>4, WellKept
<1>6. CASE DispatchLanes
  <2>1. pc = "dispatch" /\ pc' = "dispatchMaint" /\ UNCHANGED <<failure, pending, tick, beat>> /\ InLoop
    BY <1>6 DEF DispatchLanes, InLoop
  <2>2. CASE LanesToStart = <<>>
    <3>1. UNCHANGED <<execution, file>> BY <1>6, <2>2 DEF DispatchLanes
    <3> QED BY <1>5, <1>s, <2>1, <3>1
  <2>3. CASE LanesToStart # <<>>
    <3>1. file' = Payload("running", execution', tick) BY <1>6, <1>w, <2>3 DEF DispatchLanes
    <3>2. \A j \in Jobs : execution'[j] \in {execution[j], Idle, Running}
      BY <1>6, <2>3 DEF DispatchLanes, Launch
    <3>3. \E s : s # "error" /\ file' = Payload(s, execution', tick) BY <3>1
    <3> QED BY <1>5, <2>1, <3>2, <3>3
  <2> QED BY <2>2, <2>3
<1>7. CASE DispatchMaintenance
  <2>1. /\ pc = "dispatchMaint" /\ pc' \in {"tick", "asleep"} /\ InLoop
        /\ UNCHANGED <<failure, pending, tick, beat>>
    BY <1>7 DEF DispatchMaintenance, InLoop
  <2>2. CASE slot = None /\ MaintDue # {} /\ ~AtLimit(count + InFlight)
    <3>1. file' = Payload("running", execution', tick) BY <1>7, <1>w, <2>2 DEF DispatchMaintenance
    <3>2. \A j \in Jobs : execution'[j] \in {execution[j], Idle, Running}
      BY <1>7, <2>2 DEF DispatchMaintenance, Launch
    <3>3. \E s : s # "error" /\ file' = Payload(s, execution', tick) BY <3>1
    <3> QED BY <1>5, <2>1, <3>2, <3>3
  <2>3. CASE ~(slot = None /\ MaintDue # {} /\ ~AtLimit(count + InFlight))
    <3>1. /\ execution' = execution
          /\ file' = file \/ file' = Payload("idle", execution', tick)
      BY <1>7, <1>w, <2>3 DEF DispatchMaintenance
    <3>2. file' = file \/ \E s : s # "error" /\ file' = Payload(s, execution', tick) BY <3>1
    <3> QED BY <1>5, <1>s, <2>1, <3>1, <3>2
  <2> QED BY <2>2, <2>3
\* Steps out of the loop, and out of it for good.
<1>8. CASE Interrupt \/ Join
  <2>1. UNCHANGED <<failure, execution>> /\ pc' \in {"join", "drain"} BY <1>8 DEF Interrupt, Join
  <2> QED BY <2>1 DEF WellNow, InLoop
<1>9. CASE Drain
  <2> DEFINE S == {j \in Jobs : Active(j)}
             T == {execution[j].ended : j \in {k \in S : TRUE /\ execution[k].state = "error"}}
  <2>1. /\ pc' = "over" /\ failure' = Min({failure} \cup T)
        /\ execution' = [j \in Jobs |-> IF j \in S THEN Idle ELSE execution[j]]
    BY <1>9 DEF Drain, Finalize
  <2>2. T = {} BY DEF WellNow
  <2>3. failure \in Int BY <1>t, AgeIs DEF TypeOK
  <2>4. {failure} \cup T = {failure, failure} BY <2>2
  <2>5. failure' = failure BY <2>1, <2>3, <2>4, MinTwo
  <2>6. \A j \in Jobs : execution'[j].state \notin {"error", "hung"} BY <2>1, IdleTyped DEF WellNow
  <2> QED BY <2>1, <2>5, <2>6 DEF WellNow, InLoop
<1>10. ASSUME NEW j \in Jobs, RunEnds(j) PROVE WellNow'
  <2>1. /\ UNCHANGED <<pc, batch, failure, pending, file, beat>> /\ execution[j].state = "running"
        /\ execution' = [execution EXCEPT ![j].state = "success"]
    BY <1>10, <1>w DEF RunEnds, Outcome
  <2>2. \A k \in Jobs : /\ execution'[k].started = execution[k].started
                        /\ execution'[k].ended = execution[k].ended
                        /\ execution'[k].state = IF k = j THEN "success" ELSE execution[k].state
    BY <1>t, <2>1 DEF TypeOK
  <2>3. \A k \in Jobs : (Active(k)' <=> Active(k)) /\ (Done(k) => Done(k)')
    BY <2>1, <2>2 DEF Active, Done
  <2>4. \A k \in Jobs : (InTime(k) => InTime(k)') /\ (ReapedBy(k) => ReapedBy(k)')
    BY <2>1, <2>2, <2>3 DEF InTime, ReapedBy
  <2>5. Mild(file, file.seen)' = Mild(file, file.seen) /\ Mild(beat.payload, 0)' = Mild(beat.payload, 0)
    BY <2>1 DEF Mild
  <2> QED BY <2>1, <2>2, <2>4, <2>5 DEF WellNow, InLoop
<1>11. CASE Refresh
  <2>1. /\ UNCHANGED <<pc, batch, failure, pending, execution, tick>> /\ beat' = Quiet
        /\ file' = Payload(Resolved(execution'), execution', tick)
    BY <1>11, <1>w DEF Refresh
  <2>2. Resolved(execution') # "error" BY DEF Resolved
  <2>3. InLoop' => InLoop BY <2>1 DEF InLoop
  <2>4. InLoop' => \A j \in Jobs : ReapedBy(j)' BY <1>r, <2>1, <2>3 DEF ReapedBy, Done
  <2> QED BY <1>t, <1>s, <2>1, <2>2, <2>3, <2>4, WellKept
<1>12. CASE BuildOnly
  <2> DEFINE says == Payload(Resolved(execution), execution, tick)
  <2>1. /\ UNCHANGED <<pc, batch, failure, pending, execution, tick, file>>
        /\ beat' = [pc |-> "emit", due |-> FALSE, payload |-> says]
    BY <1>12 DEF BuildOnly
  <2>2. CASE ~InLoop BY <2>1, <2>2 DEF WellNow, InLoop
  <2>3. CASE InLoop
    <3>1. Resolved(execution) # "error" BY DEF Resolved
    <3>2. tick \in Nat /\ tick <= 1
      <4>1. tick \in Nat BY <1>t, AgeIs DEF TypeOK
      <4> QED BY <2>3, <4>1 DEF SilenceInv, InLoop
    <3>3. \A j \in Jobs : execution[j].state # "idle" => execution[j].started <= Longest[j] + 1
      <4> SUFFICES ASSUME NEW j \in Jobs, execution[j].state # "idle"
                   PROVE  execution[j].started <= Longest[j] + 1
        OBVIOUS
      <4>1. /\ execution[j].ended \in Nat /\ execution[j].started \in Nat /\ Longest[j] \in Nat
        BY <1>t, AgeIs, SchedulerAssumption DEF TypeOK
      <4>2. execution[j].ended <= 1 BY <1>r, <2>3, <4>1 DEF ReapedBy
      <4>3. execution[j].started <= Longest[j] + execution[j].ended BY <2>3 DEF WellNow, InTime, Active
      <4> QED BY <4>1, <4>2, <4>3
    <3>4. says.seen = 0 /\ Mild(says, 0)
      <4>1. execution \in Executions BY <1>t DEF TypeOK, Executions
      <4> QED BY <3>1, <3>2, <3>3, <4>1, PayloadIsMild
    <3> HIDE DEF says
    <3>5. beat'.pc = "emit" /\ beat'.payload = says BY <2>1
    <3>6. Mild(file, file.seen)' /\ Mild(beat.payload, 0)' BY <2>1, <2>3, <3>4, <3>5 DEF Mild, WellNow
    <3>7. \A j \in Jobs : InTime(j)' /\ ReapedBy(j)'
      BY <2>1, <2>3 DEF WellNow, InTime, ReapedBy, Active, Done
    <3> QED BY <2>1, <2>3, <3>4, <3>5, <3>6, <3>7 DEF WellNow, InLoop
  <2> QED BY <2>2, <2>3
<1>13. CASE EmitLate
  <2>1. /\ UNCHANGED <<pc, batch, failure, pending, execution, tick>> /\ beat' = Quiet
        /\ file' = beat.payload
    BY <1>13, <1>w DEF EmitLate
  <2>2. CASE ~InLoop BY <2>1, <2>2 DEF WellNow, InLoop
  <2>3. CASE InLoop
    <3>1. file'.seen = 0 /\ Mild(file', 0) BY <2>1, <2>3 DEF WellNow
    <3>2. beat'.payload.seen = 0 /\ Mild(beat'.payload, 0)
      <4>1. \A j \in Jobs : AllIdle[j].state = "idle" BY IdleTyped DEF AllIdle
      <4>2. /\ Starting.seen = 0 /\ Starting.status = "starting" /\ Starting.tick = 0
            /\ \A j \in Jobs : Starting.active[j] = NotActive
        BY <4>1 DEF Starting, Payload
      <4>3. Mild(Starting, 0) BY <4>2 DEF Mild
      <4> QED BY <2>1, <4>2, <4>3 DEF Quiet
    <3>3. Mild(file, file.seen)' /\ Mild(beat.payload, 0)' BY <3>1, <3>2 DEF Mild
    <3>4. \A j \in Jobs : InTime(j)' /\ ReapedBy(j)'
      BY <2>1, <2>3 DEF WellNow, InTime, ReapedBy, Active, Done
    <3> QED BY <2>1, <2>3, <3>1, <3>2, <3>3, <3>4 DEF WellNow, InLoop
  <2> QED BY <2>2, <2>3
<1>14. CASE Clock BY <1>14, <1>t, ClockWell
<1>15. CASE Kill \/ Restart BY <1>15, <1>w DEF Kill, Restart
<1>16. CASE UNCHANGED vars
  <2>1. UNCHANGED <<pc, batch, failure, pending, execution, file, beat>> BY <1>16 DEF vars
  <2> QED BY <2>1 DEF WellNow, InLoop, Mild, InTime, ReapedBy, Active, Done
<1> QED
  BY <1>1, <1>2, <1>3, <1>4, <1>6, <1>7, <1>8, <1>9, <1>10, <1>11, <1>12, <1>13, <1>14, <1>15, <1>16
  DEF Next, SchedulerStep

\* Kept by every step: only the kill that Well excludes makes a runner dead.
LEMMA StepWellInv ==
    LaunchInv /\ LaunchInv' /\ SilenceInv /\ SilenceInv' /\ WellInv /\ [Next]_vars => WellInv'
<1> SUFFICES ASSUME LaunchInv, LaunchInv', SilenceInv, SilenceInv', WellInv, [Next]_vars
             PROVE  WellInv'
  OBVIOUS
<1>1. troubles \subseteq troubles' BY TroublesStay
<1>2. ASSUME pc' = "dead" PROVE "kill" \in troubles'
  <2>1. CASE Kill BY <2>1 DEF Kill, Trouble
  <2>2. CASE pc = "dead" BY <1>1, <2>2 DEF WellInv
  <2>3. CASE ~Kill /\ pc # "dead"
    <3>1. TickLoop => pc' # "dead" BY DEF TickLoop
    <3>2. ReapLane \/ LanesReaped \/ ReapMaintenance => pc' # "dead"
      BY <2>3 DEF ReapLane, LanesReaped, ReapMaintenance
    <3>3. DispatchLanes \/ DispatchMaintenance => pc' # "dead"
      <4>1. DispatchLanes => pc' # "dead" BY DEF DispatchLanes
      <4>2. DispatchMaintenance => pc' # "dead" BY DEF DispatchMaintenance
      <4> QED BY <4>1, <4>2
    <3>4. Join \/ Drain \/ Interrupt => pc' # "dead" BY DEF Join, Drain, Interrupt
    <3>5. (\E j \in Jobs : RunEnds(j)) \/ Refresh \/ BuildOnly \/ EmitLate => pc' # "dead"
      BY <2>3 DEF RunEnds, Refresh, BuildOnly, EmitLate
    <3>6. Clock \/ Restart \/ UNCHANGED vars => pc' # "dead"
      BY <2>3 DEF Clock, Restart, vars
    <3> QED BY <1>2, <2>3, <3>1, <3>2, <3>3, <3>4, <3>5, <3>6 DEF Next, SchedulerStep
  <2> QED BY <2>1, <2>2, <2>3
<1>3. ASSUME Well' PROVE WellNow'
  <2>1. Well /\ WellNow BY <1>1, <1>3 DEF Well, WellInv
  <2>2. "kill" \notin troubles BY <2>1 DEF Well
  <2>3. pc # "dead" BY <2>2 DEF WellInv
  <2> QED BY <1>3, <2>1, <2>2, <2>3, StepWell
<1> QED BY <1>2, <1>3 DEF WellInv

\* The older a run, the longer it is.
LEMMA LongerIsLong ==
    ASSUME NEW j \in Jobs, NEW a \in Nat, NEW b \in Nat, a <= b, PastLong(j, a)
    PROVE  PastLong(j, b)
<1>1. Segment[j] \in Nat /\ Interval[j] \in Nat BY HealthAssumption, SchedulerAssumption
<1>2. Interval[j] \in Int /\ Segment[j] \in Int BY <1>1
<1>3. Cadence(j) \in Nat BY <1>1, <1>2, MaxTwo DEF Cadence
<1>4. CASE Segment[j] > 0
  <2>1. 2 * a > 3 * Segment[j] BY <1>4 DEF PastLong
  <2>2. 2 * b > 3 * Segment[j] BY <1>1, <2>1
  <2> QED BY <1>4, <2>2 DEF PastLong
<1>5. CASE ~(Segment[j] > 0)
  <2> HIDE DEF Cadence
  <2>1. 2 * a > 5 * Cadence(j) + 2 * 0 BY <1>5 DEF PastLong, PastCadence
  <2>2. 2 * b > 5 * Cadence(j) + 2 * 0 BY <1>3, <2>1
  <2> QED BY <1>5, <2>2 DEF PastLong, PastCadence
<1> QED BY <1>4, <1>5

LEMMA HangInvShows == TypeOK /\ HangInv /\ StaleBeforeLong => HangIsSeen
<1> SUFFICES ASSUME TypeOK, HangInv, StaleBeforeLong,
                    NEW j \in Jobs, execution[j].state = "hung", PastLong(j, execution[j].started)
             PROVE  Status = "error"
  BY DEF HangIsSeen
<1>1. /\ execution[j].started \in Nat /\ file.seen \in Nat /\ StaleAfter \in Nat
      /\ file.active[j] \in Nat
  <2>1. execution[j].started \in Age /\ file.seen \in Age /\ file.active[j] \in 0..NotActive
    BY DEF TypeOK, Beat
  <2>2. Cap + 1 \in Nat BY AgeIs
  <2> QED BY <2>1, <2>2, AgeIs, HealthAssumption DEF NotActive
<1>2. Active(j) BY DEF Active
<1>3. j \in mode.enabled /\ j \in MayHang BY <1>2 DEF HangInv
<1>4. execution[j].started > StaleAfter
  <2>1. ~PastLong(j, StaleAfter) BY <1>3 DEF StaleBeforeLong
  <2> QED BY <1>1, <2>1, LongerIsLong
<1>5. CASE file.status = "error"
  <2>1. "runner_error_state" \in HeartbeatFindings BY <1>5 DEF HeartbeatFindings
  <2> QED BY <2>1 DEF Status
<1>6. CASE ~Fresh
  <2>1. "stale_heartbeat" \in HeartbeatFindings BY <1>6 DEF HeartbeatFindings
  <2> QED BY <2>1 DEF Status
<1>7. CASE Tells(file, j) /\ Fresh
  <2>1. InProgress(j) BY <1>7 DEF Tells, InProgress
  <2>2. PastLong(j, file.active[j])
    <3>1. file.active[j] >= execution[j].started BY <1>7 DEF Tells
    <3> QED BY <1>1, <3>1, LongerIsLong
  <2>3. j \in LongJobs BY <1>3, <2>1, <2>2 DEF LongJobs, LongRunning
  <2> QED BY <2>3 DEF Status
<1>8. CASE file.seen >= execution[j].started
  <2>1. ~Fresh BY <1>1, <1>4, <1>8 DEF Fresh
  <2> QED BY <1>6, <2>1
<1> QED BY <1>2, <1>5, <1>6, <1>7, <1>8 DEF HangInv

LEMMA WellInvShows == TypeOK /\ WellInv /\ RunsEndInTime => NoFalseError
<1> SUFFICES ASSUME TypeOK, WellInv, RunsEndInTime, Healthy PROVE Status # "error"
  BY DEF NoFalseError
<1>1. InLoop /\ WellNow BY DEF Healthy, WellInv, Well
<1>2. /\ failure = Cap /\ file.seen <= 1 /\ Mild(file, file.seen) BY <1>1 DEF WellNow
<1>3. /\ file.seen \in Nat /\ file.tick \in Nat /\ StaleAfter \in Nat /\ StallAfter \in Nat
  BY AgeIs, HealthAssumption DEF TypeOK, Beat
<1>4. Fresh BY <1>2, <1>3 DEF Fresh, RunsEndInTime
<1>5. ~(file.tick > StallAfter) BY <1>2, <1>3 DEF Mild, RunsEndInTime
<1>6. file.status # "error" BY <1>2 DEF Mild
<1>7. HeartbeatFindings = {} BY <1>4, <1>5, <1>6 DEF HeartbeatFindings
<1>8. ~RecentFailures
  <2>1. Cap \in Nat BY AgeIs
  <2>2. ~(Cap < Cap) BY <2>1
  <2> QED BY <1>2, <2>2 DEF RecentFailures
<1>9. ASSUME NEW j \in Jobs PROVE ~LongRunning(j)
  <2> SUFFICES ASSUME LongRunning(j) PROVE FALSE
    OBVIOUS
  <2>1. PastLong(j, file.active[j]) /\ file.active[j] # NotActive
    BY DEF LongRunning, InProgress
  <2>2. Longest[j] \in Nat /\ file.active[j] \in Nat
    <3>1. file.active[j] \in 0..NotActive BY DEF TypeOK, Beat
    <3>2. Cap + 1 \in Nat BY AgeIs
    <3> QED BY <3>1, <3>2, SchedulerAssumption DEF NotActive
  <2>3. file.active[j] <= Longest[j] + 1 + file.seen BY <1>2, <2>1 DEF Mild
  <2>4. Longest[j] + 2 \in Nat /\ file.active[j] <= Longest[j] + 2 BY <1>2, <1>3, <2>2, <2>3
  <2>5. PastLong(j, Longest[j] + 2) BY <2>1, <2>2, <2>4, LongerIsLong
  <2> QED BY <2>5 DEF RunsEndInTime
<1>10. LongJobs = {}
  <2>1. mode.enabled \subseteq Jobs BY SchedulerAssumption DEF TypeOK
  <2> QED BY <1>9, <2>1 DEF LongJobs
<1> QED BY <1>7, <1>8, <1>10 DEF Status

\* What is kept of the runs and of the heartbeat, together.
SightInv == LaunchInv /\ BeatInv /\ SilenceInv /\ HangInv /\ WellInv

LEMMA Sight == Spec => []SightInv
<1>1. Init => SightInv
  BY InitLaunch, InitBeat, InitSilence, InitHang, InitWell DEF SightInv
<1>2. SightInv /\ [Next]_vars => SightInv'
  <2> SUFFICES ASSUME SightInv, [Next]_vars PROVE SightInv'
    OBVIOUS
  <2>1. LaunchInv /\ BeatInv /\ SilenceInv /\ HangInv /\ WellInv BY DEF SightInv
  <2>2. LaunchInv' BY <2>1, StepLaunch
  <2>3. BeatInv' BY <2>1, StepBeat
  <2>4. SilenceInv' BY <2>1, StepSilence DEF LaunchInv
  <2>5. HangInv' BY <2>1, <2>2, StepHang
  <2>6. WellInv' BY <2>1, <2>2, <2>4, StepWellInv
  <2> QED BY <2>2, <2>3, <2>4, <2>5, <2>6 DEF SightInv
<1> QED BY <1>1, <1>2, PTL DEF Spec

\* A maintenance job that hangs (a call that never returns, ops.py 1225-1266) is an error of
\* the report from when it is past its threshold: either the heartbeat still comes and names
\* the run with at least its age, or it is as old as the run and stale.
THEOREM HangsAreSeen == ASSUME StaleBeforeLong PROVE Spec => []HangIsSeen
<1>1. SightInv => HangIsSeen BY HangInvShows DEF SightInv, LaunchInv
<1> QED BY <1>1, Sight, PTL

\* A runner whose writes and runs have all succeeded is not an error of the report
\* (build_health_report, ops.py 1088-1300), wherever its threads stand, and even when the
\* refresher was held up between building a heartbeat and writing it.
THEOREM BusyIsNotSick == ASSUME RunsEndInTime PROVE Spec => []NoFalseError
<1>1. SightInv => NoFalseError BY WellInvShows DEF SightInv, LaunchInv
<1> QED BY <1>1, Sight, PTL

\* The report is right both ways: build_health_report misses no scheduler that has stopped
\* and no job that hangs, and it calls no runner sick whose jobs all end in time.
THEOREM HealthIsRight == ASSUME StaleBeforeLong, RunsEndInTime PROVE Spec => []HealthIsTold
<1>1. SilentSchedulerIsSeen /\ HangIsSeen /\ NoFalseError => HealthIsTold
  BY DEF HealthIsTold, SicknessIsSeen
<1> QED BY <1>1, SilenceIsSeen, HangsAreSeen, BusyIsNotSick, PTL

-----------------------------------------------------------------------------
(* No maintenance job waits for the slot for longer than the allowance explains. *)

\* The equation of the recursion in SlotTime, which has a solution up to any length.
Sums(S, f, n) ==
    f = [i \in 0..n |-> IF i = 0 THEN 0
                        ELSE f[i - 1] + (IF MaintSeq[i] \in S THEN Longest[MaintSeq[i]] + 1 ELSE 0)]

LEMMA SumsExist ==
    ASSUME NEW S, NEW m \in Nat PROVE \E f : Sums(S, f, m)
<1> DEFINE Bad == {n \in Nat : ~\E f : Sums(S, f, n)}
           Cost(i) == IF MaintSeq[i] \in S THEN Longest[MaintSeq[i]] + 1 ELSE 0
<1>1. SUFFICES ASSUME Bad # {} PROVE FALSE OBVIOUS
<1>2. PICK n \in Bad : \A k \in Bad : n <= k
  <2>1. Bad \in SUBSET Nat OBVIOUS
  <2> HIDE DEF Bad
  <2> QED BY <1>1, <2>1, LeastNat
<1>3. n # 0
  <2> DEFINE z == [i \in 0..0 |-> 0]
  <2>1. z = [i \in 0..0 |-> IF i = 0 THEN 0 ELSE z[i - 1] + Cost(i)] OBVIOUS
  <2>2. Sums(S, z, 0) BY <2>1 DEF Sums
  <2> QED BY <1>2, <2>2
<1>4. n - 1 \in Nat /\ n - 1 \notin Bad /\ n \in Nat BY <1>2, <1>3
<1>5. PICK f : Sums(S, f, n - 1) BY <1>4
<1>6. f = [i \in 0..(n - 1) |-> IF i = 0 THEN 0 ELSE f[i - 1] + Cost(i)] BY <1>5 DEF Sums
<1> HIDE DEF Cost
<1> DEFINE g == [i \in 0..n |-> IF i < n THEN f[i] ELSE f[i - 1] + Cost(i)]
<1>7. ASSUME NEW i \in 0..n
      PROVE  g[i] = IF i = 0 THEN 0 ELSE g[i - 1] + Cost(i)
  <2>1. CASE i = n
    <3>1. g[i] = f[i - 1] + Cost(i) BY <2>1, <1>4
    <3>2. g[i - 1] = f[i - 1] BY <2>1, <1>3, <1>4
    <3> QED BY <2>1, <1>3, <3>1, <3>2
  <2>2. CASE i < n
    <3>1. i \in 0..(n-1) /\ g[i] = f[i] BY <2>2, <1>4
    <3>2. i # 0 => i - 1 \in 0..n /\ i - 1 < n BY <2>2, <1>4
    <3>3. i # 0 => g[i - 1] = f[i - 1] BY <3>2
    <3>4. f[i] = IF i = 0 THEN 0 ELSE f[i - 1] + Cost(i) BY <3>1, <1>6
    <3> HIDE DEF g
    <3> QED BY <3>1, <3>3, <3>4
  <2> QED BY <2>1, <2>2, <1>4
<1>8. Sums(S, g, n)
  <2>1. g = [i \in 0..n |-> g[i]] OBVIOUS
  <2> HIDE DEF g
  <2>2. g = [i \in 0..n |-> IF i = 0 THEN 0 ELSE g[i - 1] + Cost(i)] BY <1>7, <2>1
  <2> QED BY <2>2 DEF Sums, Cost
<1> QED BY <1>2, <1>8

\* The time of a set of jobs is a sum over the config.
LEMMA SlotTimeIs ==
    ASSUME NEW S
    PROVE  \E f : /\ SlotTime(S) = f[Len(MaintSeq)] /\ f[0] = 0
                  /\ \A i \in 1..Len(MaintSeq) :
                        f[i] = f[i - 1] + (IF MaintSeq[i] \in S THEN Longest[MaintSeq[i]] + 1 ELSE 0)
<1> DEFINE sum == CHOOSE sum : sum = [n \in 0..Len(MaintSeq) |->
                        IF n = 0 THEN 0
                        ELSE sum[n - 1] + (IF MaintSeq[n] \in S THEN Longest[MaintSeq[n]] + 1 ELSE 0)]
<1>l. Len(MaintSeq) \in Nat BY JobsAre
<1>1. sum = [n \in 0..Len(MaintSeq) |->
                        IF n = 0 THEN 0
                        ELSE sum[n - 1] + (IF MaintSeq[n] \in S THEN Longest[MaintSeq[n]] + 1 ELSE 0)]
  <2>1. \E f : Sums(S, f, Len(MaintSeq)) BY <1>l, SumsExist
  <2> QED BY <2>1 DEF Sums
<1>2. SlotTime(S) = sum[Len(MaintSeq)] BY DEF SlotTime, sum
<1> HIDE DEF sum
<1>3. sum[0] = 0 BY <1>l, <1>1
<1>4. ASSUME NEW i \in 1..Len(MaintSeq)
      PROVE  sum[i] = sum[i - 1] + (IF MaintSeq[i] \in S THEN Longest[MaintSeq[i]] + 1 ELSE 0)
  <2>1. i \in 0..Len(MaintSeq) /\ i # 0 BY <1>l
  <2> QED BY <1>1, <2>1
<1> QED BY <1>2, <1>3, <1>4

\* What one job needs.
LEMMA MaintIs ==
    /\ Len(MaintSeq) \in Nat
    /\ \A i \in 1..Len(MaintSeq) : MaintSeq[i] \in Maint /\ Longest[MaintSeq[i]] \in Nat
    /\ \A m \in Maint : \E i \in 1..Len(MaintSeq) :
            MaintSeq[i] = m /\ \A k \in 1..Len(MaintSeq) : MaintSeq[k] = m => k = i
    /\ \A m \in Maint : m \in Jobs /\ Longest[m] \in Nat /\ Interval[m] \in Nat
<1>1. Len(MaintSeq) \in Nat /\ DOMAIN MaintSeq = 1..Len(MaintSeq) /\ IsInjective(MaintSeq)
  BY JobsAre
<1>2. \A i \in 1..Len(MaintSeq) : MaintSeq[i] \in Maint BY <1>1 DEF Maint, ToSet
<1>3. \A m \in Maint : m \in Jobs /\ Longest[m] \in Nat /\ Interval[m] \in Nat
  BY SchedulerAssumption DEF Jobs
<1>4. ASSUME NEW m \in Maint
      PROVE  \E i \in 1..Len(MaintSeq) :
                MaintSeq[i] = m /\ \A k \in 1..Len(MaintSeq) : MaintSeq[k] = m => k = i
  <2>1. PICK i \in 1..Len(MaintSeq) : MaintSeq[i] = m BY <1>1 DEF Maint, ToSet
  <2>2. \A k \in 1..Len(MaintSeq) : MaintSeq[k] = m => k = i BY <1>1, <2>1 DEF IsInjective
  <2> QED BY <2>1, <2>2
<1> QED BY <1>1, <1>2, <1>3, <1>4

\* More jobs need more time.
LEMMA SlotTimeGrows ==
    ASSUME NEW S, NEW T, S \cap Maint \subseteq T
    PROVE  SlotTime(S) \in Nat /\ SlotTime(T) \in Nat /\ SlotTime(S) <= SlotTime(T)
<1> DEFINE L == Len(MaintSeq)
           Cost(R, i) == IF MaintSeq[i] \in R THEN Longest[MaintSeq[i]] + 1 ELSE 0
<1>1. PICK f : /\ SlotTime(S) = f[L] /\ f[0] = 0
               /\ \A i \in 1..L : f[i] = f[i - 1] + Cost(S, i)
  BY SlotTimeIs
<1>2. PICK g : /\ SlotTime(T) = g[L] /\ g[0] = 0
               /\ \A i \in 1..L : g[i] = g[i - 1] + Cost(T, i)
  BY SlotTimeIs
<1>3. L \in Nat /\ \A i \in 1..L : Cost(S, i) \in Nat /\ Cost(T, i) \in Nat /\ Cost(S, i) <= Cost(T, i)
  BY MaintIs
<1> HIDE DEF L, Cost
<1> DEFINE Good(n) == f[n] \in Nat /\ g[n] \in Nat /\ f[n] <= g[n]
           Bad == {n \in 0..L : ~Good(n)}
<1>4. Bad = {}
  <2> SUFFICES ASSUME Bad # {} PROVE FALSE OBVIOUS
  <2>1. PICK n \in Bad : \A k \in Bad : n <= k
    <3>1. Bad \in SUBSET Nat BY <1>3
    <3> HIDE DEF Bad
    <3> QED BY <3>1, LeastNat
  <2>2. n # 0 BY <1>1, <1>2, <2>1
  <2>3. n \in 1..L /\ n - 1 \in 0..L /\ n - 1 \notin Bad BY <1>3, <2>1, <2>2
  <2>4. Good(n - 1) BY <2>3
  <2>5. Good(n) BY <1>1, <1>2, <1>3, <2>3, <2>4
  <2> QED BY <2>1, <2>5
<1>5. Good(L) BY <1>3, <1>4
<1> QED BY <1>1, <1>2, <1>5

\* A job more needs its own time more.
LEMMA SlotTimeAdds ==
    ASSUME NEW S, NEW m \in Maint, m \notin S
    PROVE  /\ SlotTime(S \cup {m}) = SlotTime(S) + Longest[m] + 1
           /\ SlotTime(S) \in Nat /\ Longest[m] \in Nat
<1> DEFINE L == Len(MaintSeq)
           T == S \cup {m}
           Cost(R, i) == IF MaintSeq[i] \in R THEN Longest[MaintSeq[i]] + 1 ELSE 0
<1>1. PICK f : /\ SlotTime(S) = f[L] /\ f[0] = 0
               /\ \A i \in 1..L : f[i] = f[i - 1] + Cost(S, i)
  BY SlotTimeIs
<1>2. PICK g : /\ SlotTime(T) = g[L] /\ g[0] = 0
               /\ \A i \in 1..L : g[i] = g[i - 1] + Cost(T, i)
  BY SlotTimeIs
<1>3. PICK p \in 1..L : MaintSeq[p] = m /\ \A k \in 1..L : MaintSeq[k] = m => k = p BY MaintIs
<1>4. /\ L \in Nat /\ Longest[m] \in Nat
      /\ \A i \in 1..L : /\ Cost(S, i) \in Nat
                         /\ Cost(T, i) = Cost(S, i) + IF i = p THEN Longest[m] + 1 ELSE 0
  <2>1. L \in Nat /\ Longest[m] \in Nat BY MaintIs
  <2>2. ASSUME NEW i \in 1..L
        PROVE  /\ Cost(S, i) \in Nat
               /\ Cost(T, i) = Cost(S, i) + IF i = p THEN Longest[m] + 1 ELSE 0
    <3>1. Longest[MaintSeq[i]] \in Nat BY MaintIs
    <3>2. CASE i = p BY <1>3, <2>1, <3>2
    <3>3. CASE i # p BY <1>3, <3>1, <3>3
    <3> QED BY <3>2, <3>3
  <2> QED BY <2>1, <2>2
<1> HIDE DEF L, Cost, T
<1> DEFINE Good(n) == f[n] \in Nat /\ g[n] = f[n] + IF p <= n THEN Longest[m] + 1 ELSE 0
           Bad == {n \in 0..L : ~Good(n)}
<1>5. Bad = {}
  <2> SUFFICES ASSUME Bad # {} PROVE FALSE OBVIOUS
  <2>1. PICK n \in Bad : \A k \in Bad : n <= k
    <3>1. Bad \in SUBSET Nat BY <1>4
    <3> HIDE DEF Bad
    <3> QED BY <3>1, LeastNat
  <2>2. n # 0 BY <1>1, <1>2, <1>3, <2>1
  <2>3. n \in 1..L /\ n - 1 \in 0..L /\ n - 1 \notin Bad BY <1>4, <2>1, <2>2
  <2>4. Good(n - 1) BY <2>3
  <2>5. Good(n)
    <3>1. f[n] = f[n - 1] + Cost(S, n) /\ g[n] = g[n - 1] + Cost(T, n) BY <1>1, <1>2, <2>3
    <3> QED BY <1>3, <1>4, <2>3, <2>4, <3>1
  <2> QED BY <2>1, <2>5
<1>6. Good(L) BY <1>4, <1>5
<1> QED BY <1>1, <1>2, <1>3, <1>4, <1>6 DEF T


\* What stands between a job that is due and the slot: the jobs that have been due for as
\* long, and what is left of the run that holds the slot.
Others(m) == SlotTime((Maint \cap mode.enabled) \ {m})
Ahead(m) == {k \in Maint \cap mode.enabled : k # m /\ ~Active(k) /\ left[k] <= left[m]}
SlotLeft == IF slot = None THEN 0 ELSE Longest[slot] + 1 - execution[slot].started
Waits(m) == m \in mode.enabled /\ ~Active(m) /\ left[m] <= 0

\* It has waited, and waits still, for one run of each of the others at most; and once a
\* bounded runner has launched all it may, for the lanes in flight.
Served(m) == SlotTime(Ahead(m)) + SlotLeft - left[m] <= Others(m)
HeldUp(m) ==
    /\ slot = None /\ AtLimit(launched)
    /\ \E l \in Lanes \cap mode.enabled : -left[m] <= Others(m) + Longest[l] + 1
    /\ \A l \in Lanes : Active(l) => -left[m] <= Others(m) + execution[l].started

\* The age of a row and the time to the next run add up to the interval; the slot is free
\* during a sleep only if nothing is due or nothing may be launched.
Queued ==
    /\ \A m \in Maint : /\ left[m] >= -Cap
                        /\ rows[m] # NoRow => /\ m \in mode.enabled
                                              /\ ~Active(m) => rows[m].age + left[m] <= Interval[m]
                        /\ Waits(m) => Cap <= Others(m) \/ Served(m) \/ HeldUp(m)
    /\ pc \in {"dispatch", "dispatchMaint", "asleep"} => ~AtLimit(count)
    /\ pc = "asleep" /\ slot = None /\ MaintDue # {} => AtLimit(launched)
QueueInv == Well /\ InLoop => Queued

\* The run in the slot ends in time.
LEMMA SlotLeftIs ==
    ASSUME LaunchInv, HangInv, WellNow, InLoop
    PROVE  /\ SlotLeft \in Nat /\ (slot = None => SlotLeft = 0)
           /\ slot # None => /\ slot \in Maint /\ slot \in mode.enabled /\ Active(slot)
                             /\ execution[slot].started \in Nat /\ Longest[slot] \in Nat
                             /\ SlotLeft = Longest[slot] + 1 - execution[slot].started
                             /\ execution[slot].ended \in Nat
                             /\ execution[slot].started <= Longest[slot] + execution[slot].ended
<1>1. CASE slot = None BY <1>1 DEF SlotLeft
<1>2. CASE slot # None
  <2>1. slot \in Maint /\ Active(slot)
    BY <1>2 DEF LaunchInv, TypeOK, OneRunPerJob
  <2>2. slot \in Jobs /\ Longest[slot] \in Nat BY <2>1, MaintIs
  <2>3. slot \in mode.enabled BY <2>1, <2>2 DEF HangInv
  <2>4. execution[slot].started \in Nat /\ execution[slot].ended \in Nat
    <3>1. execution[slot].started \in Age /\ execution[slot].ended \in Age
      BY <2>2 DEF LaunchInv, TypeOK
    <3> QED BY <3>1, AgeIs
  <2>5. /\ execution[slot].started <= Longest[slot] + execution[slot].ended
        /\ execution[slot].ended <= 1
    BY <2>1, <2>2, <2>4 DEF WellNow, InTime, ReapedBy
  <2>6. SlotLeft = Longest[slot] + 1 - execution[slot].started BY <1>2 DEF SlotLeft
  <2>7. SlotLeft \in Nat BY <2>2, <2>4, <2>5, <2>6
  <2> QED BY <1>2, <2>1, <2>2, <2>3, <2>4, <2>5, <2>6, <2>7
<1> QED BY <1>1, <1>2

\* What is ahead of a job is some of the others.
LEMMA QueueIsShort ==
    ASSUME LaunchInv, HangInv, WellNow, InLoop, NEW m \in Maint, m \in mode.enabled, ~Active(m)
    PROVE  /\ SlotTime(Ahead(m)) \in Nat /\ Others(m) \in Nat
           /\ SlotTime(Ahead(m)) + SlotLeft <= Others(m)
           /\ slot # None => Longest[slot] + 1 <= Others(m)
<1> DEFINE A == Ahead(m)
           R == (Maint \cap mode.enabled) \ {m}
<1>1. A \subseteq R BY DEF Ahead
<1>2. SlotTime(A) \in Nat /\ SlotTime(R) \in Nat /\ SlotTime(A) <= SlotTime(R)
  BY <1>1, SlotTimeGrows
<1>3. Others(m) = SlotTime(R) BY DEF Others
<1>4. CASE slot = None
  <2>1. SlotLeft = 0 BY <1>4, SlotLeftIs
  <2> HIDE DEF A, R
  <2> QED BY <1>2, <1>3, <1>4, <2>1 DEF A
<1>5. CASE slot # None
  <2>1. /\ slot \in Maint /\ slot \in mode.enabled /\ Active(slot)
        /\ execution[slot].started \in Nat /\ Longest[slot] \in Nat
        /\ SlotLeft = Longest[slot] + 1 - execution[slot].started
    BY <1>5, SlotLeftIs
  <2>2. slot \notin A /\ slot # m BY <2>1 DEF Ahead
  <2>3. A \cup {slot} \subseteq R BY <1>1, <2>1, <2>2
  <2>4. SlotTime(A \cup {slot}) = SlotTime(A) + Longest[slot] + 1 BY <2>1, <2>2, SlotTimeAdds
  <2>5. SlotTime(A \cup {slot}) <= SlotTime(R) BY <2>3, SlotTimeGrows
  <2> HIDE DEF A, R
  <2>6. SlotTime(A) + SlotLeft <= SlotTime(R) /\ Longest[slot] + 1 <= SlotTime(R)
    BY <1>2, <2>1, <2>4, <2>5
  <2> QED BY <1>2, <1>3, <2>6 DEF A
<1> QED BY <1>4, <1>5

\* A job that falls due now finds less than all the others before it.
LEMMA ServedAtFirst ==
    LaunchInv /\ HangInv /\ WellNow /\ InLoop
        => \A k \in Maint : k \in mode.enabled /\ ~Active(k) /\ left[k] = 0 => Served(k)
<1> SUFFICES ASSUME LaunchInv, HangInv, WellNow, InLoop, NEW m \in Maint, m \in mode.enabled,
                    ~Active(m), left[m] = 0
             PROVE  Served(m)
  OBVIOUS
<1>1. /\ SlotTime(Ahead(m)) \in Nat /\ Others(m) \in Nat
      /\ SlotTime(Ahead(m)) + SlotLeft <= Others(m)
  BY QueueIsShort
<1>2. SlotLeft \in Nat BY SlotLeftIs
<1> QED BY <1>1, <1>2 DEF Served

\* Steps that leave the maintenance jobs and the slot alone.
LEMMA QueuedKept ==
    ASSUME Queued, UNCHANGED <<mode, slot>>,
           \A m \in Maint : /\ UNCHANGED <<left[m], rows[m], execution[m].started>>
                            /\ Active(m)' <=> Active(m),
           slot \in Maint \cup {None},
           \/ ~AtLimit(launched)
           \/ /\ launched' = launched
              /\ \A l \in Lanes : Active(l)' => Active(l) /\ execution'[l].started = execution[l].started,
           pc' \in {"dispatch", "dispatchMaint", "asleep"} => ~AtLimit(count'),
           pc' = "asleep" /\ slot = None /\ MaintDue # {} => AtLimit(launched) /\ launched' = launched
    PROVE  Queued'
<1>1. ASSUME NEW m \in Maint
      PROVE  /\ Ahead(m)' = Ahead(m) /\ Others(m)' = Others(m) /\ (Waits(m)' <=> Waits(m))
             /\ Due(m)' <=> Due(m)
  <2>1. Ahead(m)' = Ahead(m)
    <3>1. \A k \in Maint : Active(k)' <=> Active(k) OBVIOUS
    <3>2. \A k \in Maint : left'[k] = left[k] OBVIOUS
    <3>3. \A k \in Maint \cap mode.enabled :
            (k # m /\ ~Active(k)' /\ left'[k] <= left'[m]) <=> (k # m /\ ~Active(k) /\ left[k] <= left[m])
      BY <3>1, <3>2
    <3>4. Ahead(m)' = {k \in Maint \cap mode.enabled : k # m /\ ~Active(k)' /\ left'[k] <= left'[m]}
      BY DEF Ahead
    <3> QED BY <3>3, <3>4 DEF Ahead
  <2> QED BY <2>1 DEF Others, Waits, Due
<1>2. SlotLeft' = SlotLeft BY DEF SlotLeft
<1>3. MaintDue' = MaintDue BY <1>1 DEF MaintDue
<1>4. ASSUME NEW m \in Maint, Waits(m)'
      PROVE  Cap <= Others(m)' \/ Served(m)' \/ HeldUp(m)'
  <2>1. Cap <= Others(m) \/ Served(m) \/ HeldUp(m) BY <1>1, <1>4 DEF Queued
  <2>2. CASE Cap <= Others(m) BY <1>1, <2>2
  <2>3. CASE Served(m) BY <1>1, <1>2, <2>3 DEF Served
  <2>4. CASE HeldUp(m)
    <3>1. launched' = launched
          /\ \A l \in Lanes : Active(l)' => Active(l) /\ execution'[l].started = execution[l].started
      BY <2>4 DEF HeldUp
    <3>2. AtLimit(launched)' BY <2>4, <3>1 DEF HeldUp, AtLimit, Limited
    <3> QED BY <1>1, <2>4, <3>1, <3>2 DEF HeldUp
  <2> QED BY <2>1, <2>2, <2>3, <2>4
<1>5. ASSUME NEW m \in Maint
      PROVE  /\ left'[m] >= -Cap
             /\ rows'[m] # NoRow => /\ m \in mode'.enabled
                                    /\ ~Active(m)' => rows'[m].age + left'[m] <= Interval[m]
  BY DEF Queued
<1>6. /\ pc' \in {"dispatch", "dispatchMaint", "asleep"} => ~AtLimit(count)'
      /\ pc' = "asleep" /\ slot' = None /\ MaintDue' # {} => AtLimit(launched)'
  BY <1>3 DEF AtLimit, Limited
<1> QED BY <1>4, <1>5, <1>6 DEF Queued

LEMMA InitQueued == Init /\ LaunchInv /\ HangInv /\ WellInv => QueueInv
<1> SUFFICES ASSUME Init, LaunchInv, HangInv, WellInv PROVE Queued
  BY DEF QueueInv
<1>1. InLoop /\ WellNow BY DEF Init, InLoop, WellInv, Well
<1>2. \A m \in Maint : /\ left[m] = 0 /\ rows[m] = NoRow /\ ~Active(m)
  BY IdleTyped DEF Init, AllDue, AllIdle, Active, Jobs
<1>3. Cap \in Nat BY AgeIs
<1>4. \A m \in Maint : Waits(m) => Served(m) BY <1>1, <1>2, ServedAtFirst DEF Waits
<1>5. pc = "tick" BY DEF Init
<1> QED BY <1>2, <1>3, <1>4, <1>5 DEF Queued


\* The job in the slot is reaped: its next run is due later than all that wait.
LEMMA ReapQueued ==
    ASSUME LaunchInv, LaunchInv', HangInv, WellNow, Queued, Well', WaitIsExplained,
           ReapMaintenance, slot # None, Done(slot)
    PROVE  Queued'
<1>t. TypeOK /\ InLoop /\ pc = "reapMaint" BY DEF LaunchInv, ReapMaintenance, InLoop
<1>s. /\ slot \in Maint /\ slot \in mode.enabled /\ slot \in Jobs /\ Active(slot)
      /\ execution[slot].ended \in Nat /\ execution[slot].ended <= 1
      /\ Interval[slot] \in Nat /\ Interval[slot] >= 2
  <2>1. /\ slot \in Maint /\ slot \in mode.enabled /\ Active(slot) /\ execution[slot].ended \in Nat
    BY <1>t, SlotLeftIs
  <2>2. slot \in Jobs /\ Interval[slot] \in Nat BY <2>1, MaintIs
  <2>3. execution[slot].ended <= 1 BY <1>t, <2>1, <2>2 DEF WellNow, ReapedBy
  <2> QED BY <2>1, <2>2, <2>3 DEF WaitIsExplained
<1>1. /\ Reap(slot) /\ slot' = None /\ UNCHANGED <<mode, launched>>
      /\ pc' = IF pending' # "no" \/ AtLimit(count') THEN "join" ELSE "dispatch"
  BY DEF ReapMaintenance
<1>2. Finalize({slot}, TRUE) BY <1>1, WellWrites, Zenon DEF Reap
<1>p. PICK s : s = slot OBVIOUS
<1>3. /\ \A k \in Jobs : execution'[k] = IF k = s THEN Idle ELSE execution[k]
      /\ \A k \in Jobs : left'[k] = IF k = s THEN Interval[s] - execution[s].ended ELSE left[k]
      /\ rows' = [k \in Jobs |-> IF k \in {s} /\ TRUE
                                 THEN [status |-> execution[k].state, age |-> execution[k].ended]
                                 ELSE rows[k]]
  BY <1>2, <1>p DEF Finalize
<1>4. /\ left'[s] \in Int /\ left'[s] >= 1 /\ ~Active(s)'
      /\ rows'[s].age + left'[s] <= Interval[s]
  <2>1. left'[s] = Interval[s] - execution[s].ended BY <1>s, <1>p, <1>3
  <2>2. rows'[s].age = execution[s].ended BY <1>s, <1>p, <1>3
  <2>3. execution'[s].state = "idle" BY <1>s, <1>p, <1>3, IdleTyped
  <2> QED BY <1>s, <1>p, <2>1, <2>2, <2>3 DEF Active
<1>5. \A m \in Maint \ {s} : /\ left'[m] = left[m] /\ rows'[m] = rows[m]
                                /\ (Active(m)' <=> Active(m)) /\ left[m] \in Int
  <2> SUFFICES ASSUME NEW m \in Maint \ {s}
               PROVE  /\ left'[m] = left[m] /\ rows'[m] = rows[m]
                      /\ (Active(m)' <=> Active(m)) /\ left[m] \in Int
    OBVIOUS
  <2>1. m \in Jobs BY MaintIs
  <2> QED BY <1>t, <1>3, <2>1 DEF TypeOK, Active
<1>6. ASSUME NEW m \in Maint, Waits(m)'
      PROVE  Cap <= Others(m)' \/ Served(m)'
  <2>1. m # s BY <1>4, <1>6 DEF Waits
  <2>2. Waits(m) /\ left[m] <= 0 BY <1>1, <1>5, <1>6, <2>1 DEF Waits
  <2>3. Others(m)' = Others(m) BY <1>1 DEF Others
  <2>4. Ahead(m)' \subseteq Ahead(m)
    <3>1. \A k \in Maint \cap mode.enabled : (k # m /\ ~Active(k)' /\ left'[k] <= left'[m])
              => (k # m /\ ~Active(k) /\ left[k] <= left[m])
      <4> SUFFICES ASSUME NEW k \in Maint, ~Active(k)', left'[k] <= left'[m]
                   PROVE  ~Active(k) /\ left[k] <= left[m]
        OBVIOUS
      <4>1. k # s BY <1>4, <1>5, <2>1, <2>2
      <4> QED BY <1>5, <2>1, <4>1
    <3>2. Ahead(m)' = {k \in Maint \cap mode.enabled : k # m /\ ~Active(k)' /\ left'[k] <= left'[m]}
      BY <1>1 DEF Ahead
    <3> QED BY <3>1, <3>2 DEF Ahead
  <2>5. SlotTime(Ahead(m)') \in Nat /\ SlotTime(Ahead(m)') <= SlotTime(Ahead(m)) /\ SlotTime(Ahead(m)) \in Nat
    BY <2>4, SlotTimeGrows
  <2>6. Cap <= Others(m) \/ Served(m) BY <2>2 DEF Queued, HeldUp
  <2>7. ASSUME Served(m) PROVE Served(m)'
    <3>1. SlotLeft \in Nat /\ SlotLeft' = 0 BY <1>t, <1>1, SlotLeftIs DEF SlotLeft
    <3>2. Others(m) \in Nat /\ left[m] \in Int /\ left'[m] = left[m]
      BY <1>5, <2>1, SlotTimeGrows DEF Others
    <3>3. SlotTime(Ahead(m)) + SlotLeft - left[m] <= Others(m) BY <2>7 DEF Served
    <3>4. SlotTime(Ahead(m)') + SlotLeft' - left'[m] <= Others(m) BY <2>5, <3>1, <3>2, <3>3
    <3> QED BY <2>3, <3>4 DEF Served
  <2> QED BY <2>3, <2>6, <2>7
<1>7. ASSUME NEW m \in Maint
      PROVE  /\ left'[m] >= -Cap
             /\ rows'[m] # NoRow => /\ m \in mode'.enabled
                                    /\ ~Active(m)' => rows'[m].age + left'[m] <= Interval[m]
  <2>1. CASE m = s
    <3>1. left'[m] >= -Cap BY <1>4, <2>1, AgeIs
    <3> QED BY <1>s, <1>p, <1>1, <1>4, <2>1, <3>1
  <2>2. CASE m # s BY <1>1, <1>5, <2>2 DEF Queued
  <2> QED BY <2>1, <2>2
<1>8. pc' \in {"dispatch", "dispatchMaint", "asleep"} => pc' = "dispatch" /\ ~AtLimit(count)'
  BY <1>1 DEF AtLimit, Limited
<1> QED BY <1>6, <1>7, <1>8 DEF Queued

\* The job that is due for longest gets the slot: it was ahead of every other.
LEMMA DispatchQueued ==
    ASSUME LaunchInv, LaunchInv', HangInv, WellNow, Queued, DispatchMaintenance,
           slot = None, MaintDue # {}, ~AtLimit(count + InFlight)
    PROVE  Queued'
<1>t. TypeOK /\ InLoop /\ pc = "dispatchMaint" BY DEF LaunchInv, DispatchMaintenance, InLoop
<1>p. PICK job : job = Oldest(MaintDue) OBVIOUS
<1>1. job \in MaintDue /\ \A k \in MaintDue : left[job] <= left[k]
  BY <1>t, <1>p, OldestIsDue DEF MaintDue
<1>2. /\ slot' = job /\ Launch({job}) /\ pc' = "tick" /\ UNCHANGED <<mode, left, rows>>
  BY <1>p DEF DispatchMaintenance
<1>3. /\ job \in Maint /\ job \in Jobs /\ job \in mode.enabled /\ ~Active(job) /\ job # None
      /\ Longest[job] \in Nat
  BY <1>1, MaintIs, JobsAre DEF MaintDue, Due
<1>4. \A k \in Jobs : execution'[k] = IF k = job THEN Running ELSE execution[k]
  BY <1>2, <1>3, <1>t, LaunchIs
<1>5. SlotLeft' = Longest[job] + 1 - 0
  BY <1>2, <1>3, <1>4 DEF SlotLeft, Running, Idle
<1>6. Active(job)' /\ \A k \in Jobs \ {job} : Active(k)' <=> Active(k)
  BY <1>3, <1>4, IdleTyped DEF Active
<1>7. ASSUME NEW m \in Maint, Waits(m)'
      PROVE  Cap <= Others(m)' \/ Served(m)'
  <2>1. m # job /\ m \in Jobs BY <1>6, <1>7, MaintIs DEF Waits
  <2>2. Waits(m) /\ m \in mode.enabled /\ ~Active(m) BY <1>2, <1>6, <1>7, <2>1 DEF Waits
  <2>3. Others(m)' = Others(m) BY <1>2 DEF Others
  <2>4. m \in MaintDue BY <2>2 DEF Waits, MaintDue, Due
  <2>5. job \in Ahead(m) BY <1>1, <1>3, <2>1, <2>4 DEF Ahead
  <2>6. Ahead(m)' = Ahead(m) \ {job}
    <3>1. \A k \in Maint \cap mode.enabled : (k # m /\ ~Active(k)' /\ left[k] <= left[m])
              <=> (k # m /\ ~Active(k) /\ left[k] <= left[m] /\ k # job)
      BY <1>6, MaintIs
    <3>2. Ahead(m)' = {k \in Maint \cap mode.enabled : k # m /\ ~Active(k)' /\ left[k] <= left[m]}
      BY <1>2 DEF Ahead
    <3> QED BY <3>1, <3>2 DEF Ahead
  <2>7. /\ SlotTime(Ahead(m)) = SlotTime(Ahead(m)') + Longest[job] + 1
        /\ SlotTime(Ahead(m)') \in Nat
    <3>1. Ahead(m) = Ahead(m)' \cup {job} /\ job \notin Ahead(m)' BY <2>5, <2>6
    <3> QED BY <1>3, <3>1, SlotTimeAdds
  <2>8. /\ SlotTime(Ahead(m)) \in Nat /\ Others(m) \in Nat
        /\ SlotLeft = 0 /\ left[m] \in Int /\ left'[m] = left[m]
    BY <1>t, <1>2, <2>1, <2>2, QueueIsShort, SlotLeftIs DEF TypeOK
  <2>9. Cap <= Others(m) \/ Served(m)
    <3>1. ~HeldUp(m)
      <4>1. Limited => launched = count + InFlight BY <1>t DEF LaunchInv, CountInv
      <4> QED BY <4>1 DEF HeldUp, AtLimit
    <3> QED BY <2>2, <3>1 DEF Queued
  <2>10. ASSUME Served(m) PROVE Served(m)'
    <3>1. SlotTime(Ahead(m)) + SlotLeft - left[m] <= Others(m) BY <2>10 DEF Served
    <3>2. SlotTime(Ahead(m)') + SlotLeft' - left'[m] <= Others(m)
      BY <1>3, <1>5, <2>7, <2>8, <3>1
    <3> QED BY <2>3, <3>2 DEF Served
  <2> QED BY <2>3, <2>9, <2>10
<1>8. ASSUME NEW m \in Maint
      PROVE  /\ left'[m] >= -Cap
             /\ rows'[m] # NoRow => /\ m \in mode'.enabled
                                    /\ ~Active(m)' => rows'[m].age + left'[m] <= Interval[m]
  BY <1>2, <1>3, <1>6, MaintIs DEF Queued
<1> QED BY <1>2, <1>7, <1>8 DEF Queued

\* A sleep: what waits has waited one longer, and the run in the slot is one nearer to its end.
LEMMA ClockQueued ==
    ASSUME LaunchInv, LaunchInv', HangInv, HangInv', WellNow, WellNow', Queued, Clock, pc = "asleep"
    PROVE  Queued'
<1>t. /\ TypeOK /\ TypeOK' /\ InLoop /\ InLoop' /\ pc' = "tick"
      /\ UNCHANGED <<mode, slot, count, launched, futures>>
  BY DEF LaunchInv, Clock, InLoop
<1>c. Cap \in Nat BY AgeIs
<1>1. \A j \in Jobs : /\ Active(j)' <=> Active(j)
                      /\ execution'[j].started = IF Active(j) THEN Older(execution[j].started) ELSE 0
                      /\ execution[j].started \in Age /\ execution[j].ended \in Age
                      /\ execution[j].ended = 0
  <2> SUFFICES ASSUME NEW j \in Jobs
               PROVE  /\ Active(j)' <=> Active(j)
                      /\ execution'[j].started = IF Active(j) THEN Older(execution[j].started) ELSE 0
                      /\ execution[j].started \in Age /\ execution[j].ended \in Age
                      /\ execution[j].ended = 0
    OBVIOUS
  <2>1. /\ execution'[j].state = execution[j].state
        /\ execution'[j].started = IF Active(j) THEN Older(execution[j].started) ELSE 0
        /\ execution[j].started \in Age /\ execution[j].ended \in Age
    BY <1>t, ClockIs
  <2>2. execution[j].ended \in Nat BY <2>1, AgeIs
  <2>3. execution[j].ended = 0 BY <1>t, <2>2 DEF WellNow, ReapedBy
  <2> QED BY <2>1, <2>3 DEF Active
<1>2. \A m \in Maint : /\ left[m] \in Int /\ left[m] >= -Cap
                       /\ left'[m] = IF Active(m) \/ m \notin mode.enabled THEN left[m]
                                     ELSE IF left[m] - 1 >= -Cap THEN left[m] - 1 ELSE -Cap
  <2> SUFFICES ASSUME NEW m \in Maint
               PROVE  /\ left[m] \in Int /\ left[m] >= -Cap
                      /\ left'[m] = IF Active(m) \/ m \notin mode.enabled THEN left[m]
                                    ELSE IF left[m] - 1 >= -Cap THEN left[m] - 1 ELSE -Cap
    OBVIOUS
  <2>1. m \in Jobs BY MaintIs
  <2>2. left[m] \in Int BY <1>t, <2>1 DEF TypeOK
  <2>3. left[m] - 1 \in Int /\ -Cap \in Int BY <1>c, <2>2
  <2>4. left'[m] = IF Active(m) \/ m \notin mode.enabled THEN left[m] ELSE Max({left[m] - 1, -Cap})
    BY <2>1 DEF Clock
  <2> QED BY <2>2, <2>3, <2>4, MaxTwo DEF Queued
<1>3. ASSUME NEW m \in Maint
      PROVE  /\ left'[m] >= -Cap
             /\ rows'[m] # NoRow => /\ m \in mode'.enabled
                                    /\ ~Active(m)' => rows'[m].age + left'[m] <= Interval[m]
  <2>1. m \in Jobs /\ Interval[m] \in Nat BY MaintIs
  <2>2. left'[m] >= -Cap BY <1>c, <1>2
  <2>3. ASSUME rows'[m] # NoRow PROVE m \in mode'.enabled /\ (~Active(m)' => rows'[m].age + left'[m] <= Interval[m])
    <3>1. rows'[m] = IF rows[m] = NoRow THEN NoRow ELSE [rows[m] EXCEPT !.age = Older(@)]
      BY <2>1 DEF Clock
    <3>2. rows[m] # NoRow /\ rows[m].age \in Age /\ rows'[m].age = Older(rows[m].age)
      BY <1>t, <2>1, <2>3, <3>1 DEF TypeOK
    <3>3. m \in mode.enabled /\ (~Active(m) => rows[m].age + left[m] <= Interval[m])
      BY <3>2 DEF Queued
    <3>4. /\ Older(rows[m].age) = (IF rows[m].age + 1 <= Cap THEN rows[m].age + 1 ELSE Cap)
          /\ rows[m].age \in Nat
      BY <3>2, OlderOrders, AgeIs
    <3>5. ~Active(m) => Older(rows[m].age) + left'[m] <= Interval[m]
      BY <1>c, <1>2, <2>1, <3>3, <3>4
    <3> QED BY <1>t, <1>1, <2>1, <3>2, <3>3, <3>5
  <2> QED BY <2>2, <2>3
<1>4. ASSUME NEW m \in Maint, Waits(m)', ~(Cap <= Others(m)')
      PROVE  Served(m)' \/ HeldUp(m)'
  <2>1. m \in Jobs /\ m \in mode.enabled /\ ~Active(m) /\ left'[m] <= 0
    BY <1>t, <1>1, <1>4, MaintIs DEF Waits
  <2>2. Others(m)' = Others(m) /\ Others(m) \in Nat /\ Others(m) < Cap /\ left[m] \in Int
    <3>1. Others(m)' = Others(m) BY <1>t DEF Others
    <3>2. Others(m) \in Nat BY SlotTimeGrows DEF Others
    <3> QED BY <1>c, <1>2, <1>4, <3>1, <3>2
  <2>3. CASE left[m] >= 1
    <3>1. left'[m] = 0 BY <1>c, <1>2, <2>1, <2>2, <2>3
    <3>2. /\ m \in mode'.enabled /\ ~Active(m)' BY <1>4 DEF Waits
    <3>3. LaunchInv' /\ HangInv' /\ WellNow' /\ InLoop' BY <1>t
    <3>4. (LaunchInv /\ HangInv /\ WellNow /\ InLoop
              => \A k \in Maint : k \in mode.enabled /\ ~Active(k) /\ left[k] = 0 => Served(k))'
      BY ServedAtFirst, PTL
    <3> QED BY <3>1, <3>2, <3>3, <3>4
  <2>4. CASE left[m] <= 0 /\ slot # None
    <3>1. Served(m)
      <4>1. ~(Cap <= Others(m)) /\ Waits(m) BY <1>4, <2>1, <2>2, <2>4 DEF Waits
      <4>2. ~HeldUp(m) BY <2>4 DEF HeldUp
      <4> QED BY <4>1, <4>2 DEF Queued
    <3>2. /\ SlotTime(Ahead(m)) \in Nat /\ Longest[slot] + 1 <= Others(m)
          /\ SlotTime(Ahead(m)) + SlotLeft - left[m] <= Others(m)
      BY <1>t, <2>1, <2>4, <3>1, QueueIsShort DEF Served
    <3>3. /\ SlotLeft \in Nat /\ slot \in Jobs /\ Active(slot)
          /\ execution[slot].started \in Nat /\ Longest[slot] \in Nat
          /\ SlotLeft = Longest[slot] + 1 - execution[slot].started
          /\ execution[slot].started <= Longest[slot] + execution[slot].ended
      BY <1>t, <2>4, SlotLeftIs, MaintIs
    <3>4. left'[m] = left[m] - 1 BY <1>c, <1>2, <2>1, <2>2, <3>2, <3>3
    <3>5. SlotLeft' = SlotLeft - 1
      <4>1. execution[slot].ended = 0 /\ execution[slot].started \in Age BY <1>1, <3>3
      <4>2. execution[slot].started + 1 <= Cap BY <1>c, <2>2, <3>2, <3>3, <4>1
      <4>3. execution'[slot].started = execution[slot].started + 1 BY <1>1, <3>3, <4>1, <4>2, OlderOrders
      <4>4. SlotLeft' = Longest[slot] + 1 - execution'[slot].started BY <1>t, <2>4 DEF SlotLeft
      <4> QED BY <3>3, <4>3, <4>4
    <3>6. Ahead(m)' \subseteq Ahead(m)
      <4>1. \A k \in Maint \cap mode.enabled : (k # m /\ ~Active(k)' /\ left'[k] <= left'[m])
                => (k # m /\ ~Active(k) /\ left[k] <= left[m])
        <5> SUFFICES ASSUME NEW k \in Maint \cap mode.enabled, ~Active(k)', left'[k] <= left'[m]
                     PROVE  ~Active(k) /\ left[k] <= left[m]
          OBVIOUS
        <5>1. ~Active(k) BY <1>1, MaintIs
        <5>2. /\ left[k] \in Int /\ left[m] - 1 >= -Cap
              /\ left'[k] = IF left[k] - 1 >= -Cap THEN left[k] - 1 ELSE -Cap
          BY <1>c, <1>2, <2>2, <3>2, <3>3, <5>1
        <5> QED BY <1>c, <2>2, <3>4, <5>1, <5>2
      <4>2. Ahead(m)' = {k \in Maint \cap mode.enabled : k # m /\ ~Active(k)' /\ left'[k] <= left'[m]}
        BY <1>t DEF Ahead
      <4> QED BY <4>1, <4>2 DEF Ahead
    <3>7. SlotTime(Ahead(m)') \in Nat /\ SlotTime(Ahead(m)') <= SlotTime(Ahead(m))
      BY <3>6, SlotTimeGrows
    <3>8. SlotTime(Ahead(m)') + SlotLeft' - left'[m] <= Others(m)
      BY <2>2, <3>2, <3>3, <3>4, <3>5, <3>7
    <3> QED BY <2>2, <3>8 DEF Served
  <2>5. CASE left[m] <= 0 /\ slot = None
    <3>1. m \in MaintDue BY <2>1, <2>5 DEF MaintDue, Due
    <3>2. AtLimit(launched) /\ ~AtLimit(count) BY <2>5, <3>1 DEF Queued
    <3>3. PICK l \in Lanes : Active(l) /\ l \in mode.enabled /\ l \in Jobs
      <4>1. /\ launched = count + InFlight /\ mode.limit \in Nat /\ launched \in Nat /\ count \in Nat
        BY <1>t, <3>2, ModeIs DEF LaunchInv, CountInv, AtLimit, TypeOK
      <4>2. InFlight = Len(futures) + 0 BY <2>5, SlotIs DEF InFlight
      <4>3. futures \in Seq(Lanes) /\ Len(futures) \in Nat BY <1>t DEF TypeOK
      <4>4. Len(futures) # 0 BY <3>2, <4>1, <4>2, <4>3 DEF AtLimit
      <4>5. 1 \in DOMAIN futures BY <4>3, <4>4
      <4>6. futures[1] \in ToSet(futures) BY <4>5 DEF ToSet
      <4>7. futures[1] \in Lanes /\ Active(futures[1]) BY <4>6 DEF LaunchInv, OneRunPerJob
      <4>8. futures[1] \in Jobs BY <4>7 DEF Jobs
      <4> QED BY <4>7, <4>8 DEF HangInv
    <3>4. /\ left'[m] \in Int /\ -left'[m] <= Cap /\ -left'[m] <= -left[m] + 1
      BY <1>c, <1>2, <2>1, <2>2
    <3>5. ASSUME NEW k \in Lanes, Active(k)
          PROVE  execution'[k].started \in Nat /\ -left'[m] <= Others(m) + execution'[k].started
      <4>1. k \in Jobs BY DEF Jobs
      <4>2. /\ execution[k].started \in Nat
            /\ execution'[k].started = IF execution[k].started + 1 <= Cap THEN execution[k].started + 1 ELSE Cap
        BY <1>1, <3>5, <4>1, OlderOrders, AgeIs
      <4>3. -left[m] <= Others(m) + execution[k].started
        <5>1. CASE Served(m)
          <6>1. SlotTime(Ahead(m)) \in Nat /\ SlotLeft \in Nat
            BY <1>t, <2>1, QueueIsShort, SlotLeftIs
          <6>2. SlotTime(Ahead(m)) + SlotLeft - left[m] <= Others(m) BY <5>1 DEF Served
          <6> QED BY <2>2, <4>2, <6>1, <6>2
        <5>2. CASE HeldUp(m) BY <3>5, <5>2 DEF HeldUp
        <5>3. Served(m) \/ HeldUp(m)
          <6>1. ~(Cap <= Others(m)) BY <1>4, <2>2
          <6> QED BY <2>1, <2>5, <6>1 DEF Queued, Waits
        <5> QED BY <5>1, <5>2, <5>3
      <4> QED BY <1>c, <2>2, <3>4, <4>2, <4>3
    <3>6. execution'[l].started <= Longest[l] + 1 /\ Longest[l] \in Nat
      <4>1. Longest[l] \in Nat BY <3>3, SchedulerAssumption
      <4>2. execution'[l].ended \in Nat /\ execution'[l].started \in Nat
        BY <1>t, <3>3, AgeIs DEF TypeOK
      <4>3. execution'[l].ended <= 1 BY <1>t, <3>3, <4>2 DEF WellNow, ReapedBy
      <4>4. Active(l)' BY <1>1, <3>3
      <4>5. execution'[l].started <= Longest[l] + execution'[l].ended
        BY <1>t, <3>3, <4>4 DEF WellNow, InTime
      <4> QED BY <4>1, <4>2, <4>3, <4>5
    <3>7. -left'[m] <= Others(m) + Longest[l] + 1
      <4>1. execution'[l].started \in Nat /\ -left'[m] <= Others(m) + execution'[l].started
        BY <3>3, <3>5
      <4> QED BY <2>2, <3>4, <3>6, <4>1
    <3>8. \A k \in Lanes : Active(k)' => -left'[m] <= Others(m) + execution'[k].started
      BY <1>1, <3>5 DEF Jobs
    <3>9. slot' = None /\ AtLimit(launched)' BY <1>t, <2>5, <3>2 DEF AtLimit, Limited
    <3> QED BY <1>t, <2>2, <3>3, <3>7, <3>8, <3>9 DEF HeldUp
  <2> QED BY <2>2, <2>3, <2>4, <2>5
<1> QED BY <1>t, <1>3, <1>4 DEF Queued


LEMMA StepQueued ==
    ASSUME LaunchInv, LaunchInv', SilenceInv, SilenceInv', HangInv, HangInv', WellInv, WellInv', QueueInv,
           WaitIsExplained, [Next]_vars
    PROVE  QueueInv'
<1> SUFFICES ASSUME Well', InLoop' PROVE Queued'
  BY DEF QueueInv
<1>t. TypeOK /\ TypeOK' BY DEF LaunchInv
<1>w. /\ ~Fails /\ ~Trouble("error") /\ ~Trouble("hang") /\ ~Trouble("kill")
      /\ \A p : Emit(p) => file' = p
  BY WellWrites
<1>d. Well /\ WellNow /\ WellNow' /\ pc # "dead"
  <2>1. Well BY TroublesStay DEF Well
  <2>2. "kill" \notin troubles BY <2>1 DEF Well
  <2> QED BY <2>1, <2>2 DEF WellInv
<1>m. \A m \in Maint : m \in Jobs /\ m \notin Lanes BY JobsAre, MaintIs
<1>l. slot \in Maint \cup {None} BY <1>t DEF TypeOK
\* A step that changes nothing that the queue is made of.
<1>a. ASSUME Queued, UNCHANGED <<mode, slot, left, rows, launched, count>>,
             \A j \in Jobs : (Active(j)' <=> Active(j)) /\ execution'[j].started = execution[j].started,
             pc' \in {"dispatch", "dispatchMaint", "asleep"} => pc' = pc \/ ~AtLimit(count'),
             pc' = "asleep" => pc' = pc
      PROVE  Queued'
  <2>1. \A m \in Maint : /\ UNCHANGED <<left[m], rows[m], execution[m].started>>
                         /\ Active(m)' <=> Active(m)
    BY <1>a, <1>m
  <2>2. \A l \in Lanes : Active(l)' => Active(l) /\ execution'[l].started = execution[l].started
    BY <1>a DEF Jobs
  <2>3. pc' \in {"dispatch", "dispatchMaint", "asleep"} => ~AtLimit(count') BY <1>a DEF Queued
  <2>4. pc' = "asleep" /\ slot = None /\ MaintDue # {} => AtLimit(launched) BY <1>a DEF Queued
  <2> QED BY <1>a, <1>l, <2>1, <2>2, <2>3, <2>4, QueuedKept
<1>1. CASE TickLoop \/ LanesReaped
  <2>1. /\ UNCHANGED <<mode, slot, left, rows, launched, count, execution>> /\ InLoop
        /\ pc' \in {"join", "reap", "reapMaint"}
    BY <1>1 DEF TickLoop, LanesReaped, InLoop
  <2>2. Queued BY <1>d, <2>1 DEF QueueInv
  <2> QED BY <1>a, <2>1, <2>2 DEF Active
<1>2. CASE ReapLane
  <2> DEFINE h == Head(batch)
  <2>1. /\ pc = "reap" /\ batch # <<>> /\ Reap(h) /\ UNCHANGED <<mode, pc, slot, launched>> /\ InLoop
    BY <1>2 DEF ReapLane, InLoop
  <2>2. Queued BY <1>d, <2>1 DEF QueueInv
  <2>3. h \in Lanes
    <3>1. batch \in Seq(Lanes) BY <1>t DEF TypeOK
    <3> QED BY <2>1, <3>1, TailMembers
  <2> HIDE DEF h
  <2>4. PICK k \in Lanes : k = h BY <2>3
  <2>5. Finalize({k}, TRUE) BY <1>w, <2>1, <2>4, Zenon DEF Reap
  <2>6. \A j \in Jobs \ {k} : UNCHANGED <<left[j], rows[j], execution[j]>>
    BY <1>t, <2>5 DEF Finalize, TypeOK
  <2>7. execution'[k] = Idle BY <2>5 DEF Finalize, Jobs
  <2>8. \A m \in Maint : /\ UNCHANGED <<left[m], rows[m], execution[m].started>>
                         /\ Active(m)' <=> Active(m)
    BY <1>m, <2>6 DEF Active
  <2>9. \A l \in Lanes : Active(l)' => Active(l) /\ execution'[l].started = execution[l].started
    <3> SUFFICES ASSUME NEW l \in Lanes, Active(l)'
                 PROVE  Active(l) /\ execution'[l].started = execution[l].started
      OBVIOUS
    <3>1. l # k BY <2>7, IdleTyped DEF Active
    <3> QED BY <2>6, <3>1 DEF Active, Jobs
  <2> QED BY <1>l, <2>1, <2>2, <2>8, <2>9, QueuedKept
<1>3. CASE ReapMaintenance
  <2>1. pc = "reapMaint" /\ InLoop BY <1>3 DEF ReapMaintenance, InLoop
  <2>2. Queued BY <1>d, <2>1 DEF QueueInv
  <2>3. CASE slot # None /\ Done(slot) BY <1>3, <1>d, <2>2, <2>3, ReapQueued
  <2>4. CASE ~(slot # None /\ Done(slot))
    <3>1. UNCHANGED <<mode, slot, execution, left, rows, count, launched>>
      BY <1>3, <2>4 DEF ReapMaintenance
    <3>2. pc' = IF pending' # "no" \/ AtLimit(count') THEN "join" ELSE "dispatch"
      BY <1>3 DEF ReapMaintenance
    <3> QED BY <1>a, <2>2, <3>1, <3>2 DEF Active
  <2> QED BY <2>3, <2>4
<1>4. CASE DispatchLanes
  <2>1. /\ pc = "dispatch" /\ pc' = "dispatchMaint" /\ UNCHANGED <<mode, slot, left, rows, count>> /\ InLoop
    BY <1>4 DEF DispatchLanes, InLoop
  <2>2. Queued BY <1>d, <2>1 DEF QueueInv
  <2>3. ~AtLimit(count') BY <2>1, <2>2 DEF Queued
  <2>4. CASE LanesToStart = <<>>
    <3>1. UNCHANGED <<execution, launched>> BY <1>4, <2>4 DEF DispatchLanes
    <3> QED BY <1>a, <2>1, <2>2, <2>3, <3>1 DEF Active
  <2>5. CASE LanesToStart # <<>>
    <3>1. PICK S : S = ToSet(LanesToStart) OBVIOUS
    <3>2. S \subseteq Lanes BY <3>1, StartsAre
    <3>3. S \in SUBSET Jobs BY <3>2 DEF Jobs
    <3>4. Launch(S) BY <1>4, <2>5, <3>1 DEF DispatchLanes
    <3>5. /\ launched' = IF Limited THEN launched + Cardinality(S) ELSE launched
          /\ \A j \in Jobs : execution'[j] = IF j \in S THEN Running ELSE execution[j]
      BY <1>t, <3>3, <3>4, LaunchIs
    <3>6. \A m \in Maint : /\ UNCHANGED <<left[m], rows[m], execution[m].started>>
                           /\ Active(m)' <=> Active(m)
      BY <1>m, <2>1, <3>2, <3>5 DEF Active
    <3>7. ~AtLimit(launched)
      <4> SUFFICES ASSUME Limited PROVE ~(launched >= mode.limit)
        BY DEF AtLimit
      <4>1. LanesToStart \in Seq(Lanes) /\ Len(LanesToStart) # 0
        BY <2>5, StartsAre, EmptySeq
      <4>2. count + InFlight + Len(LanesToStart) <= mode.limit BY <2>5, StartsAre
      <4>3. launched = count + InFlight BY <1>d DEF LaunchInv, CountInv
      <4>4. launched \in Nat /\ mode.limit \in Nat BY <1>t, ModeIs DEF TypeOK
      <4>5. Len(LanesToStart) \in Nat BY <4>1
      <4> QED BY <4>1, <4>2, <4>3, <4>4, <4>5
    <3> QED BY <1>l, <2>1, <2>2, <2>3, <3>6, <3>7, QueuedKept
  <2> QED BY <2>4, <2>5
<1>5. CASE DispatchMaintenance
  <2>1. pc = "dispatchMaint" /\ pc' \in {"tick", "asleep"} /\ InLoop
    BY <1>5 DEF DispatchMaintenance, InLoop
  <2>2. Queued BY <1>d, <2>1 DEF QueueInv
  <2>3. CASE slot = None /\ MaintDue # {} /\ ~AtLimit(count + InFlight)
    BY <1>5, <1>d, <2>1, <2>2, <2>3, DispatchQueued
  <2>4. CASE ~(slot = None /\ MaintDue # {} /\ ~AtLimit(count + InFlight))
    <3>1. UNCHANGED <<mode, slot, execution, left, rows, count, launched>>
      BY <1>5, <2>4 DEF DispatchMaintenance
    <3>2. ~AtLimit(count') BY <2>1, <2>2, <3>1 DEF Queued
    <3>3. slot = None /\ MaintDue # {} => AtLimit(launched)
      <4>1. Limited => launched = count + InFlight BY <1>d DEF LaunchInv, CountInv
      <4> QED BY <2>4, <4>1 DEF AtLimit
    <3>4. \A m \in Maint : /\ UNCHANGED <<left[m], rows[m], execution[m].started>>
                           /\ Active(m)' <=> Active(m)
      BY <3>1 DEF Active
    <3>5. \A l \in Lanes : Active(l)' => Active(l) /\ execution'[l].started = execution[l].started
      BY <3>1 DEF Active
    <3> QED BY <1>l, <2>2, <3>1, <3>2, <3>3, <3>4, <3>5, QueuedKept
  <2> QED BY <2>3, <2>4
<1>6. ASSUME NEW j \in Jobs, RunEnds(j) PROVE Queued'
  <2>1. /\ UNCHANGED <<mode, pc, slot, left, rows, count, launched>> /\ execution[j].state = "running"
        /\ execution' = [execution EXCEPT ![j].state = "success"]
    BY <1>6, <1>w DEF RunEnds, Outcome
  <2>2. \A k \in Jobs : /\ execution'[k].started = execution[k].started
                        /\ execution'[k].state = IF k = j THEN "success" ELSE execution[k].state
    BY <1>t, <2>1 DEF TypeOK
  <2>3. \A k \in Jobs : Active(k)' <=> Active(k) BY <2>1, <2>2 DEF Active
  <2>4. Queued BY <1>d, <2>1 DEF QueueInv, InLoop
  <2> QED BY <1>a, <2>1, <2>2, <2>3, <2>4
<1>7. CASE Refresh \/ BuildOnly \/ EmitLate \/ UNCHANGED vars
  <2>1. UNCHANGED <<mode, pc, slot, left, rows, count, launched, execution>>
    BY <1>7 DEF Refresh, BuildOnly, EmitLate, vars
  <2>2. Queued BY <1>d, <2>1 DEF QueueInv, InLoop
  <2> QED BY <1>a, <2>1, <2>2 DEF Active
<1>8. CASE Clock
  <2>1. pc = "asleep" BY <1>8 DEF Clock, InLoop
  <2>2. Queued BY <1>d, <2>1 DEF QueueInv, InLoop
  <2> QED BY <1>8, <1>d, <2>1, <2>2, ClockQueued
\* Steps that a runner that is well does not take, or that end its loop.
<1>9. CASE Interrupt \/ Join \/ Drain \/ Kill \/ Restart
  BY <1>9, <1>d, <1>w DEF Interrupt, Join, Drain, Kill, Restart, InLoop
<1> QED
  BY <1>1, <1>2, <1>3, <1>4, <1>5, <1>6, <1>7, <1>8, <1>9 DEF Next, SchedulerStep

\* An age that the allowance explains, and a younger one.
LEMMA YoungerIsExplained ==
    ASSUME NEW m \in Maint, NEW a \in Nat, NEW b \in Int, a <= b, ~PastCadence(m, b, Allowance)
    PROVE  ~PastCadence(m, a, Allowance)
<1>1. Segment[m] \in Nat /\ Interval[m] \in Nat /\ Allowance \in Nat
  BY MaintIs, HealthAssumption
<1>2. Interval[m] \in Int /\ Segment[m] \in Int BY <1>1
<1>3. Cadence(m) \in Nat BY <1>1, <1>2, MaxTwo DEF Cadence
<1> HIDE DEF Cadence
<1>4. ~(2 * b > 5 * Cadence(m) + 2 * Allowance) BY DEF PastCadence
<1> QED BY <1>1, <1>3, <1>4 DEF PastCadence

LEMMA QueueInvShows ==
    SightInv /\ QueueInv /\ WaitIsExplained => QueueFitsAllowance
<1> SUFFICES ASSUME SightInv, QueueInv, WaitIsExplained, Healthy,
                    NEW m \in Maint, rows[m] # NoRow, ~Active(m)
             PROVE  ~PastCadence(m, rows[m].age, Allowance)
  BY DEF QueueFitsAllowance
<1>1. /\ LaunchInv /\ HangInv /\ WellNow /\ InLoop /\ Queued /\ TypeOK
  BY DEF SightInv, Healthy, WellInv, Well, QueueInv, LaunchInv
<1>2. m \in mode.enabled /\ rows[m].age + left[m] <= Interval[m] BY <1>1 DEF Queued
<1>3. /\ rows[m].age \in Nat /\ left[m] \in Int /\ Interval[m] \in Nat /\ Cap \in Nat
      /\ left[m] >= -Cap
  <2>1. m \in Jobs /\ Interval[m] \in Nat BY MaintIs
  <2>2. rows[m].age \in Age /\ left[m] \in Int BY <1>1, <2>1 DEF TypeOK
  <2> QED BY <1>1, <2>1, <2>2, AgeIs DEF Queued
<1>4. Others(m) \in Nat /\ SlotTime(Ahead(m)) \in Nat /\ SlotLeft \in Nat
  BY <1>1, <1>2, QueueIsShort, SlotLeftIs
<1>5. /\ mode \in Modes /\ ~PastCadence(m, Interval[m] + Others(m), Allowance)
      /\ mode.limit # NoLimit =>
            \A l \in Lanes \cap mode.enabled : ~PastCadence(m, Interval[m] + Others(m) + Longest[l] + 1, Allowance)
  BY <1>1, <1>2 DEF WaitIsExplained, Others, TypeOK
<1>6. CASE -left[m] <= Others(m)
  <2>1. Interval[m] + Others(m) \in Int /\ rows[m].age <= Interval[m] + Others(m)
    BY <1>2, <1>3, <1>4, <1>6
  <2> QED BY <1>3, <1>5, <2>1, YoungerIsExplained
<1>7. CASE HeldUp(m)
  <2>1. mode.limit # NoLimit BY <1>7 DEF HeldUp, AtLimit, Limited
  <2>2. PICK l \in Lanes \cap mode.enabled : -left[m] <= Others(m) + Longest[l] + 1
    BY <1>7 DEF HeldUp
  <2>3. Longest[l] \in Nat BY SchedulerAssumption DEF Jobs
  <2>4. /\ Interval[m] + Others(m) + Longest[l] + 1 \in Int
        /\ rows[m].age <= Interval[m] + Others(m) + Longest[l] + 1
    BY <1>2, <1>3, <1>4, <2>2, <2>3
  <2> QED BY <1>3, <1>5, <2>1, <2>4, YoungerIsExplained
<1>8. CASE Served(m)
  <2>1. SlotTime(Ahead(m)) + SlotLeft - left[m] <= Others(m) BY <1>8 DEF Served
  <2>2. -left[m] <= Others(m) BY <1>3, <1>4, <2>1
  <2> QED BY <1>6, <2>2
<1>9. CASE ~Waits(m)
  <2>1. left[m] > 0 BY <1>2, <1>3, <1>9 DEF Waits
  <2>2. -left[m] <= Others(m) BY <1>3, <1>4, <2>1
  <2> QED BY <1>6, <2>2
<1>10. CASE Cap <= Others(m)
  <2>1. -left[m] <= Others(m) BY <1>3, <1>4, <1>10
  <2> QED BY <1>6, <2>1
<1> QED BY <1>1, <1>7, <1>8, <1>9, <1>10 DEF Queued

\* While a runner is well, no maintenance job that has run before is ever older than the
\* allowance for the slot explains (ops.py, 1077-1082 and 1245-1257), whatever the lanes do
\* and in whatever order the jobs fall due: the slot goes to the job that has been due for
\* longest, so each of the others runs once at most before it.
THEOREM QueueIsExplained == ASSUME WaitIsExplained PROVE Spec => []QueueFitsAllowance
<1> DEFINE I == SightInv /\ QueueInv
<1>1. Init => I
  <2>1. Init => SightInv
    BY InitLaunch, InitBeat, InitSilence, InitHang, InitWell DEF SightInv
  <2> QED BY <2>1, InitQueued DEF SightInv
<1>2. I /\ SightInv' /\ [Next]_vars => I' BY StepQueued DEF SightInv
<1>3. I => QueueFitsAllowance BY QueueInvShows
<1> QED BY <1>1, <1>2, <1>3, Sight, PTL DEF Spec

HIDE DEF queue, log

(***************************************************************************)
(* The offload that the scheduler runs as maintenance.                      *)
(***************************************************************************)
\* Where the move of the current run stands, as the files show it.
MoveInv ==
    /\ phase \in MovePcs => cur \in known
    /\ phase \in {"clear", "copy"} => cur \notin coldDirs
    /\ phase \in {"resume", "recheck", "abort", "index", "delete"} => cur \in coldDirs
    /\ phase \in {"clear", "copy", "recheck", "abort"} => cur \notin offloadIndex
    /\ phase = "delete" => cur \in offloadIndex
    /\ phase = "recheck" => cold[cur] = source

\* A pass believes only what the indexes say, and the offload index only
\* names directories that are on the cold tier.
IndexInv ==
    /\ AgeOnly \/ known \subseteq indexed
    /\ offloadIndex \subseteq coldDirs
    /\ \A r \in Runs \ hotDirs : r \in offloadIndex

\* A file on the hot tier is whole or gone, and no file goes before the index
\* has its run; what may be deleted without another look is in the cold copy.
TreeInv ==
    /\ \A r \in Runs : \A f \in Files : hot[r][f] \in {0, written[r][f]}
    /\ \A r \in Runs \ offloadIndex : \A f \in Files : hot[r][f] = written[r][f]
    /\ phase = "resume" => \A f \in Files \ unseen[cur] : hot[cur][f] = source[f]
    /\ phase \in {"index", "delete"} =>
         \A f \in Files \ unseen[cur] : hot[cur][f] \in {0, cold[cur][f]}

SafetyInv == MoveInv /\ IndexInv /\ TreeInv /\ RawPreserved /\ OnlyAccountedLeave

IInv == OffloadTypeOK /\ SafetyInv
USE RunsAssumption, SizeAssumption, GateAssumption, LimitAssumption, FaultAssumption,
    ZombieAssumption

-----------------------------------------------------------------------------
(* Type correctness.                                                        *)

\* Every variable starts with its type.
LEMMA InitTyped == OffloadInit => OffloadTypeOK
  BY DEF OffloadInit, OffloadTypeOK, Tree, EmptyTree, MovePcs

\* No step of a pass, of a writer or of the clock leaves the types.
LEMMA StepTyped == OffloadTypeOK /\ [OffloadNext]_offloadVars => OffloadTypeOK'
<1>. SUFFICES ASSUME OffloadTypeOK, [OffloadNext]_offloadVars PROVE OffloadTypeOK'
  OBVIOUS
<1>. USE DEF OffloadTypeOK, Tree, EmptyTree, MovePcs, archiveVars, passVars, ageVars, historyVars
<1>1. ASSUME NEW r \in Runs, GrowOlder(r) PROVE OffloadTypeOK'
  BY <1>1 DEF GrowOlder
<1>2. ASSUME NEW r \in Runs, Account(r) PROVE OffloadTypeOK'
  BY <1>2 DEF Account
<1>3. ASSUME NEW r \in Runs, NEW f \in Files, AppendLate(r, f) PROVE OffloadTypeOK'
  BY <1>3 DEF AppendLate, SourceIsTrusted
<1>4. CASE StartPass
  BY <1>4 DEF StartPass
<1>5. CASE EndPass
  BY <1>5 DEF EndPass
<1>6. ASSUME NEW r \in Runs, Backstop(r) PROVE OffloadTypeOK'
  BY <1>6 DEF Backstop, MayBackstop
<1>7. ASSUME NEW r \in Runs, BackstopFails(r) PROVE OffloadTypeOK'
  BY <1>7 DEF BackstopFails, MayBackstop
<1>8. ASSUME NEW r \in Runs, SkipRun(r) PROVE OffloadTypeOK'
  BY <1>8 DEF SkipRun
<1>9. ASSUME NEW r \in Runs, SelectRun(r) PROVE OffloadTypeOK'
  BY <1>9 DEF SelectRun
<1>10. CASE TakeManifest
  BY <1>10 DEF TakeManifest
<1>11. CASE Resume
  BY <1>11 DEF Resume
<1>12. CASE ColdTargetMismatch
  BY <1>12 DEF ColdTargetMismatch
<1>13. CASE ClearPartial
  BY <1>13 DEF ClearPartial
<1>14. ASSUME NEW f \in Files, CopyFile(f) PROVE OffloadTypeOK'
  <2>1. phase = "copy" /\ cur \in Runs
    BY <1>14 DEF CopyFile
  <2>2. hot[cur][f] \in Nat
    BY <2>1
  <2>3. partial' \in Tree
    BY <1>14, <2>2 DEF CopyFile
  <2>. QED
    BY <1>14, <2>3 DEF CopyFile
<1>15. ASSUME NEW f \in Files, DeleteFile(f) PROVE OffloadTypeOK'
  BY <1>15 DEF DeleteFile
<1>16. CASE RenameIntoPlace
  BY <1>16 DEF RenameIntoPlace, CopyVerified
<1>17. CASE CopyVerifyFailed
  BY <1>17 DEF CopyVerifyFailed
<1>18. CASE Recheck
  BY <1>18 DEF Recheck
<1>19. CASE AbortMove
  BY <1>19 DEF AbortMove
<1>20. CASE WriteIndex
  BY <1>20 DEF WriteIndex
<1>21. CASE DeleteDir
  BY <1>21 DEF DeleteDir
<1>22. CASE MoveFails
  BY <1>22 DEF MoveFails
<1>23. CASE Crash
  BY <1>23 DEF Crash
<1>24. ASSUME NEW f \in Files, NEW size \in 0..MaxSize, CopyTruncated(f, size)
      PROVE  OffloadTypeOK'
  <2>1. size \in Nat
    BY <1>24
  <2>2. partial' \in Tree
    BY <1>24, <2>1 DEF CopyTruncated
  <2>3. faults' \in 0..MaxFaults
    BY <1>24 DEF CopyTruncated
  <2>4. uncopied' \subseteq Files
    BY <1>24 DEF CopyTruncated
  <2>5. UNCHANGED <<hotDirs, hot, coldDirs, cold, indexed, offloadIndex, phase, todo, late,
                    known, budget, backstopBudget, cur, source, ageVars, historyVars>>
    BY <1>24 DEF CopyTruncated
  <2>. QED
    BY <2>2, <2>3, <2>4, <2>5
<1>25. ASSUME NEW gone \in SUBSET Files, AbortIgnoresErrors(gone) PROVE OffloadTypeOK'
  <2>1. cur \in Runs
    BY <1>25 DEF AbortIgnoresErrors
  <2>2. Without(cold[cur], gone) \in Tree
    BY <2>1 DEF Without
  <2>3. cold' \in [Runs -> Tree]
    BY <1>25, <2>1, <2>2 DEF AbortIgnoresErrors
  <2>. QED
    BY <1>25, <2>3 DEF AbortIgnoresErrors
<1>26. CASE UNCHANGED offloadVars
  BY <1>26 DEF offloadVars
<1>. QED
  BY <1>1, <1>2, <1>3, <1>4, <1>5, <1>6, <1>7, <1>8, <1>9, <1>10, <1>11, <1>12, <1>13,
     <1>14, <1>15, <1>16, <1>17, <1>18, <1>19, <1>20, <1>21, <1>22, <1>23, <1>24,
     <1>25, <1>26 DEF OffloadNext, Environment, ScanStep, MoveStep, MoveFault

\* Every variable keeps its type: budgets never run below zero, and the run
\* being moved is always a run of the lane.
THEOREM TypeCorrect == OffloadSpec => []OffloadTypeOK
<1>. QED
  BY InitTyped, StepTyped, PTL DEF OffloadSpec
-----------------------------------------------------------------------------
(* Safety: IInv is inductive.                                               *)

\* Nothing is lost, moved or unlocatable at first.
LEMMA InitSafe == OffloadInit => SafetyInv
  BY DEF OffloadInit, SafetyInv, MoveInv, IndexInv, TreeInv, RawPreserved, OnlyAccountedLeave,
         Depleted, MovePcs, EmptyTree

\* Only AppendLate, CopyFile, RenameIntoPlace, the aborts and the deletes touch a
\* tree; the other steps keep SafetyInv by moving phase where the files allow it.
LEMMA StepSafe == IInv /\ [OffloadNext]_offloadVars => IInv'
<1>. SUFFICES ASSUME IInv, [OffloadNext]_offloadVars PROVE SafetyInv'
  BY StepTyped DEF IInv
<1>. USE DEF IInv, SafetyInv, OffloadTypeOK, Tree, EmptyTree, MovePcs, archiveVars, passVars,
             ageVars, historyVars, MoveInv, IndexInv, TreeInv, RawPreserved,
             OnlyAccountedLeave, Depleted
<1>1. ASSUME NEW r \in Runs, GrowOlder(r) PROVE SafetyInv'
  BY <1>1 DEF GrowOlder
<1>2. ASSUME NEW r \in Runs, Account(r) PROVE SafetyInv'
  BY <1>2 DEF Account
<1>3. ASSUME NEW r \in Runs, NEW f \in Files, AppendLate(r, f) PROVE SafetyInv'
  BY <1>3 DEF AppendLate, SourceIsTrusted
<1>4. CASE StartPass
  BY <1>4 DEF StartPass
<1>5. CASE EndPass
  BY <1>5 DEF EndPass
<1>6. ASSUME NEW r \in Runs, Backstop(r) PROVE SafetyInv'
  BY <1>6 DEF Backstop
<1>7. ASSUME NEW r \in Runs, BackstopFails(r) PROVE SafetyInv'
  BY <1>7 DEF BackstopFails
<1>8. ASSUME NEW r \in Runs, SkipRun(r) PROVE SafetyInv'
  BY <1>8 DEF SkipRun
<1>9. ASSUME NEW r \in Runs, SelectRun(r) PROVE SafetyInv'
  BY <1>9 DEF SelectRun
<1>10. CASE TakeManifest
  BY ZenonT(30), <1>10 DEF TakeManifest
<1>11. CASE Resume
  BY ZenonT(30), <1>11 DEF Resume, IsPartialDelete
<1>12. CASE ColdTargetMismatch
  BY <1>12 DEF ColdTargetMismatch
<1>13. CASE ClearPartial
  BY <1>13 DEF ClearPartial
<1>14. ASSUME NEW f \in Files, CopyFile(f) PROVE SafetyInv'
  BY <1>14 DEF CopyFile
<1>15. ASSUME NEW f \in Files, DeleteFile(f) PROVE SafetyInv'
  BY <1>15 DEF DeleteFile
<1>16. CASE RenameIntoPlace
  BY <1>16 DEF RenameIntoPlace, CopyVerified
<1>17. CASE CopyVerifyFailed
  BY <1>17 DEF CopyVerifyFailed
<1>18. CASE Recheck
  BY <1>18 DEF Recheck, SourceUnchanged
<1>19. CASE AbortMove
  BY <1>19 DEF AbortMove
<1>20. CASE WriteIndex
  BY ZenonT(30), <1>20 DEF WriteIndex
<1>21. CASE DeleteDir
  BY <1>21 DEF DeleteDir
<1>22. CASE MoveFails
  BY <1>22 DEF MoveFails
<1>23. CASE Crash
  BY <1>23 DEF Crash
<1>24. ASSUME NEW f \in Files, NEW size \in 0..MaxSize, CopyTruncated(f, size)
      PROVE  SafetyInv'
  BY <1>24 DEF CopyTruncated
<1>25. ASSUME NEW gone \in SUBSET Files, AbortIgnoresErrors(gone) PROVE SafetyInv'
  BY <1>25 DEF AbortIgnoresErrors, Without
<1>26. CASE UNCHANGED offloadVars
  BY <1>26 DEF offloadVars
<1>. QED
  BY <1>1, <1>2, <1>3, <1>4, <1>5, <1>6, <1>7, <1>8, <1>9, <1>10, <1>11, <1>12, <1>13,
     <1>14, <1>15, <1>16, <1>17, <1>18, <1>19, <1>20, <1>21, <1>22, <1>23, <1>24,
     <1>25, <1>26 DEF OffloadNext, Environment, ScanStep, MoveStep, MoveFault

\* IInv is inductive, so it holds in every reachable state.
LEMMA Invariance == OffloadSpec => []IInv
<1>1. OffloadInit => IInv
  BY InitTyped, InitSafe DEF IInv
<1>2. IInv /\ [OffloadNext]_offloadVars => IInv'
  BY StepTyped, StepSafe DEF IInv
<1>. QED
  BY <1>1, <1>2, PTL DEF OffloadSpec

-----------------------------------------------------------------------------
(* What the offload promises.                                               *)

\* No crash, raising call, truncated copy or late writer makes both tiers
\* lose what a file held when the pass last looked at it.
THEOREM RawIsPreserved == OffloadSpec => []RawPreserved
<1>1. IInv => RawPreserved
  BY DEF IInv, SafetyInv
<1>. QED
  BY <1>1, Invariance, PTL

\* A run directory is whole on the hot tier until the offload index, and the
\* cold tier under the name the index gives, both have it; and a run no index
\* accounts for stays whole on the hot tier of an indexed lane.
THEOREM RunsLeaveInOrder == OffloadSpec => []LeavesInOrder
<1>1. IInv => LocatableBeforeGone
  BY DEF IInv, SafetyInv, IndexInv, TreeInv, LocatableBeforeGone, Depleted
<1>2. IInv => OnlyAccountedLeave
  BY DEF IInv, SafetyInv
<1>3. IInv => LeavesInOrder
  BY <1>1, <1>2 DEF LeavesInOrder
<1>. QED
  BY <1>3, Invariance, PTL

\* No step of any pass changes the cold copy of a run the offload index has.
THEOREM ColdIsFinal == OffloadSpec => IndexedColdIsFinal
<1>. DEFINE Final == \A r \in offloadIndex : r \in coldDirs' /\ cold'[r] = cold[r]
<1>1. IInv /\ [OffloadNext]_offloadVars => [Final]_offloadVars
  <2>. SUFFICES ASSUME IInv, OffloadNext PROVE Final
    OBVIOUS
  <2>. USE DEF IInv, SafetyInv, OffloadTypeOK, MovePcs, MoveInv, IndexInv, archiveVars
  <2>1. CASE Environment
    BY <2>1 DEF Environment, GrowOlder, Account, AppendLate
  <2>2. CASE ScanStep
    BY <2>2 DEF ScanStep, StartPass, EndPass, Backstop, BackstopFails, SkipRun, SelectRun
  <2>3. CASE RenameIntoPlace
    BY <2>3 DEF RenameIntoPlace
  <2>4. CASE AbortMove
    BY <2>4 DEF AbortMove
  <2>5. ASSUME NEW gone \in SUBSET Files, AbortIgnoresErrors(gone) PROVE Final
    BY <2>5 DEF AbortIgnoresErrors
  <2>6. CASE MoveFails \/ Crash
    BY <2>6 DEF MoveFails, Crash
  <2>7. CASE UNCHANGED <<coldDirs, cold>>
    BY <2>7
  <2>8. OffloadNext => \/ Environment \/ ScanStep \/ RenameIntoPlace \/ AbortMove
                \/ \E gone \in SUBSET Files : AbortIgnoresErrors(gone)
                \/ MoveFails \/ Crash \/ UNCHANGED <<coldDirs, cold>>
    BY DEF OffloadNext, MoveStep, MoveFault, TakeManifest, Resume, ColdTargetMismatch,
           ClearPartial, CopyFile, CopyTruncated, DeleteFile, CopyVerifyFailed, Recheck,
           WriteIndex, DeleteDir
  <2>. QED
    BY <2>1, <2>2, <2>3, <2>4, <2>5, <2>6, <2>7, <2>8
<1>. QED
  BY <1>1, Invariance, PTL DEF OffloadSpec, IndexedColdIsFinal

=============================================================================
