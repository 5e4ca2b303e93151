-------------------------- MODULE AllowanceProofs --------------------------
(***************************************************************************)
(* Proofs about what a capture may be held to: the lease of its trial, for *)
(* any number of runs, slots and seconds; the evidence of one session, for *)
(* any number of frames, breaks and mishaps (a session without a manifest  *)
(* has a reason, and the one in its manifest is what the offline verifier  *)
(* will find); and the ledger of the canary, for any number of workers,    *)
(* lanes, grants and faults and any sizes (one writer for a lane, a closed *)
(* grant is charged what its run holds, nothing comes after the final      *)
(* receipt, and the pool is not overbooked).                               *)
(***************************************************************************)
EXTENDS Canary, EvidenceLease, SessionEvidence, SequenceTheorems, FiniteSetTheorems, FunctionTheorems, TLAPS

-----------------------------------------------------------------------------
(* The lease of a trial.                                                     *)

Claimed == Places \ {"idle", "claiming", "ended"}
Locked == Claimed \ {"granted"}

\* As long as a clock was left alone its readings are true.
ClocksTrue ==
    /\ steps = 0 => skew = 0
    /\ reboots = 0 => booted = 0
    /\ claims # <<>> =>
        /\ steps = 0 => trial.first.wall = begin
        /\ reboots = 0 => trial.first.mono = begin

\* A claim's reading is of this boot; both clocks untouched, every reading tells the
\* true time, which has not been before.
ReadingsTrue ==
    /\ \A r \in LeaseRuns :
        /\ writer[r].at = "claiming" /\ steps = 0 =>
            writer[r].known.wall = writer[r].known.mono + booted
        /\ steps = 0 /\ reboots = 0 =>
            /\ writer[r].known.wall = writer[r].known.mono
            /\ writer[r].known.wall <= time
            /\ writer[r].at = "stopping" => time >= begin + Seconds
    /\ steps = 0 /\ reboots = 0 => trial.last.wall = trial.last.mono

\* Who is past its claim has a slot and the end that goes with it.
HasSlot(r) == \E s \in 1..Slots : s <= Len(claims) /\ claims[s] = r
SlotsKept ==
    /\ Len(claims) <= Slots
    /\ \A r \in LeaseRuns : writer[r].at \in Claimed =>
        HasSlot(r) /\ claims # <<>> /\ writer[r].base = trial.first
    /\ \A r \in LeaseRuns : writer[r].at \in Locked => byteLock = r

LeaseInv == LeaseTypeOK /\ ClocksTrue /\ ReadingsTrue /\ SlotsKept

-----------------------------------------------------------------------------
\* The initial state satisfies the invariant.
LEMMA InitLeaseInv == LeaseInit => LeaseInv
  BY LeaseBoundsAssumption
     DEF LeaseInit, LeaseInv, LeaseTypeOK, ClocksTrue, ReadingsTrue, SlotsKept,
         Claimed, Locked, Places, Reasons, Idle, Resting, NoReading, Reading, Row, Writer

\* What an action makes of a writer is one.
LEMMA WriterMoves ==
  ASSUME NEW w \in Writer, NEW p \in Places
  PROVE  [w EXCEPT !.at = p] \in Writer
  BY DEF Writer

LEMMA WriterReads ==
  ASSUME NEW w \in Writer, NEW p \in Places, NEW k \in Reading
  PROVE  [w EXCEPT !.at = p, !.known = k] \in Writer
  BY DEF Writer

LEMMA WriterGoesOn ==
  ASSUME NEW w \in Writer, NEW c \in Reasons
  PROVE  [w EXCEPT !.at = "look", !.why = c] \in Writer
  BY DEF Writer, Places

LEMMA WriterIsGranted ==
  ASSUME NEW w \in Writer, NEW b \in Reading, NEW n \in Int
  PROVE  [w EXCEPT !.at = "granted", !.base = b, !.saved = n] \in Writer
  BY DEF Writer, Places

LEMMA WriterSaves ==
  ASSUME NEW w \in Writer, NEW n \in Int
  PROVE  [w EXCEPT !.at = "again", !.saved = n] \in Writer
  BY DEF Writer, Places

LEMMA WriterRests == Idle \in Writer /\ Ended \in Writer
  BY DEF Idle, Ended, Resting, Writer, Places, Reasons, NoReading, Reading

\* Where a writer's record is replaced, the others stay.
LEMMA OneMoves ==
  ASSUME writer \in [LeaseRuns -> Writer], NEW r \in LeaseRuns, NEW w \in Writer
  PROVE  [writer EXCEPT ![r] = w] \in [LeaseRuns -> Writer]
  OBVIOUS

\* Each step keeps the types.
LEMMA StepLeaseTypeOK ==
  ASSUME LeaseTypeOK, [LeaseNext]_lvars
  PROVE  LeaseTypeOK'
<1> USE LeaseBoundsAssumption DEF LeaseTypeOK, hostVars, leaseVars
<1>1. Clock \in Reading
  BY DEF Clock, Reading
<1>2. CASE UNCHANGED lvars
  BY <1>2 DEF lvars
<1>3. CASE HostTick
  BY <1>3 DEF HostTick
<1>4. CASE StepWallClock
  BY <1>4 DEF StepWallClock
<1>5. CASE Reboot
  BY <1>5, WriterRests DEF Reboot
<1>6. ASSUME NEW r \in LeaseRuns, LeaseWriter(r)
      PROVE  LeaseTypeOK'
  <2> DEFINE w == writer[r]
  <2>0. w \in Writer /\ w.known \in Reading /\ w.known.mono \in Int
    BY DEF Writer, Reading
  <2>1. CASE ReadClock(r)
    <3>1. writer' = [writer EXCEPT ![r] = [w EXCEPT !.at = "claiming", !.known = Clock]]
      BY <2>1 DEF ReadClock
    <3>2. [w EXCEPT !.at = "claiming", !.known = Clock] \in Writer
      BY <1>1, <2>0, WriterReads DEF Places
    <3> QED
      BY <2>1, <3>1, <3>2, OneMoves DEF ReadClock
  <2>2. CASE ClaimSlot(r)
    <3>1. RowWith(w.known) \in Row /\ RowWith(w.known).first \in Reading
      BY <2>0 DEF RowWith, Row
    <3>2. writer' = [writer EXCEPT ![r] =
                       [w EXCEPT !.at = "granted", !.base = RowWith(w.known).first,
                                 !.saved = w.known.mono]]
      BY <2>2 DEF ClaimSlot
    <3>3. [w EXCEPT !.at = "granted", !.base = RowWith(w.known).first,
                    !.saved = w.known.mono] \in Writer
      BY <2>0, <3>1, WriterIsGranted
    <3>4. claims' \in Seq(LeaseRuns) /\ begin' \in Int
      BY <2>0, <2>2 DEF ClaimSlot
    <3> QED
      BY <2>2, <3>1, <3>2, <3>3, <3>4, OneMoves DEF ClaimSlot
  <2>3. CASE ClaimStopsTrial(r)
    <3>1. [trial EXCEPT !.stopped = TRUE] \in Row
      BY DEF Row
    <3> QED
      BY <2>3, <3>1, WriterRests, OneMoves DEF ClaimStopsTrial, Quits
  <2>4. CASE TakeByteLock(r)
    <3>1. writer' = [writer EXCEPT ![r] = [w EXCEPT !.at = "look"]]
      BY <2>4 DEF TakeByteLock
    <3>2. [w EXCEPT !.at = "look"] \in Writer
      BY <2>0, WriterMoves DEF Places
    <3> QED
      BY <2>4, <3>1, <3>2, OneMoves DEF TakeByteLock
  <2>5. CASE LookPasses(r)
    <3>1. AfterLook(r) \in Places
      BY <2>0 DEF AfterLook, Writer, Reasons, Places
    <3>2. writer' = [writer EXCEPT ![r] = [w EXCEPT !.at = AfterLook(r), !.known = Clock]]
      BY <2>5 DEF LookPasses
    <3>3. [w EXCEPT !.at = AfterLook(r), !.known = Clock] \in Writer
      BY <1>1, <2>0, <3>1, WriterReads
    <3> QED
      BY <2>5, <3>2, <3>3, OneMoves DEF LookPasses
  <2>6. CASE LookFails(r)
    <3>1. writer' = [writer EXCEPT ![r] = [w EXCEPT !.at = "stopping"]]
      BY <2>6 DEF LookFails
    <3>2. [w EXCEPT !.at = "stopping"] \in Writer
      BY <2>0, WriterMoves DEF Places
    <3> QED
      BY <2>6, <3>1, <3>2, OneMoves DEF LookFails
  <2>7. CASE StopTrial(r)
    <3>1. [trial EXCEPT !.stopped = TRUE] \in Row
      BY DEF Row
    <3> QED
      BY <2>7, <3>1, WriterRests, OneMoves DEF StopTrial, Quits
  <2>8. CASE SaveReading(r)
    <3>1. [trial EXCEPT !.last = w.known] \in Row
      BY <2>0 DEF Row
    <3>2. writer' = [writer EXCEPT ![r] = [w EXCEPT !.at = "again", !.saved = w.known.mono]]
      BY <2>8 DEF SaveReading
    <3>3. [w EXCEPT !.at = "again", !.saved = w.known.mono] \in Writer
      BY <2>0, WriterSaves
    <3> QED
      BY <2>8, <3>1, <3>2, <3>3, OneMoves DEF SaveReading
  <2>9. CASE ReadRow(r)
    <3>1. writer' = [writer EXCEPT ![r] = [w EXCEPT !.at = "act"]]
      BY <2>9 DEF ReadRow
    <3>2. [w EXCEPT !.at = "act"] \in Writer
      BY <2>0, WriterMoves DEF Places
    <3> QED
      BY <2>9, <3>1, <3>2, OneMoves DEF ReadRow
  <2>10. ASSUME NEW why \in Reasons, Goes(r, why)
         PROVE  LeaseTypeOK'
    <3>1. writer' = [writer EXCEPT ![r] = [w EXCEPT !.at = "look", !.why = why]]
      BY <2>10 DEF Goes
    <3>2. [w EXCEPT !.at = "look", !.why = why] \in Writer
      BY <2>0, <2>10, WriterGoesOn
    <3> QED
      BY <2>10, <3>1, <3>2, OneMoves DEF Goes
  <2>11. CASE Records(r) \/ EndsJournal(r) \/ AccountsRaw(r) \/ WritesTmp(r)
    BY <2>10, <2>11 DEF Records, EndsJournal, AccountsRaw, WritesTmp, Reasons
  <2>12. CASE RenamesManifest(r)
    BY <2>12, WriterRests, OneMoves DEF RenamesManifest, Quits
  <2>13. CASE LeaseFails(r)
    BY <2>13, WriterRests, OneMoves DEF LeaseFails, Quits
  <2> QED
    BY <1>6, <2>1, <2>2, <2>3, <2>4, <2>5, <2>6, <2>7, <2>8, <2>9, <2>11, <2>12, <2>13
       DEF LeaseWriter
<1> QED
  BY <1>2, <1>3, <1>4, <1>5, <1>6 DEF LeaseNext

\* Every step but a claim keeps the first reading, and none but a claim, a checkpoint
\* and a stop writes the row.
LEMMA FirstStays ==
  ASSUME LeaseTypeOK, NEW r \in LeaseRuns, LeaseWriter(r), ~ClaimSlot(r)
  PROVE  /\ trial'.first = trial.first /\ claims' = claims /\ begin' = begin
         /\ UNCHANGED hostVars
         /\ trial'.last = trial.last \/ SaveReading(r)
  BY DEF LeaseTypeOK, Row, LeaseWriter, ReadClock, ClaimStopsTrial, TakeByteLock, LookPasses,
         LookFails, StopTrial, SaveReading, ReadRow, Records, EndsJournal, AccountsRaw,
         WritesTmp, Goes, RenamesManifest, LeaseFails

LEMMA StepClocksTrue ==
  ASSUME LeaseInv, [LeaseNext]_lvars
  PROVE  ClocksTrue'
<1> USE LeaseBoundsAssumption DEF LeaseInv, ClocksTrue
<1>1. CASE UNCHANGED lvars
  BY <1>1 DEF lvars, hostVars, leaseVars
<1>2. CASE HostTick
  BY <1>2 DEF HostTick, leaseVars
<1>3. CASE StepWallClock
  BY <1>3 DEF StepWallClock, leaseVars, LeaseTypeOK
<1>4. CASE Reboot
  BY <1>4 DEF Reboot, LeaseTypeOK
<1>5. ASSUME NEW r \in LeaseRuns, LeaseWriter(r)
      PROVE  ClocksTrue'
  <2>1. CASE ClaimSlot(r)
    <3> DEFINE k == writer[r].known
    <3>1. k.wall \in Int /\ k.mono \in Int /\ booted \in Int
      BY DEF LeaseTypeOK, Writer, Reading
    <3>2. trial'.first = IF claims = <<>> THEN k ELSE trial.first
      BY <2>1 DEF ClaimSlot, RowWith, LeaseTypeOK, Row
    <3>3. begin' = IF claims = <<>> THEN k.mono + booted ELSE begin
      BY <2>1 DEF ClaimSlot
    <3>4. UNCHANGED <<steps, reboots, skew, booted>>
      BY <2>1 DEF ClaimSlot, hostVars
    <3>5. steps = 0 => k.wall = k.mono + booted
      BY <2>1 DEF ClaimSlot, ReadingsTrue
    <3> QED
      BY <3>1, <3>2, <3>3, <3>4, <3>5
  <2>2. CASE ~ClaimSlot(r)
    BY <1>5, <2>2, FirstStays DEF hostVars
  <2> QED
    BY <2>1, <2>2
<1> QED
  BY <1>1, <1>2, <1>3, <1>4, <1>5 DEF LeaseNext

\* The moves of a writer, as far as its place, its reading and its end go.
LEMMA WriterStep ==
  ASSUME LeaseTypeOK, NEW r \in LeaseRuns, LeaseWriter(r)
  PROVE  /\ \A q \in LeaseRuns \ {r} : writer'[q] = writer[q]
         /\ \/ /\ ReadClock(r) /\ writer'[r].at = "claiming" /\ writer'[r].known = Clock
            \/ /\ ClaimSlot(r) /\ writer'[r].at = "granted"
               /\ writer'[r].known = writer[r].known
               /\ writer'[r].base = RowWith(writer[r].known).first
            \/ /\ TakeByteLock(r) /\ writer'[r].at = "look"
               /\ writer'[r].known = writer[r].known /\ writer'[r].base = writer[r].base
            \/ /\ LookPasses(r) /\ writer'[r].at \in {"save", "act", "control"}
               /\ writer'[r].known = Clock /\ writer'[r].base = writer[r].base
            \/ /\ LookFails(r) /\ writer'[r].at = "stopping"
               /\ writer'[r].known = writer[r].known /\ writer'[r].base = writer[r].base
            \/ /\ SaveReading(r) \/ ReadRow(r) \/ \E why \in Reasons : Goes(r, why)
               /\ writer'[r].at \in {"again", "act", "look"}
               /\ writer'[r].known = writer[r].known /\ writer'[r].base = writer[r].base
            \/ /\ ClaimStopsTrial(r) \/ StopTrial(r) \/ RenamesManifest(r) \/ LeaseFails(r)
               /\ writer'[r] = Ended
<1> USE DEF LeaseTypeOK, Writer
<1>1. CASE ReadClock(r)
  BY <1>1 DEF ReadClock
<1>2. CASE ClaimSlot(r)
  BY <1>2 DEF ClaimSlot
<1>3. CASE TakeByteLock(r)
  BY <1>3 DEF TakeByteLock
<1>4. CASE LookPasses(r)
  <2>1. AfterLook(r) \in {"save", "act", "control"}
    BY DEF AfterLook, Reasons
  <2> QED
    BY <1>4, <2>1 DEF LookPasses
<1>5. CASE LookFails(r)
  BY <1>5 DEF LookFails
<1>6. CASE SaveReading(r)
  BY <1>6 DEF SaveReading
<1>7. CASE ReadRow(r)
  BY <1>7 DEF ReadRow
<1>8. CASE Records(r) \/ EndsJournal(r) \/ AccountsRaw(r) \/ WritesTmp(r)
  <2>1. PICK why \in Reasons : Goes(r, why)
    BY <1>8 DEF Records, EndsJournal, AccountsRaw, WritesTmp, Reasons
  <2>2. /\ writer'[r].at = "look" /\ writer'[r].known = writer[r].known
        /\ writer'[r].base = writer[r].base
        /\ \A q \in LeaseRuns \ {r} : writer'[q] = writer[q]
    BY <2>1 DEF Goes
  <2> QED
    BY <2>1, <2>2
<1>9. CASE ClaimStopsTrial(r)
  BY <1>9 DEF ClaimStopsTrial, Quits
<1>10. CASE StopTrial(r)
  BY <1>10 DEF StopTrial, Quits
<1>11. CASE RenamesManifest(r)
  BY <1>11 DEF RenamesManifest, Quits
<1>12. CASE LeaseFails(r)
  BY <1>12 DEF LeaseFails, Quits
<1> QED
  BY <1>1, <1>2, <1>3, <1>4, <1>5, <1>6, <1>7, <1>8, <1>9, <1>10, <1>11, <1>12
     DEF LeaseWriter

LEMMA StepReadingsTrue ==
  ASSUME LeaseInv, [LeaseNext]_lvars
  PROVE  ReadingsTrue'
<1> USE LeaseBoundsAssumption DEF LeaseInv, ReadingsTrue
<1>0. /\ time \in Int /\ skew \in Int /\ booted \in Int /\ begin \in Int /\ Seconds \in Int
      /\ steps \in Nat /\ reboots \in Nat
      /\ \A r \in LeaseRuns : /\ writer[r].known.wall \in Int /\ writer[r].known.mono \in Int
                              /\ writer[r].base.wall \in Int /\ writer[r].base.mono \in Int
  <2>1. \A r \in LeaseRuns : writer[r].known \in Reading /\ writer[r].base \in Reading
    BY DEF LeaseTypeOK, Writer
  <2>2. /\ time \in Int /\ skew \in Int /\ booted \in Int /\ begin \in Int
        /\ steps \in Nat /\ reboots \in Nat
    BY DEF LeaseTypeOK
  <2>3. \A k \in Reading : k.wall \in Int /\ k.mono \in Int
    BY DEF Reading
  <2> QED
    BY <2>1, <2>2, <2>3
<1>1. CASE UNCHANGED lvars
  BY <1>1 DEF lvars, hostVars, leaseVars
<1>2. CASE HostTick
  BY <1>0, <1>2 DEF HostTick, leaseVars
<1>3. CASE StepWallClock
  BY <1>0, <1>3 DEF StepWallClock, leaseVars
<1>4. CASE Reboot
  <2>1. \A r \in LeaseRuns : writer'[r].at \in {"idle", "ended"}
    BY <1>4 DEF Reboot, Idle, Ended, Resting
  <2>2. steps' = steps /\ reboots' # 0
    BY <1>0, <1>4 DEF Reboot
  <2> QED
    BY <2>1, <2>2
<1>5. ASSUME NEW r \in LeaseRuns, LeaseWriter(r)
      PROVE  ReadingsTrue'
  <2>0. UNCHANGED hostVars
    <3>1. CASE ClaimSlot(r)
      BY <3>1 DEF ClaimSlot
    <3>2. CASE ~ClaimSlot(r)
      BY <1>5, <3>2, FirstStays
    <3> QED
      BY <3>1, <3>2
  <2>1. /\ Clock.wall = time + skew /\ Clock.mono = time - booted
        /\ steps = 0 => skew = 0
        /\ reboots = 0 => booted = 0
    BY DEF Clock, ClocksTrue
  <2>2. writer[r].at = "stopping" => claims # <<>>
    BY DEF SlotsKept, Claimed, Places
  <2>3. \A q \in LeaseRuns : writer[q].at = "stopping" => begin' = begin
    <3>1. CASE ClaimSlot(r)
      BY <3>1 DEF ClaimSlot, SlotsKept, Claimed, Places
    <3>2. CASE ~ClaimSlot(r)
      BY <1>5, <3>2, FirstStays
    <3> QED
      BY <3>1, <3>2
  <2>4. steps = 0 /\ reboots = 0 => trial'.last.wall = trial'.last.mono
    <3>1. CASE ClaimSlot(r)
      <4>1. trial'.last = writer[r].known
        BY <3>1 DEF ClaimSlot, RowWith, LeaseTypeOK, Row
      <4> QED
        BY <4>1
    <3>2. CASE SaveReading(r)
      <4>1. trial'.last = writer[r].known
        BY <3>2 DEF SaveReading, LeaseTypeOK, Row
      <4> QED
        BY <4>1
    <3>3. CASE ~ClaimSlot(r) /\ ~SaveReading(r)
      BY <1>5, <3>3, FirstStays
    <3> QED
      BY <3>1, <3>2, <3>3
  <2>5. LookFails(r) /\ steps = 0 /\ reboots = 0 => time >= begin + Seconds
    <3> SUFFICES ASSUME LookFails(r), steps = 0, reboots = 0
                 PROVE  time >= begin + Seconds
      OBVIOUS
    <3>1. Agrees(writer[r].known, Clock)
      BY <1>0, <2>1 DEF Agrees
    <3>2. Past(Clock, writer[r].base)
      BY <3>1 DEF LookFails, Sound
    <3>3. writer[r].base = trial.first /\ claims # <<>>
      BY DEF LookFails, SlotsKept, Claimed, Places
    <3>4. trial.first.wall = begin /\ trial.first.mono = begin
      BY <3>3 DEF ClocksTrue
    <3> QED
      BY <1>0, <2>1, <3>2, <3>3, <3>4 DEF Past
  <2>6. /\ writer'[r].at = "claiming" /\ steps = 0 =>
            writer'[r].known.wall = writer'[r].known.mono + booted
        /\ steps = 0 /\ reboots = 0 =>
            /\ writer'[r].known.wall = writer'[r].known.mono
            /\ writer'[r].known.wall <= time
            /\ writer'[r].at = "stopping" => time >= begin + Seconds
    <3>1. CASE writer'[r] = Ended
      BY <1>0, <3>1 DEF Ended, Resting, NoReading, LeaseTypeOK
    <3>2. CASE writer'[r].known = Clock /\ writer'[r].at # "stopping"
      BY <1>0, <2>1, <3>2
    <3>3. CASE writer'[r].known = writer[r].known /\ writer'[r].at \notin {"claiming", "stopping"}
      BY <1>0, <3>3
    <3>4. CASE LookFails(r) /\ writer'[r].known = writer[r].known /\ writer'[r].at = "stopping"
      BY <1>0, <2>5, <3>4
    <3> QED
      BY <1>5, <3>1, <3>2, <3>3, <3>4, WriterStep
  <2>7. \A q \in LeaseRuns \ {r} : writer'[q] = writer[q]
    BY <1>5, WriterStep
  <2>8. UNCHANGED <<time, booted, steps, reboots>>
    BY <2>0 DEF hostVars
  <2>9. writer'[r].at = "stopping" /\ steps = 0 /\ reboots = 0 => time >= begin' + Seconds
    <3>1. CASE ClaimSlot(r)
      BY <3>1 DEF ClaimSlot, LeaseTypeOK, Writer
    <3>2. CASE ~ClaimSlot(r)
      BY <1>5, <2>6, <3>2, FirstStays
    <3> QED
      BY <3>1, <3>2
  <2> QED
    BY <1>0, <2>3, <2>4, <2>6, <2>7, <2>8, <2>9
<1> QED
  BY <1>1, <1>2, <1>3, <1>4, <1>5 DEF LeaseNext

LEMMA StepSlotsKept ==
  ASSUME LeaseInv, [LeaseNext]_lvars
  PROVE  SlotsKept'
<1> USE LeaseBoundsAssumption DEF LeaseInv, SlotsKept, HasSlot
<1>1. CASE UNCHANGED lvars
  BY <1>1 DEF lvars, leaseVars
<1>2. CASE HostTick
  BY <1>2 DEF HostTick, leaseVars
<1>3. CASE StepWallClock
  BY <1>3 DEF StepWallClock, leaseVars
<1>4. CASE Reboot
  <2>1. \A r \in LeaseRuns : writer'[r].at \notin Claimed
    BY <1>4 DEF Reboot, Idle, Ended, Resting, Claimed
  <2> QED
    BY <1>4, <2>1 DEF Reboot, Locked
<1>5. ASSUME NEW r \in LeaseRuns, LeaseWriter(r)
      PROVE  SlotsKept'
  <2>0. /\ \A q \in LeaseRuns \ {r} : writer'[q] = writer[q]
        /\ claims \in Seq(LeaseRuns)
    BY <1>5, WriterStep DEF LeaseTypeOK
  <2>1. CASE ClaimSlot(r)
    <3>1. /\ claims' = Append(claims, r) /\ Len(claims) < Slots /\ byteLock' = byteLock
          /\ trial'.first = RowWith(writer[r].known).first
          /\ claims # <<>> => trial'.first = trial.first
      BY <2>1 DEF ClaimSlot, RowWith, LeaseTypeOK, Row
    <3>2. writer'[r].at = "granted" /\ writer'[r].base = trial'.first
      BY <2>1, <3>1 DEF ClaimSlot, LeaseTypeOK, Writer
    <3>3. /\ Len(claims') = Len(claims) + 1 /\ claims' # <<>>
          /\ claims'[Len(claims) + 1] = r
          /\ \A s \in 1..Len(claims) : claims'[s] = claims[s]
      BY <2>0, <3>1
    <3>4. Len(claims) \in Nat
      BY <2>0
    <3>5. Len(claims) + 1 \in 1..Slots
      BY <3>1, <3>4
    <3>6. HasSlot(r)'
      BY <3>3, <3>5
    <3>7. ASSUME NEW q \in LeaseRuns \ {r}, writer'[q].at \in Claimed
          PROVE  HasSlot(q)' /\ writer'[q].base = trial'.first
      <4>1. HasSlot(q) /\ claims # <<>> /\ writer[q].base = trial.first
        BY <2>0, <3>7
      <4>2. PICK s \in 1..Slots : s <= Len(claims) /\ claims[s] = q
        BY <4>1
      <4>3. s <= Len(claims') /\ claims'[s] = q
        BY <3>3, <3>4, <4>2
      <4> QED
        BY <2>0, <3>1, <4>1, <4>3
    <3>8. \A q \in LeaseRuns : writer'[q].at \in Locked => byteLock' = q
      BY <2>0, <3>1, <3>2 DEF Locked
    <3>9. Len(claims') <= Slots
      BY <3>1, <3>3, <3>4
    <3> QED
      BY <3>2, <3>3, <3>6, <3>7, <3>8, <3>9
  <2>2. CASE ~ClaimSlot(r)
    <3>1. trial'.first = trial.first /\ claims' = claims
      BY <1>5, <2>2, FirstStays
    <3>2. CASE ReadClock(r)
      <4>1. writer'[r].at = "claiming" /\ byteLock' = byteLock
        BY <3>2 DEF ReadClock, LeaseTypeOK, Writer
      <4>2. writer'[r].at \notin Claimed
        BY <4>1 DEF Claimed
      <4> QED
        BY <2>0, <3>1, <4>1, <4>2 DEF Locked
    <3>3. CASE TakeByteLock(r)
      <4>1. byteLock = NoRun /\ byteLock' = r
        BY <3>3 DEF TakeByteLock
      <4>2. \A q \in LeaseRuns : writer[q].at \notin Locked
        BY <4>1, LeaseRunsAssumption
      <4>3. writer[r].at \in Claimed
        BY <3>3 DEF TakeByteLock, Claimed, Places
      <4>4. writer'[r].base = writer[r].base /\ writer'[r].at \in Claimed
        BY <3>3 DEF TakeByteLock, Claimed, Places, LeaseTypeOK, Writer
      <4> QED
        BY <2>0, <3>1, <4>1, <4>2, <4>3, <4>4
    <3>4. CASE writer'[r] = Ended /\ byteLock' = (IF byteLock = r THEN NoRun ELSE byteLock)
      <4>1. writer'[r].at \notin Claimed
        BY <3>4 DEF Ended, Resting, Claimed
      <4> QED
        BY <2>0, <3>1, <3>4, <4>1 DEF Locked
    <3>5. CASE /\ writer[r].at \in Locked /\ writer'[r].at \in Locked
               /\ writer'[r].base = writer[r].base /\ byteLock' = byteLock
      BY <2>0, <3>1, <3>5 DEF Locked
    <3>6. LookPasses(r) \/ LookFails(r) \/ SaveReading(r) \/ ReadRow(r)
            \/ (\E why \in Reasons : Goes(r, why)) =>
          writer[r].at \in Locked /\ byteLock' = byteLock
      BY DEF LookPasses, LookFails, SaveReading, ReadRow, Goes, Locked, Claimed, Places
    <3>7. ClaimStopsTrial(r) \/ StopTrial(r) \/ RenamesManifest(r) \/ LeaseFails(r) =>
          byteLock' = (IF byteLock = r THEN NoRun ELSE byteLock)
      BY DEF ClaimStopsTrial, StopTrial, RenamesManifest, LeaseFails, Quits
    <3>8. {"save", "act", "control", "stopping", "again", "look"} \subseteq Locked
      BY DEF Locked, Claimed, Places
    <3> QED
      BY <1>5, <2>2, <3>2, <3>3, <3>4, <3>5, <3>6, <3>7, <3>8, WriterStep
  <2> QED
    BY <2>1, <2>2
<1> QED
  BY <1>1, <1>2, <1>3, <1>4, <1>5 DEF LeaseNext

-----------------------------------------------------------------------------
\* The invariant holds in every state.
LEMMA LeaseInvariant == LeaseSpec => []LeaseInv
<1>1. LeaseInv /\ [LeaseNext]_lvars => LeaseInv'
  BY StepLeaseTypeOK, StepClocksTrue, StepReadingsTrue, StepSlotsKept DEF LeaseInv
<1> QED
  BY <1>1, InitLeaseInv, PTL DEF LeaseSpec

\* Row, claims, lock and writers keep their types (evidence_lease.py).
THEOREM LeaseTypeCorrect == LeaseSpec => []LeaseTypeOK
<1>1. LeaseInv => LeaseTypeOK
  BY DEF LeaseInv
<1> QED
  BY <1>1, LeaseInvariant, PTL

\* The allowance holds: whoever goes on has a slot, is alone, and the first claim is less
\* than Seconds ago unless both clocks lie (verify_clock(), check(), claim()).
THEOREM AllowanceIsKept == LeaseSpec => AllowanceHolds
<1>1. LeaseInv /\ [LeaseNext]_lvars =>
        [\A r \in LeaseRuns :
            writer[r].at \in {"look", "again"} /\ writer'[r].at \in {"save", "act", "control"} =>
                /\ \E s \in 1..Slots : s <= Len(claims) /\ claims[s] = r
                /\ \A q \in LeaseRuns :
                    writer[q].at \in {"look", "save", "again", "stopping", "control", "act"}
                        => q = r
                /\ time < begin + Seconds \/ Misled]_lvars
  <2> SUFFICES ASSUME LeaseInv, [LeaseNext]_lvars, NEW r \in LeaseRuns,
                      writer[r].at \in {"look", "again"},
                      writer'[r].at \in {"save", "act", "control"}
               PROVE  /\ HasSlot(r)
                      /\ \A q \in LeaseRuns :
                          writer[q].at \in {"look", "save", "again", "stopping", "control", "act"}
                              => q = r
                      /\ time < begin + Seconds \/ Misled
    BY DEF HasSlot
  <2> USE DEF LeaseInv
  <2>1. LookPasses(r)
    <3>1. CASE UNCHANGED lvars
      BY <3>1 DEF lvars, leaseVars
    <3>2. CASE HostTick \/ StepWallClock
      BY <3>2 DEF HostTick, StepWallClock, leaseVars
    <3>3. CASE Reboot
      BY <3>3 DEF Reboot, Idle, Ended, Resting
    <3>4. ASSUME NEW p \in LeaseRuns, LeaseWriter(p)
          PROVE  LookPasses(r)
      <4>1. p = r
        BY <3>4, WriterStep
      <4>2. ~SaveReading(r) /\ ~ReadRow(r) /\ (\A why \in Reasons : ~Goes(r, why))
        BY DEF SaveReading, ReadRow, Goes
      <4>3. writer'[r] # Ended
        BY DEF Ended, Resting
      <4> QED
        BY <3>4, <4>1, <4>2, <4>3, WriterStep
    <3> QED
      BY <3>1, <3>2, <3>3, <3>4 DEF LeaseNext
  <2>2. /\ writer[r].at \in Locked /\ writer[r].at \in Claimed
        /\ {"look", "save", "again", "stopping", "control", "act"} \subseteq Locked
    BY DEF Locked, Claimed, Places
  <2>3. HasSlot(r) /\ claims # <<>> /\ writer[r].base = trial.first
    BY <2>2 DEF SlotsKept
  <2>4. \A q \in LeaseRuns :
          writer[q].at \in {"look", "save", "again", "stopping", "control", "act"} => q = r
    BY <2>2 DEF SlotsKept
  <2>5. ~Past(Clock, trial.first)
    BY <2>1, <2>3 DEF LookPasses, Sound
  <2>6. /\ time \in Int /\ skew \in Int /\ booted \in Int /\ begin \in Int /\ Seconds \in Int
        /\ steps \in Nat /\ reboots \in Nat
    BY LeaseBoundsAssumption DEF LeaseTypeOK
  <2>7. trial.first.wall \in Int /\ trial.first.mono \in Int
    BY DEF LeaseTypeOK, Row, Reading
  <2>8. /\ Clock.wall = time + skew /\ Clock.mono = time - booted
    BY DEF Clock
  <2>9. CASE steps = 0
    BY <2>3, <2>4, <2>5, <2>6, <2>7, <2>8, <2>9 DEF ClocksTrue, Past
  <2>10. CASE reboots = 0
    BY <2>3, <2>4, <2>5, <2>6, <2>7, <2>8, <2>10 DEF ClocksTrue, Past
  <2> QED
    BY <2>3, <2>4, <2>6, <2>9, <2>10 DEF Misled
<1> QED
  BY <1>1, LeaseInvariant, PTL DEF LeaseSpec, AllowanceHolds

\* A trial is stopped for a reason, and what is stopped stays so (_stop(), claim()).
THEOREM TrialStopsForAReason == LeaseSpec => StopsAreRight
<1> DEFINE Reason == steps > 0 \/ reboots > 0 \/ time >= begin + Seconds \/ Overtaken
           Stays == /\ trial' = trial /\ claims' = claims
                    /\ \A r \in manifests' \ manifests : writer[r].at = "act"
<1>1. LeaseInv /\ [LeaseNext]_lvars =>
        [/\ trial'.stopped /\ ~trial.stopped => Reason
         /\ trial.stopped => Stays]_lvars
  <2> SUFFICES ASSUME LeaseInv, [LeaseNext]_lvars
               PROVE  /\ trial'.stopped /\ ~trial.stopped => Reason
                      /\ trial.stopped => Stays
    OBVIOUS
  <2> USE DEF LeaseInv
  <2>1. CASE UNCHANGED lvars
    BY <2>1 DEF lvars, leaseVars
  <2>2. CASE HostTick \/ StepWallClock
    BY <2>2 DEF HostTick, StepWallClock, leaseVars
  <2>3. CASE Reboot
    BY <2>3 DEF Reboot
  <2>4. ASSUME NEW r \in LeaseRuns, LeaseWriter(r)
        PROVE  /\ trial'.stopped /\ ~trial.stopped => Reason
               /\ trial.stopped => Stays
    <3>1. CASE ClaimStopsTrial(r)
      <4> DEFINE k == writer[r].known
      <4>1. ~trial.stopped /\ writer[r].at = "claiming" /\ ~InOrder(k)
        BY <3>1 DEF ClaimStopsTrial
      <4>2. SUFFICES ASSUME steps = 0, reboots = 0
                     PROVE  time >= begin + Seconds \/ Overtaken
        BY <4>1 DEF LeaseTypeOK
      <4>3. claims # <<>> /\ (~Agrees(trial.last, k) \/ Past(k, trial.first))
        BY <4>1 DEF InOrder
      <4>4. /\ k.wall = k.mono /\ k.wall <= time /\ trial.last.wall = trial.last.mono
        BY <4>2 DEF ReadingsTrue
      <4>5. trial.first.wall = begin /\ trial.first.mono = begin
        BY <4>2, <4>3 DEF ClocksTrue
      <4>6. /\ k.wall \in Int /\ k.mono \in Int
            /\ trial.last.wall \in Int /\ trial.last.mono \in Int
            /\ time \in Int /\ begin \in Int /\ Seconds \in Int
        BY LeaseBoundsAssumption DEF LeaseTypeOK, Writer, Row, Reading
      <4>7. CASE ~Agrees(trial.last, k)
        <5>1. k.wall < trial.last.wall
          BY <4>4, <4>6, <4>7 DEF Agrees
        <5> QED
          BY <4>1, <4>3, <5>1 DEF Overtaken
      <4>8. CASE Past(k, trial.first)
        BY <4>4, <4>5, <4>6, <4>8 DEF Past
      <4> QED
        BY <4>3, <4>7, <4>8
    <3>2. CASE StopTrial(r)
      <4>1. writer[r].at = "stopping"
        BY <3>2 DEF StopTrial
      <4>2. Reason
        <5>1. steps = 0 /\ reboots = 0 => time >= begin + Seconds
          BY <4>1 DEF ReadingsTrue
        <5> QED
          BY <5>1 DEF LeaseTypeOK
      <4>3. trial.stopped => trial' = trial
        BY <3>2 DEF StopTrial, LeaseTypeOK, Row
      <4>4. claims' = claims /\ manifests' = manifests
        BY <3>2 DEF StopTrial
      <4> QED
        BY <4>2, <4>3, <4>4
    <3>3. CASE RenamesManifest(r)
      BY <3>3 DEF RenamesManifest
    <3>4. CASE ClaimSlot(r) \/ SaveReading(r)
      <4>1. ~trial.stopped
        BY <3>4 DEF ClaimSlot, SaveReading, RowAllows
      <4>2. trial'.stopped = trial.stopped
        BY <3>4 DEF ClaimSlot, SaveReading, RowWith, LeaseTypeOK, Row
      <4> QED
        BY <4>1, <4>2
    <3>5. CASE ReadClock(r) \/ TakeByteLock(r) \/ LookPasses(r) \/ LookFails(r)
                 \/ ReadRow(r) \/ LeaseFails(r)
      BY <3>5 DEF ReadClock, TakeByteLock, LookPasses, LookFails, ReadRow, LeaseFails
    <3>6. CASE Records(r) \/ EndsJournal(r) \/ AccountsRaw(r) \/ WritesTmp(r)
      BY <3>6 DEF Records, EndsJournal, AccountsRaw, WritesTmp, Goes
    <3> QED
      BY <2>4, <3>1, <3>2, <3>3, <3>4, <3>5, <3>6 DEF LeaseWriter
  <2> QED
    BY <2>1, <2>2, <2>3, <2>4 DEF LeaseNext
<1> QED
  BY <1>1, LeaseInvariant, PTL DEF LeaseSpec, StopsAreRight

-----------------------------------------------------------------------------
(* A session without a manifest has a reason.                                *)

\* Where the writer is tells what it has made of the session, and only a finished
\* session gets that far.
StageInv ==
    /\ manifest # "none" => writerAt \in {"published", "ended"}
    /\ writerAt = "published" => manifest # "none"
    /\ writerAt \in {"prepared", "renaming"} => draft # "none"
    /\ writerAt \in {"closed", "prepared", "renaming"} =>
        Finished /\ error \in {"none", "writer_close_timeout"}

ToldInv == RefusalIsTold /\ StageInv

-----------------------------------------------------------------------------
\* A step of the collector before the session is finished.
CaptureStep ==
    /\ ~Finished /\ UNCHANGED writerVars
    /\ producer' \in {"done", "without"} => error' # "none"
    /\ error # "none" => error' # "none"

\* The session has no manifest yet, and an error stays.
LEMMA CaptureKeeps == ToldInv /\ CaptureStep => ToldInv'
  BY DEF ToldInv, StageInv, RefusalIsTold, CaptureStep, Finished, writerVars

\* event() loses no error.
LEMMA EmitKeepsError ==
  ASSUME NEW records, Emit(records), error # "none"
  PROVE  error' # "none"
  BY DEF Emit

\* Every step of the collector but the last ones is such a step.
LEMMA CollectorCaptures ==
  ASSUME Collector, ~JoinReturns, ~JoinTimesOut
  PROVE  CaptureStep
<1>1. CASE SetupAnswers
  BY <1>1 DEF SetupAnswers, CaptureStep, Finished
<1>2. CASE SetupTimesOut
  BY <1>2 DEF SetupTimesOut, CaptureStep, Finished
<1>3. CASE SetupRefused
  BY <1>3 DEF SetupRefused, CaptureStep, Finished, Fail
<1>4. CASE PipelineFails
  BY <1>4 DEF PipelineFails, CaptureStep, Finished
<1>5. CASE Connects
  BY <1>5, EmitKeepsError DEF Connects, CaptureStep, Finished
<1>6. CASE ReceiveRefusal
  BY <1>6, EmitKeepsError DEF ReceiveRefusal, Reaches, CaptureStep, Finished
<1>7. CASE StreamEnds
  BY <1>7, EmitKeepsError DEF StreamEnds, Reaches, CaptureStep, Finished
<1>8. CASE \E p \in {"connecting", "closing"} : Boundary(p)
  BY <1>8, EmitKeepsError DEF Boundary, Reaches, CaptureStep, Finished
<1>9. CASE WritePending
  <2>1. PICK records : AfterRow(records)
    BY <1>9 DEF WritePending
  <2> QED BY <1>9, <2>1, EmitKeepsError
        DEF WritePending, AfterRow, Reaches, CaptureStep, Finished
<1>10. ASSUME NEW f \in Frames, ReceiveEarly(f)
       PROVE  CaptureStep
  BY <1>10, EmitKeepsError DEF ReceiveEarly, CaptureStep, Finished
<1>11. ASSUME NEW f \in Frames, ReceiveBook(f)
       PROVE  CaptureStep
  <2>1. PICK records : AfterRow(records)
    BY <1>11 DEF ReceiveBook
  <2> QED BY <1>11, <2>1, EmitKeepsError
        DEF ReceiveBook, AfterRow, Reaches, CaptureStep, Finished
<1>12. ASSUME NEW f \in Frames, RowFails(f)
       PROVE  CaptureStep
  BY <1>12, EmitKeepsError DEF RowFails, Reaches, CaptureStep, Finished
<1>13. ASSUME NEW f \in Frames, ReceiveOther(f)
       PROVE  CaptureStep
  BY <1>13, EmitKeepsError DEF ReceiveOther, CaptureStep, Finished
<1>14. ASSUME NEW sound \in BOOLEAN, FinishSession(sound)
       PROVE  CaptureStep
  BY <1>14, EmitKeepsError DEF FinishSession, CaptureStep, Finished
<1> QED
  BY <1>1, <1>2, <1>3, <1>4, <1>5, <1>6, <1>7, <1>8, <1>9, <1>10, <1>11, <1>12, <1>13, <1>14
  DEF Collector

\* The end of finish().
LEMMA JoinKeeps == ToldInv /\ (JoinReturns \/ JoinTimesOut) => ToldInv'
  BY DEF ToldInv, StageInv, RefusalIsTold, JoinReturns, JoinTimesOut, Fail, Finished,
         writerVars

\* The writer, place by place.
LEMMA WriterKeeps == ToldInv /\ JournalWriter => ToldInv'
<1> SUFFICES ASSUME ToldInv, JournalWriter PROVE ToldInv'
  OBVIOUS
<1> USE DEF ToldInv, StageInv, RefusalIsTold, WriterGoes, Finished
<1>1. CASE WriterFails
  BY <1>1 DEF WriterFails, Fail
<1>2. CASE WriterIsReady
  BY <1>2 DEF WriterIsReady
<1>3. CASE OpensJournal
  BY <1>3 DEF OpensJournal
<1>4. CASE WriterSeesError
  BY <1>4 DEF WriterSeesError
<1>5. CASE ClosesJournal
  BY <1>5 DEF ClosesJournal
<1>6. CASE PreparesManifest
  BY <1>6 DEF PreparesManifest
<1>7. CASE RenamesDraft
  BY <1>7 DEF RenamesDraft
<1>8. CASE WriterReturns
  BY <1>8 DEF WriterReturns
<1>9. ASSUME NEW inTime \in BOOLEAN, MayRename(inTime)
      PROVE  ToldInv'
  BY <1>9 DEF MayRename, Fail
<1> QED
  BY <1>1, <1>2, <1>3, <1>4, <1>5, <1>6, <1>7, <1>8, <1>9 DEF JournalWriter

\* A stutter.
LEMMA StutterKeepsTold == ToldInv /\ UNCHANGED svars => ToldInv'
  BY DEF ToldInv, StageInv, RefusalIsTold, Finished, svars, writerVars

LEMMA InitToldInv == SessionInit => ToldInv
BY DEF SessionInit, ToldInv, StageInv, RefusalIsTold, Finished

LEMMA StepKeepsTold == ToldInv /\ [SessionNext]_svars => ToldInv'
<1> SUFFICES ASSUME ToldInv, [SessionNext]_svars PROVE ToldInv'
  OBVIOUS
<1>1. CASE JoinReturns \/ JoinTimesOut
  BY <1>1, JoinKeeps
<1>2. CASE Collector /\ ~JoinReturns /\ ~JoinTimesOut
  BY <1>2, CollectorCaptures, CaptureKeeps
<1>3. CASE JournalWriter
  BY <1>3, WriterKeeps
<1>4. CASE UNCHANGED svars
  BY <1>4, StutterKeepsTold
<1> QED BY <1>1, <1>2, <1>3, <1>4 DEF SessionNext

-----------------------------------------------------------------------------
\* Whenever finish(), a setup or the writer is through there is a manifest or a reason
\* why there is none, and both only if the rename outlived the wait.
THEOREM RefusalsAreTold == SessionSpec => []RefusalIsTold
<1>1. ToldInv => RefusalIsTold
  BY DEF ToldInv
<1> QED BY <1>1, InitToldInv, StepKeepsTold, PTL DEF SessionSpec
-----------------------------------------------------------------------------
(* A manifest admits the sessions that verify.                               *)

Kinds == {"connection_open", "subscribe_sent", "connection_boundary", "connection_end",
          "receive", "decode_error", "decoded", "ack", "snapshot", "raw_written", "terminal"}
Endings == {"none", "exception", "limit", "deadline"}
Entries == [kind : Kinds, conn : Nat, rid : Nat, what : Frames \cup Endings, good : BOOLEAN]
Receipts == [rid : Nat, conn : Nat, what : BookFrames, anchored : BOOLEAN]
Issues == {"nack", "stray", "garbled", "list", "skewed", "boundary", "row"}
Before == {"setup", "refusing", "without", "connecting", "abandoned"}
During == {"handshake", "streaming", "closing"}

JournalTypeOK ==
    /\ producer \in Before \cup During \cup {"joining", "done"}
    /\ connection \in Nat /\ received \in Nat /\ ack \in BOOLEAN /\ anchor \in BOOLEAN
    /\ issues \subseteq Issues
    /\ ending \in [reason : Endings, closed : BOOLEAN]
    /\ pending \in Seq(Receipts) /\ events \in Seq(Entries) /\ rows \in Seq(Nat)
    /\ draft \in {"none", "admitted", "refused"}

\* The records of e that are in M: the frames of the book that were decoded, and the rows.
Marked(e, M) == {i \in DOMAIN e : e[i] \in M}
Books == {r \in Entries : r.kind = "decoded" /\ r.what \in BookFrames}
Written == {r \in Entries : r.kind = "raw_written"}

\* An issue is to be seen in the journal, but for the frame that leaves no record.
Shows(issue, r) ==
    \/ issue = "nack" /\ r.kind = "ack" /\ ~r.good
    \/ issue = "stray" /\ r.kind = "decoded" /\ r.what = "stray"
    \/ issue = "garbled" /\ r.kind = "decode_error"
    \/ issue = "skewed" /\ r.kind = "receive" /\ ~r.good
    \/ issue = "boundary" /\ r.kind = "connection_boundary"
    \/ issue = "row" /\ r.kind = "raw_written" /\ ~r.good
IssuesShow(e, found) == \A issue \in found \ {"list"} : \E i \in DOMAIN e : Shows(issue, e[i])

\* The counters count records, and the rows are in the order of theirs.
CountsMatch(e, n, m) ==
    Cardinality(Marked(e, Books)) = n /\ Cardinality(Marked(e, Written)) = m
UpTo(e, i) == {j \in Marked(e, Written) : j <= i}
RowsFollow(e, q) == \A i \in Marked(e, Written) : q[Cardinality(UpTo(e, i))] = e[i].rid

Ledger(e, n, q, found) == IssuesShow(e, found) /\ CountsMatch(e, n, Len(q)) /\ RowsFollow(e, q)

\* The terminal record is the last of a finished session.
NoEnd(e) == \A i \in DOMAIN e : e[i].kind # "terminal"
EndIsLast ==
    /\ ~Finished => NoEnd(events)
    /\ Finished =>
        /\ events # <<>> /\ Of("terminal") = {Len(events)}
        /\ events[Len(events)].good = ending.closed
        /\ events[Len(events)].what = ending.reason

\* The frame received as rid was decoded as a frame of the book; an acknowledgement, a
\* decoded snapshot, and no row of a frame, among the first n records.
BookAt(e, rid) == e[rid + 1].kind = "decoded" /\ e[rid + 1].rid = rid /\ e[rid + 1].what \in BookFrames
AckAt(e, n) == \E a \in 1..n : e[a].kind = "ack"
AnchorAt(e, n) == \E s \in 1..n : e[s].kind = "decoded" /\ e[s].what = "snapshot"
NoRowAt(e, rid, n) == \A j \in 1..n : e[j].kind = "raw_written" => e[j].rid # rid

IsRow(e, i) ==
    /\ e[i].rid + 1 < i /\ BookAt(e, e[i].rid)
    /\ AckAt(e, i - 1) /\ AnchorAt(e, e[i].rid + 1)
    /\ NoRowAt(e, e[i].rid, i - 1)

\* How a record fits what is before it, in a session without an issue.
InPlace(e, i) ==
    /\ e[i].conn = 1
    /\ e[i].kind = "connection_open" <=> i = 1
    /\ e[i].kind = "subscribe_sent" <=> i = 2
    /\ e[i].kind \notin {"connection_boundary", "decode_error"}
    /\ e[i].kind \in {"receive", "ack", "raw_written"} => e[i].good
    /\ e[i].kind = "decoded" =>
        /\ i > 1 /\ e[i].rid = i - 1 /\ e[i - 1].kind = "receive"
        /\ e[i].what # "stray"
    /\ e[i].kind \in {"ack", "snapshot"} => i > 2 /\ e[i].rid = i - 2 /\ e[i - 1].kind = "decoded"
    /\ e[i].kind = "snapshot" => e[i].what = "snapshot"
    /\ e[i].kind = "raw_written" => IsRow(e, i)

Coherent(e) == \A i \in 1..Len(e) : InPlace(e, i)

\* A frame that waits for the acknowledgement is decoded, and has no row.
Waits(e, p) ==
    /\ p.rid + 1 \in 1..Len(e) /\ BookAt(e, p.rid)
    /\ p.anchored => AnchorAt(e, p.rid + 1)
    /\ NoRowAt(e, p.rid, Len(e))
Standing(e, kept, acked, anchored) ==
    /\ Coherent(e) /\ Len(e) > 1
    /\ \A i \in 1..Len(kept) : Waits(e, kept[i])
    /\ acked => AckAt(e, Len(e))
    /\ anchored => AnchorAt(e, Len(e))
Distinct(kept) == \A i, j \in 1..Len(kept) : kept[j].rid = kept[i].rid => j = i

\* The one connection, and what the object knows of it.
CoherentInv ==
    /\ producer \in Before => connection = 0 /\ events = <<>> /\ pending = <<>> /\ ~ack /\ ~anchor
    /\ producer \notin Before =>
        connection = 1 /\ Standing(events, pending, ack, anchor) /\ Distinct(pending)

\* What the manifest is made of.
Admissible == Complete /\ issues = {} /\ received = Len(rows) /\ rows # <<>>
DraftInv ==
    /\ draft = "none" => manifest = "none"
    /\ draft # "none" => Finished
    /\ manifest # "none" => manifest = draft
    /\ draft = "admitted" => Admissible
    /\ draft = "refused" => ~Admissible

\* The journal is whole as long as there is no error, and once it is finished.
Intact == error \in {"none", "writer_close_timeout"}

AdmissionInv ==
    /\ JournalTypeOK /\ DraftInv
    /\ error = "writer_close_timeout" => Finished
    /\ Intact => Ledger(events, received, rows, issues) /\ EndIsLast
    /\ Intact /\ issues = {} => CoherentInv
-----------------------------------------------------------------------------
(* Journals that grow.                                                       *)

\* A record more.
LEMMA Appended ==
    ASSUME NEW X, NEW e \in Seq(X), NEW r \in X
    PROVE  /\ Append(e, r) \in Seq(X) /\ Len(Append(e, r)) = Len(e) + 1
           /\ Len(e) \in Nat /\ DOMAIN e = 1..Len(e)
           /\ DOMAIN Append(e, r) = 1..(Len(e) + 1)
           /\ \A i \in 1..Len(e) : Append(e, r)[i] = e[i]
           /\ Append(e, r)[Len(e) + 1] = r
BY AppendProperties

LEMMA MarkedIs ==
    ASSUME NEW X, NEW e \in Seq(X), NEW M, NEW T \in SUBSET Marked(e, M)
    PROVE  IsFiniteSet(T) /\ Cardinality(T) \in Nat /\ T \subseteq 1..Len(e)
<1>1. Marked(e, M) \subseteq 1..Len(e) BY DEF Marked
<1>2. IsFiniteSet(1..Len(e))
  <2>1. Len(e) \in Int OBVIOUS
  <2> QED BY <2>1, FS_Interval
<1>3. T \in SUBSET (1..Len(e)) BY <1>1
<1>4. IsFiniteSet(T) BY <1>2, <1>3, FS_Subset
<1> QED BY <1>3, <1>4, FS_CardinalityType

LEMMA MarkedAppended ==
    ASSUME NEW X, NEW e \in Seq(X), NEW r \in X, NEW M
    PROVE  /\ r \in M => Marked(Append(e, r), M) = Marked(e, M) \cup {Len(e) + 1}
           /\ r \notin M => Marked(Append(e, r), M) = Marked(e, M)
BY Appended DEF Marked

LEMMA MarkedCounts ==
    ASSUME NEW X, NEW e \in Seq(X), NEW r \in X, NEW M
    PROVE  /\ Cardinality(Marked(e, M)) \in Nat
           /\ r \in M => Cardinality(Marked(Append(e, r), M)) = Cardinality(Marked(e, M)) + 1
           /\ r \notin M => Cardinality(Marked(Append(e, r), M)) = Cardinality(Marked(e, M))
<1>1. /\ IsFiniteSet(Marked(e, M)) /\ Marked(e, M) \subseteq 1..Len(e)
      /\ Cardinality(Marked(e, M)) \in Nat
  <2>1. Marked(e, M) \in SUBSET Marked(e, M) OBVIOUS
  <2> QED BY <2>1, MarkedIs
<1>2. Len(e) + 1 \notin Marked(e, M)
  <2>1. Len(e) \in Nat OBVIOUS
  <2> QED BY <1>1, <2>1
<1>3. CASE r \in M
  <2>1. Marked(Append(e, r), M) = Marked(e, M) \cup {Len(e) + 1} BY <1>3, MarkedAppended
  <2>2. Cardinality(Marked(e, M) \cup {Len(e) + 1}) = Cardinality(Marked(e, M)) + 1
    BY <1>1, <1>2, FS_AddElement
  <2> QED BY <1>1, <1>3, <2>1, <2>2
<1>4. CASE r \notin M
  BY <1>1, <1>4, MarkedAppended
<1> QED BY <1>3, <1>4

LEMMA ConcatOne ==
    ASSUME NEW X, NEW e \in Seq(X), NEW a \in X
    PROVE  e \o <<a>> = Append(e, a)
BY AppendIsConcat

LEMMA ConcatTwo ==
    ASSUME NEW X, NEW e \in Seq(X), NEW a \in X, NEW b \in X
    PROVE  e \o <<a, b>> = Append(Append(e, a), b)
<1> DEFINE p == e \o <<a, b>>
           q == Append(Append(e, a), b)
<1>1. <<a, b>> \in Seq(X) /\ Len(<<a, b>>) = 2 /\ <<a, b>>[1] = a /\ <<a, b>>[2] = b OBVIOUS
<1>2. /\ p \in Seq(X) /\ Len(p) = Len(e) + 2
      /\ \A i \in 1..(Len(e) + 2) :
            p[i] = IF i <= Len(e) THEN e[i] ELSE <<a, b>>[i - Len(e)]
  BY <1>1, ConcatProperties
<1>3. /\ Append(e, a) \in Seq(X) /\ Len(Append(e, a)) = Len(e) + 1 /\ Len(e) \in Nat
      /\ \A i \in 1..Len(e) : Append(e, a)[i] = e[i]
      /\ Append(e, a)[Len(e) + 1] = a
  BY Appended
<1>4. /\ q \in Seq(X) /\ Len(q) = Len(e) + 1 + 1
      /\ \A i \in 1..(Len(e) + 1) : q[i] = Append(e, a)[i]
      /\ q[Len(e) + 1 + 1] = b
  BY <1>3, Appended
<1> HIDE DEF p, q
<1>5. ASSUME NEW i \in 1..(Len(e) + 2) PROVE p[i] = q[i]
  <2>1. CASE i \in 1..Len(e) BY <1>2, <1>3, <1>4, <2>1
  <2>2. CASE i = Len(e) + 1
    <3>1. i - Len(e) = 1 /\ ~(i <= Len(e)) BY <1>3, <2>2
    <3> QED BY <1>1, <1>2, <1>3, <1>4, <2>2, <3>1
  <2>3. CASE i = Len(e) + 2
    <3>1. i - Len(e) = 2 /\ ~(i <= Len(e)) /\ i = Len(e) + 1 + 1 BY <1>3, <2>3
    <3> QED BY <1>1, <1>2, <1>4, <2>3, <3>1
  <2> QED BY <1>3, <2>1, <2>2, <2>3
<1>6. Len(q) = Len(p) BY <1>2, <1>3, <1>4
<1>7. p = q BY <1>2, <1>4, <1>5, <1>6, SeqEqual
<1> QED BY <1>7 DEF p, q

\* The records of a frame are the one of its receipt and up to two more.
LEMMA ConcatFrame ==
    ASSUME NEW X, NEW e \in Seq(X), NEW a \in X, NEW b \in X, NEW c \in X
    PROVE  /\ <<a>> \o <<>> \in Seq(X) /\ <<a>> \o <<b>> \in Seq(X) /\ <<a>> \o <<b, c>> \in Seq(X)
           /\ e \o (<<a>> \o <<>>) = Append(e, a)
           /\ e \o (<<a>> \o <<b>>) = Append(Append(e, a), b)
           /\ e \o (<<a>> \o <<b, c>>) = Append(Append(Append(e, a), b), c)
<1>1. <<>> \in Seq(X) /\ <<a>> \in Seq(X) /\ <<b>> \in Seq(X) /\ <<b, c>> \in Seq(X) OBVIOUS
<1>2. ASSUME NEW t \in Seq(X)
      PROVE  <<a>> \o t \in Seq(X) /\ e \o (<<a>> \o t) = Append(e, a) \o t
  <2>1. (e \o <<a>>) \o t = e \o (<<a>> \o t) BY <1>1, ConcatAssociative
  <2>2. e \o <<a>> = Append(e, a) BY ConcatOne
  <2>3. <<a>> \o t \in Seq(X) BY <1>1, ConcatProperties
  <2> QED BY <2>1, <2>2, <2>3
<1>3. Append(e, a) \in Seq(X) BY AppendProperties
<1>4. Append(e, a) \o <<>> = Append(e, a) BY <1>3, ConcatEmptySeq
<1>5. Append(e, a) \o <<b>> = Append(Append(e, a), b) BY <1>3, ConcatOne
<1>6. Append(e, a) \o <<b, c>> = Append(Append(Append(e, a), b), c) BY <1>3, ConcatTwo
<1> QED BY <1>1, <1>2, <1>4, <1>5, <1>6

-----------------------------------------------------------------------------
(* What a record more leaves as it was.                                      *)

LEMMA IssuesStay ==
    ASSUME NEW e \in Seq(Entries), NEW r \in Entries, NEW found, NEW more,
           IssuesShow(e, found), \A x \in more : x \in found \/ x = "list" \/ Shows(x, r)
    PROVE  IssuesShow(Append(e, r), more)
<1> SUFFICES ASSUME NEW x \in more \ {"list"}
             PROVE  \E i \in DOMAIN Append(e, r) : Shows(x, Append(e, r)[i])
  BY DEF IssuesShow
<1>1. CASE x \in found
  <2>1. PICK i \in DOMAIN e : Shows(x, e[i]) BY <1>1 DEF IssuesShow
  <2>2. i \in DOMAIN Append(e, r) /\ Append(e, r)[i] = e[i] BY Appended
  <2> QED BY <2>1, <2>2
<1>2. CASE Shows(x, r)
  <2>1. Len(e) + 1 \in DOMAIN Append(e, r) /\ Append(e, r)[Len(e) + 1] = r BY Appended
  <2> QED BY <1>2, <2>1
<1> QED BY <1>1, <1>2

LEMMA CountsGrow ==
    ASSUME NEW e \in Seq(Entries), NEW r \in Entries, NEW n, NEW m, CountsMatch(e, n, m)
    PROVE  /\ n \in Nat /\ m \in Nat
           /\ r.kind \notin {"decoded", "raw_written"} => CountsMatch(Append(e, r), n, m)
           /\ r.kind = "decoded" /\ r.what \in BookFrames => CountsMatch(Append(e, r), n + 1, m)
           /\ r.kind = "decoded" /\ r.what \notin BookFrames => CountsMatch(Append(e, r), n, m)
           /\ r.kind = "raw_written" => CountsMatch(Append(e, r), n, m + 1)
<1>1. /\ r \in Books <=> r.kind = "decoded" /\ r.what \in BookFrames
      /\ r \in Written <=> r.kind = "raw_written"
  BY DEF Books, Written
<1>2. Cardinality(Marked(e, Books)) = n /\ Cardinality(Marked(e, Written)) = m BY DEF CountsMatch
<1>3. /\ n \in Nat
      /\ r \in Books => Cardinality(Marked(Append(e, r), Books)) = n + 1
      /\ r \notin Books => Cardinality(Marked(Append(e, r), Books)) = n
  BY <1>2, MarkedCounts
<1>4. /\ m \in Nat
      /\ r \in Written => Cardinality(Marked(Append(e, r), Written)) = m + 1
      /\ r \notin Written => Cardinality(Marked(Append(e, r), Written)) = m
  BY <1>2, MarkedCounts
<1> QED BY <1>1, <1>3, <1>4 DEF CountsMatch

\* A record's place among the rows' does not change.
LEMMA UpToStays ==
    ASSUME NEW e \in Seq(Entries), NEW r \in Entries, NEW i \in Marked(e, Written)
    PROVE  /\ UpTo(Append(e, r), i) = UpTo(e, i)
           /\ Cardinality(UpTo(e, i)) \in 1..Cardinality(Marked(e, Written))
           /\ i \in Marked(Append(e, r), Written) /\ Append(e, r)[i] = e[i]
<1>1. i \in 1..Len(e) /\ Append(e, r)[i] = e[i] /\ Len(e) \in Nat BY Appended DEF Marked
<1>2. /\ Marked(Append(e, r), Written) \subseteq Marked(e, Written) \cup {Len(e) + 1}
      /\ Marked(e, Written) \subseteq Marked(Append(e, r), Written)
  BY MarkedAppended
<1>3. UpTo(Append(e, r), i) = UpTo(e, i)
  <2>1. Len(e) + 1 > i BY <1>1
  <2> QED BY <1>1, <1>2, <2>1 DEF UpTo
<1>4. UpTo(e, i) \in SUBSET Marked(e, Written) /\ i \in UpTo(e, i) BY <1>1 DEF UpTo
<1>5. IsFiniteSet(Marked(e, Written)) /\ Cardinality(Marked(e, Written)) \in Nat
  <2>1. Marked(e, Written) \in SUBSET Marked(e, Written) OBVIOUS
  <2> QED BY <2>1, MarkedIs
<1>6. /\ IsFiniteSet(UpTo(e, i)) /\ Cardinality(UpTo(e, i)) \in Nat
      /\ Cardinality(UpTo(e, i)) <= Cardinality(Marked(e, Written))
  <2>1. Cardinality(UpTo(e, i)) <= Cardinality(Marked(e, Written)) BY <1>4, <1>5, FS_Subset
  <2> QED BY <1>4, <2>1, MarkedIs
<1>7. Cardinality(UpTo(e, i)) # 0 BY <1>4, <1>6, FS_EmptySet
<1> QED BY <1>1, <1>2, <1>3, <1>4, <1>5, <1>6, <1>7

LEMMA RowsStillFollow ==
    ASSUME NEW e \in Seq(Entries), NEW r \in Entries, NEW q \in Seq(Nat),
           Cardinality(Marked(e, Written)) = Len(q), RowsFollow(e, q)
    PROVE  /\ r.kind # "raw_written" => RowsFollow(Append(e, r), q)
           /\ r.kind = "raw_written" => RowsFollow(Append(e, r), Append(q, r.rid))
<1>1. r.rid \in Nat BY DEF Entries
<1>2. ASSUME NEW i \in Marked(e, Written)
      PROVE  /\ q[Cardinality(UpTo(Append(e, r), i))] = Append(e, r)[i].rid
             /\ Append(q, r.rid)[Cardinality(UpTo(Append(e, r), i))] = Append(e, r)[i].rid
  <2>1. q[Cardinality(UpTo(e, i))] = e[i].rid BY DEF RowsFollow
  <2>2. Cardinality(UpTo(e, i)) \in 1..Len(q) BY UpToStays
  <2>3. Append(q, r.rid)[Cardinality(UpTo(e, i))] = q[Cardinality(UpTo(e, i))]
    BY <1>1, <2>2, AppendProperties
  <2>4. UpTo(Append(e, r), i) = UpTo(e, i) /\ Append(e, r)[i] = e[i] BY UpToStays
  <2> QED BY <2>1, <2>3, <2>4
<1>3. CASE r.kind # "raw_written"
  <2>1. Marked(Append(e, r), Written) = Marked(e, Written)
    <3>1. r \notin Written BY <1>3 DEF Written
    <3> QED BY <3>1, MarkedAppended
  <2> QED BY <1>2, <1>3, <2>1 DEF RowsFollow
<1>4. CASE r.kind = "raw_written"
  <2>1. Marked(Append(e, r), Written) = Marked(e, Written) \cup {Len(e) + 1} /\ r \in Written
    <3>1. r \in Written BY <1>4 DEF Written
    <3> QED BY <3>1, MarkedAppended
  <2>2. UpTo(Append(e, r), Len(e) + 1) = Marked(Append(e, r), Written)
    <3>1. Marked(e, Written) \subseteq 1..Len(e) /\ Len(e) \in Nat BY DEF Marked
    <3> QED BY <2>1, <3>1 DEF UpTo
  <2>3. Cardinality(Marked(Append(e, r), Written)) = Len(q) + 1
    <3>1. r \in Written BY <2>1
    <3>2. Cardinality(Marked(Append(e, r), Written)) = Cardinality(Marked(e, Written)) + 1
      BY <3>1, MarkedCounts
    <3> QED BY <3>2
  <2>4. Append(q, r.rid)[Len(q) + 1] = r.rid /\ Append(e, r)[Len(e) + 1] = r
    BY <1>1, Appended
  <2>5. Append(q, r.rid)[Cardinality(UpTo(Append(e, r), Len(e) + 1))] = Append(e, r)[Len(e) + 1].rid
    BY <2>2, <2>3, <2>4
  <2>6. SUFFICES ASSUME NEW i \in Marked(Append(e, r), Written)
                 PROVE  Append(q, r.rid)[Cardinality(UpTo(Append(e, r), i))] = Append(e, r)[i].rid
    BY <1>4 DEF RowsFollow
  <2> QED BY <1>2, <2>1, <2>5, <2>6
<1> QED BY <1>3, <1>4

\* A record that is no frame of the book and no row; one that is; a row.
LEMMA LedgerNotes ==
    ASSUME NEW e \in Seq(Entries), NEW r \in Entries, NEW n, NEW q \in Seq(Nat), NEW found, NEW more,
           Ledger(e, n, q, found), \A x \in more : x \in found \/ x = "list" \/ Shows(x, r)
    PROVE  /\ r.kind \notin {"decoded", "raw_written"} => Ledger(Append(e, r), n, q, more)
           /\ r.kind = "decoded" /\ r.what \notin BookFrames => Ledger(Append(e, r), n, q, more)
           /\ r.kind = "decoded" /\ r.what \in BookFrames => Ledger(Append(e, r), n + 1, q, more)
           /\ r.kind = "raw_written" => Ledger(Append(e, r), n, Append(q, r.rid), more)
<1>1. IssuesShow(Append(e, r), more) BY IssuesStay DEF Ledger
<1>2. CountsMatch(e, n, Len(q)) /\ RowsFollow(e, q) /\ Cardinality(Marked(e, Written)) = Len(q)
  BY DEF Ledger, CountsMatch
<1>3. r.rid \in Nat /\ Len(Append(q, r.rid)) = Len(q) + 1
  <2>1. r.rid \in Nat BY DEF Entries
  <2> QED BY <2>1
<1>4. /\ r.kind # "raw_written" => RowsFollow(Append(e, r), q)
      /\ r.kind = "raw_written" => RowsFollow(Append(e, r), Append(q, r.rid))
  BY <1>2, RowsStillFollow
<1>5. /\ r.kind \notin {"decoded", "raw_written"} => CountsMatch(Append(e, r), n, Len(q))
      /\ r.kind = "decoded" /\ r.what \in BookFrames => CountsMatch(Append(e, r), n + 1, Len(q))
      /\ r.kind = "decoded" /\ r.what \notin BookFrames => CountsMatch(Append(e, r), n, Len(q))
      /\ r.kind = "raw_written" => CountsMatch(Append(e, r), n, Len(q) + 1)
  BY <1>2, CountsGrow
<1> QED BY <1>1, <1>3, <1>4, <1>5 DEF Ledger

-----------------------------------------------------------------------------
\* A journal that is not finished.
Open(e, n, q, found) == e \in Seq(Entries) /\ Ledger(e, n, q, found) /\ NoEnd(e)

LEMMA OpenNotes ==
    ASSUME NEW e, NEW r \in Entries, NEW n, NEW q \in Seq(Nat), NEW found, NEW more,
           Open(e, n, q, found), \A x \in more : x \in found \/ x = "list" \/ Shows(x, r),
           r.kind # "terminal"
    PROVE  /\ r.kind \notin {"decoded", "raw_written"} => Open(Append(e, r), n, q, more)
           /\ r.kind = "decoded" /\ r.what \notin BookFrames => Open(Append(e, r), n, q, more)
           /\ r.kind = "decoded" /\ r.what \in BookFrames => Open(Append(e, r), n + 1, q, more)
           /\ r.kind = "raw_written" => Open(Append(e, r), n, Append(q, r.rid), more)
<1>1. e \in Seq(Entries) /\ Ledger(e, n, q, found) /\ NoEnd(e) BY DEF Open
<1>2. Append(e, r) \in Seq(Entries) /\ NoEnd(Append(e, r))
  <2>1. \A i \in 1..Len(e) : e[i].kind # "terminal" BY <1>1, Appended DEF NoEnd
  <2> QED BY <1>1, <2>1, Appended DEF NoEnd
<1>3. /\ r.kind \notin {"decoded", "raw_written"} => Ledger(Append(e, r), n, q, more)
      /\ r.kind = "decoded" /\ r.what \notin BookFrames => Ledger(Append(e, r), n, q, more)
      /\ r.kind = "decoded" /\ r.what \in BookFrames => Ledger(Append(e, r), n + 1, q, more)
      /\ r.kind = "raw_written" => Ledger(Append(e, r), n, Append(q, r.rid), more)
  BY <1>1, LedgerNotes
<1> QED BY <1>2, <1>3 DEF Open

\* The records of a frame, one by one: its receipt a, and decoding d; e, k and s are those of
\* a frame that is no JSON, of an answer to the subscription, and of a snapshot.
FrameParts(f, a, d, e, k, s) ==
    /\ \A r \in {a, d, e, k, s} : r.conn = connection
    /\ a.kind = "receive" /\ (a.good <=> f # "skewed")
    /\ d.kind = "decoded" /\ d.rid = NextSeq /\ d.what = f
    /\ e.kind = "decode_error"
    /\ k.kind = "ack" /\ k.rid = NextSeq /\ (k.good <=> f = "ack")
    /\ s.kind = "snapshot" /\ s.rid = NextSeq /\ s.what = f
FrameAdds(f, got, a, d, e, k, s) ==
    /\ f = "list" => got = Append(events, a)
    /\ f = "garbled" => got = Append(Append(events, a), e)
    /\ f \in {"ack", "nack"} => got = Append(Append(Append(events, a), d), k)
    /\ f = "snapshot" => got = Append(Append(Append(events, a), d), s)
    /\ f \in {"delta", "stray", "pong", "skewed"} => got = Append(Append(events, a), d)

LEMMA FrameIs ==
    ASSUME events \in Seq(Entries), connection \in Nat, NEW f \in Frames
    PROVE  /\ FrameRecords(f) \in Seq(Entries)
           /\ \E a, d, e, k, s \in Entries :
                /\ FrameParts(f, a, d, e, k, s)
                /\ FrameAdds(f, events \o FrameRecords(f), a, d, e, k, s)
<1> DEFINE a == Record("receive", 0, f, f # "skewed")
           d == Record("decoded", NextSeq, f, TRUE)
           e == Record("decode_error", NextSeq, f, TRUE)
           k == Record("ack", NextSeq, f, f = "ack")
           s == Record("snapshot", NextSeq, f, TRUE)
           t == FrameRecords(f)
<1>1. NextSeq \in Nat BY AppendProperties DEF NextSeq
<1>2. ASSUME NEW kind \in Kinds, NEW rid \in Nat, NEW good \in BOOLEAN
      PROVE  /\ Record(kind, rid, f, good) \in Entries
             /\ Record(kind, rid, f, good) =
                    [kind |-> kind, conn |-> connection, rid |-> rid, what |-> f, good |-> good]
  BY DEF Record, Entries
<1>3. /\ a \in Entries /\ d \in Entries /\ e \in Entries /\ k \in Entries /\ s \in Entries
  <2>1. (f = "ack") \in BOOLEAN /\ (f # "skewed") \in BOOLEAN /\ 0 \in Nat OBVIOUS
  <2>2. {"receive", "decoded", "decode_error", "ack", "snapshot"} \subseteq Kinds BY DEF Kinds
  <2> QED BY <1>1, <1>2, <2>1, <2>2
<1>4. FrameParts(f, a, d, e, k, s)
  <2>1. /\ a.conn = connection /\ d.conn = connection /\ e.conn = connection
        /\ k.conn = connection /\ s.conn = connection
        /\ a.kind = "receive" /\ e.kind = "decode_error"
    BY DEF Record
  <2>2. /\ d.kind = "decoded" /\ d.rid = NextSeq /\ d.what = f
        /\ s.kind = "snapshot" /\ s.rid = NextSeq /\ s.what = f
        /\ k.kind = "ack" /\ k.rid = NextSeq
    BY DEF Record
  <2>3. a.good = (f # "skewed") /\ k.good = (f = "ack") BY DEF Record
  <2>4. (a.good <=> f # "skewed") /\ (k.good <=> f = "ack") BY <2>3
  <2> HIDE DEF a, d, e, k, s
  <2> QED BY <2>1, <2>2, <2>4 DEF FrameParts
<1>5. /\ f = "list" => t = <<a>> \o <<>>
      /\ f = "garbled" => t = <<a>> \o <<e>>
      /\ f \in {"ack", "nack"} => t = <<a>> \o <<d, k>>
      /\ f = "snapshot" => t = <<a>> \o <<d, s>>
      /\ f \in {"delta", "stray", "pong", "skewed"} => t = <<a>> \o <<d>>
  BY DEF FrameRecords
<1>6. f \in {"list", "garbled", "ack", "nack", "snapshot", "delta", "stray", "pong", "skewed"}
  BY DEF Frames
<1> HIDE DEF a, d, e, k, s, t
<1>7. /\ <<a>> \o <<>> \in Seq(Entries) /\ events \o (<<a>> \o <<>>) = Append(events, a)
      /\ <<a>> \o <<e>> \in Seq(Entries) /\ events \o (<<a>> \o <<e>>) = Append(Append(events, a), e)
  BY ONLY <1>3, events \in Seq(Entries), ConcatFrame
<1>8. /\ <<a>> \o <<d>> \in Seq(Entries) /\ events \o (<<a>> \o <<d>>) = Append(Append(events, a), d)
      /\ <<a>> \o <<d, k>> \in Seq(Entries)
      /\ events \o (<<a>> \o <<d, k>>) = Append(Append(Append(events, a), d), k)
  BY ONLY <1>3, events \in Seq(Entries), ConcatFrame
<1>9. /\ <<a>> \o <<d, s>> \in Seq(Entries)
       /\ events \o (<<a>> \o <<d, s>>) = Append(Append(Append(events, a), d), s)
  BY ONLY <1>3, events \in Seq(Entries), ConcatFrame
<1>10. t \in Seq(Entries) /\ FrameAdds(f, events \o t, a, d, e, k, s)
  <2>1. CASE f = "list" BY <1>5, <1>7, <2>1 DEF FrameAdds
  <2>2. CASE f = "garbled" BY <1>5, <1>7, <2>2 DEF FrameAdds
  <2>3. CASE f \in {"ack", "nack"} BY <1>5, <1>8, <2>3 DEF FrameAdds
  <2>4. CASE f = "snapshot" BY <1>5, <1>9, <2>4 DEF FrameAdds
  <2>5. CASE f \in {"delta", "stray", "pong", "skewed"} BY <1>5, <1>8, <2>5 DEF FrameAdds
  <2> QED BY <1>6, <2>1, <2>2, <2>3, <2>4, <2>5
<1> QED BY <1>3, <1>4, <1>10 DEF t

\* What received() and decoded() count, and the issues they see.
LEMMA FrameOpens ==
    ASSUME Open(events, received, rows, issues), rows \in Seq(Nat), connection \in Nat,
           NEW f \in Frames
    PROVE  Open(events \o FrameRecords(f), received + (IF f \in BookFrames THEN 1 ELSE 0), rows,
                issues \cup IssuesOf(f))
<1> DEFINE more == issues \cup IssuesOf(f)
           got == events \o FrameRecords(f)
           count == received + (IF f \in BookFrames THEN 1 ELSE 0)
<1> SUFFICES Open(got, count, rows, more)
  OBVIOUS
<1>1. events \in Seq(Entries) BY DEF Open
<1>2. PICK a, d, e, k, s \in Entries :
        FrameParts(f, a, d, e, k, s) /\ FrameAdds(f, got, a, d, e, k, s)
  BY <1>1, FrameIs
<1>3. more = issues \cup IssuesOf(f) OBVIOUS
<1>4. /\ a.kind = "receive" /\ (a.good <=> f # "skewed")
      /\ d.kind = "decoded" /\ d.what = f
      /\ e.kind = "decode_error"
      /\ k.kind = "ack" /\ (k.good <=> f = "ack")
      /\ s.kind = "snapshot"
  BY <1>2 DEF FrameParts
<1>5. f \in {"list", "garbled", "ack", "nack", "snapshot", "delta", "stray", "pong", "skewed"}
  BY DEF Frames
<1>6. /\ received \in Nat
      /\ f \in {"delta", "stray", "snapshot"} => count = received + 1 /\ f \in BookFrames
      /\ f \in {"list", "garbled", "ack", "nack", "pong", "skewed"} =>
            count = received /\ f \notin BookFrames
  <2>1. received \in Nat BY <1>1, <1>2, CountsGrow DEF Open, Ledger
  <2> QED BY <2>1 DEF BookFrames
<1> HIDE DEF got, more, count
<1>7. /\ Open(Append(events, a), received, rows, issues)
      /\ f \in {"list", "skewed"} => Open(Append(events, a), received, rows, more)
  <2>1. f \in {"list", "skewed"} =>
            \A x \in more : x \in issues \/ x = "list" \/ Shows(x, a)
    BY <1>3, <1>4 DEF IssuesOf, Shows
  <2>2. Open(Append(events, a), received, rows, issues)
    BY <1>4, OpenNotes
  <2> QED BY <1>4, <2>1, <2>2, OpenNotes
<1>8. CASE f = "list"
  BY <1>2, <1>6, <1>7, <1>8 DEF FrameAdds
<1>9. CASE f = "garbled"
  <2>1. \A x \in more : x \in issues \/ x = "list" \/ Shows(x, e)
    BY <1>3, <1>4, <1>9 DEF IssuesOf, Shows
  <2>2. Open(Append(Append(events, a), e), received, rows, more)
    BY <1>4, <1>7, <2>1, OpenNotes
  <2> QED BY <1>2, <1>6, <1>9, <2>2 DEF FrameAdds
<1>10. CASE f \in {"ack", "nack"}
  <2>1. Open(Append(Append(events, a), d), received, rows, issues)
    BY <1>4, <1>6, <1>7, <1>10, OpenNotes
  <2>2. \A x \in more : x \in issues \/ x = "list" \/ Shows(x, k)
    BY <1>3, <1>4, <1>10 DEF IssuesOf, Shows
  <2>3. Open(Append(Append(Append(events, a), d), k), received, rows, more)
    BY <1>4, <2>1, <2>2, OpenNotes
  <2> QED BY <1>2, <1>6, <1>10, <2>3 DEF FrameAdds
<1>11. CASE f = "snapshot"
  <2>1. Open(Append(Append(events, a), d), received + 1, rows, issues)
    BY <1>4, <1>6, <1>7, <1>11, OpenNotes
  <2>2. \A x \in more : x \in issues \/ x = "list" \/ Shows(x, s)
    BY <1>3, <1>11 DEF IssuesOf
  <2>3. Open(Append(Append(Append(events, a), d), s), received + 1, rows, more)
    BY <1>4, <2>1, <2>2, OpenNotes
  <2> QED BY <1>2, <1>6, <1>11, <2>3 DEF FrameAdds
<1>12. CASE f \in {"delta", "stray"}
  <2>1. \A x \in more : x \in issues \/ x = "list" \/ Shows(x, d)
    BY <1>3, <1>4, <1>12 DEF IssuesOf, Shows
  <2>2. Open(Append(Append(events, a), d), received + 1, rows, more)
    BY <1>4, <1>6, <1>7, <1>12, <2>1, OpenNotes
  <2> QED BY <1>2, <1>6, <1>12, <2>2 DEF FrameAdds
<1>13. CASE f \in {"pong", "skewed"}
  <2>1. Open(Append(events, a), received, rows, more)
    <3>1. f = "pong" => more = issues BY <1>3 DEF IssuesOf
    <3> QED BY <1>7, <1>13, <3>1
  <2>2. Open(Append(Append(events, a), d), received, rows, more)
    BY <1>4, <1>6, <1>13, <2>1, OpenNotes
  <2> QED BY <1>2, <1>6, <1>13, <2>2 DEF FrameAdds
<1> QED BY <1>5, <1>8, <1>9, <1>10, <1>11, <1>12, <1>13

-----------------------------------------------------------------------------
(* A session without an issue.                                               *)

\* What has been seen stays so.
LEMMA SightsStay ==
    ASSUME NEW X, NEW e \in Seq(X), NEW r \in X, NEW n \in 0..Len(e), NEW rid \in Nat
    PROVE  /\ NoRowAt(e, rid, n) => NoRowAt(Append(e, r), rid, n)
           /\ AckAt(e, n) => AckAt(Append(e, r), n) /\ AckAt(Append(e, r), Len(e) + 1)
           /\ AnchorAt(e, n) => AnchorAt(Append(e, r), n) /\ AnchorAt(Append(e, r), Len(e) + 1)
           /\ rid + 1 <= Len(e) /\ BookAt(e, rid) => BookAt(Append(e, r), rid)
           /\ NoRowAt(e, rid, Len(e)) /\ (r.kind = "raw_written" => r.rid # rid)
                => NoRowAt(Append(e, r), rid, Len(e) + 1)
           /\ r.kind = "ack" => AckAt(Append(e, r), Len(e) + 1)
           /\ r.kind = "decoded" /\ r.what = "snapshot" => AnchorAt(Append(e, r), Len(e) + 1)
<1>1. /\ Len(e) \in Nat /\ \A i \in 1..Len(e) : Append(e, r)[i] = e[i]
      /\ Append(e, r)[Len(e) + 1] = r
  BY Appended
<1>2. Len(e) + 1 \in 1..(Len(e) + 1) /\ 1..n \subseteq 1..Len(e) /\ 1..n \subseteq 1..(Len(e) + 1)
  BY <1>1
<1>3. NoRowAt(e, rid, n) => NoRowAt(Append(e, r), rid, n) BY <1>1, <1>2 DEF NoRowAt
<1>4. AckAt(e, n) => AckAt(Append(e, r), n) /\ AckAt(Append(e, r), Len(e) + 1)
  BY <1>1, <1>2 DEF AckAt
<1>5. AnchorAt(e, n) => AnchorAt(Append(e, r), n) /\ AnchorAt(Append(e, r), Len(e) + 1)
  BY <1>1, <1>2 DEF AnchorAt
<1>6. rid + 1 <= Len(e) /\ BookAt(e, rid) => BookAt(Append(e, r), rid)
  <2>1. rid + 1 <= Len(e) => rid + 1 \in 1..Len(e) BY <1>1
  <2> QED BY <1>1, <2>1 DEF BookAt
<1>7. NoRowAt(e, rid, Len(e)) /\ (r.kind = "raw_written" => r.rid # rid)
        => NoRowAt(Append(e, r), rid, Len(e) + 1)
  <2>1. \A j \in 1..(Len(e) + 1) : j \in 1..Len(e) \/ j = Len(e) + 1 BY <1>1
  <2> QED BY <1>1, <2>1 DEF NoRowAt
<1>8. r.kind = "ack" => AckAt(Append(e, r), Len(e) + 1) BY <1>1, <1>2 DEF AckAt
<1>9. r.kind = "decoded" /\ r.what = "snapshot" => AnchorAt(Append(e, r), Len(e) + 1)
  BY <1>1, <1>2 DEF AnchorAt
<1> QED BY <1>3, <1>4, <1>5, <1>6, <1>7, <1>8, <1>9

LEMMA CoherentAppended ==
    ASSUME NEW e \in Seq(Entries), NEW r \in Entries, Coherent(e), InPlace(Append(e, r), Len(e) + 1)
    PROVE  Coherent(Append(e, r))
<1>1. Append(e, r) \in Seq(Entries) /\ Len(Append(e, r)) = Len(e) + 1 /\ Len(e) \in Nat
  BY Appended
<1>2. SUFFICES ASSUME NEW i \in 1..Len(e) PROVE InPlace(Append(e, r), i)
  <2>1. \A i \in 1..(Len(e) + 1) : i \in 1..Len(e) \/ i = Len(e) + 1 BY <1>1
  <2> QED BY <1>1, <2>1 DEF Coherent
<1>3. /\ InPlace(e, i) /\ i \in 1..Len(e) /\ Append(e, r)[i] = e[i] /\ e[i] \in Entries
      /\ i > 1 => Append(e, r)[i - 1] = e[i - 1]
  <2>1. i > 1 => i - 1 \in 1..Len(e) BY <1>1
  <2>2. e[i] \in Entries BY ElementOfSeq
  <2> QED BY <1>1, <2>1, <2>2, Appended DEF Coherent
<1>4. IsRow(e, i) => IsRow(Append(e, r), i)
  <2> SUFFICES ASSUME IsRow(e, i) PROVE IsRow(Append(e, r), i) OBVIOUS
  <2>1. e[i].rid \in Nat /\ i - 1 \in 0..Len(e) BY <1>1, <1>3 DEF Entries
  <2>2. e[i].rid + 1 < i /\ e[i].rid + 1 \in 0..Len(e) /\ e[i].rid + 1 <= Len(e)
    BY <1>1, <1>3, <2>1 DEF IsRow
  <2>3. BookAt(e, e[i].rid) => BookAt(Append(e, r), e[i].rid)
    BY <2>1, <2>2, SightsStay
  <2>4. AckAt(e, i - 1) => AckAt(Append(e, r), i - 1)
    BY <2>1, <2>2, SightsStay
  <2>5. AnchorAt(e, e[i].rid + 1) => AnchorAt(Append(e, r), e[i].rid + 1)
    BY <2>1, <2>2, SightsStay
  <2>6. NoRowAt(e, e[i].rid, i - 1) => NoRowAt(Append(e, r), e[i].rid, i - 1)
    BY <2>1, <2>2, SightsStay
  <2> QED BY <1>3, <2>2, <2>3, <2>4, <2>5, <2>6 DEF IsRow
<1> QED
  <2> DEFINE p == Append(e, r)
  <2>1. p[i] = e[i] /\ InPlace(e, i) /\ (i > 1 => p[i - 1] = e[i - 1]) /\ (IsRow(e, i) => IsRow(p, i))
    BY <1>3, <1>4
  <2>2. i \in Nat BY <1>1
  <2> HIDE DEF p
  <2>3. InPlace(p, i) BY <2>1, <2>2 DEF InPlace
  <2> QED BY <2>3 DEF p

LEMMA WaitsStay ==
    ASSUME NEW e \in Seq(Entries), NEW r \in Entries, NEW p \in Receipts, Waits(e, p),
           r.kind = "raw_written" => r.rid # p.rid
    PROVE  Waits(Append(e, r), p)
<1>1. p.rid \in Nat /\ Len(e) \in Nat /\ Len(Append(e, r)) = Len(e) + 1 BY Appended DEF Receipts
<1>2. p.rid + 1 \in 1..Len(e) /\ BookAt(e, p.rid) /\ NoRowAt(e, p.rid, Len(e))
      /\ (p.anchored => AnchorAt(e, p.rid + 1))
  BY DEF Waits
<1>3. p.rid + 1 \in 1..(Len(e) + 1) /\ p.rid + 1 \in 0..Len(e) /\ p.rid + 1 <= Len(e)
  BY <1>1, <1>2
<1>4. BookAt(Append(e, r), p.rid) BY <1>1, <1>2, <1>3, SightsStay
<1>5. NoRowAt(Append(e, r), p.rid, Len(e) + 1)
  <2>1. Len(e) \in 0..Len(e) BY <1>1
  <2> QED BY <1>1, <1>2, <2>1, SightsStay
<1>6. p.anchored => AnchorAt(Append(e, r), p.rid + 1) BY <1>1, <1>2, <1>3, SightsStay
<1> QED BY <1>1, <1>3, <1>4, <1>5, <1>6 DEF Waits

LEMMA StandingAppended ==
    ASSUME NEW e \in Seq(Entries), NEW r \in Entries, NEW kept \in Seq(Receipts),
           NEW acked, NEW anchored, NEW ackedNow, NEW anchoredNow,
           Standing(e, kept, acked, anchored), InPlace(Append(e, r), Len(e) + 1),
           r.kind = "raw_written" => \A i \in 1..Len(kept) : kept[i].rid # r.rid,
           ackedNow => acked \/ r.kind = "ack",
           anchoredNow => anchored \/ (r.kind = "decoded" /\ r.what = "snapshot")
    PROVE  /\ Append(e, r) \in Seq(Entries) /\ Len(Append(e, r)) = Len(e) + 1
           /\ Append(e, r)[Len(e) + 1] = r
           /\ Standing(Append(e, r), kept, ackedNow, anchoredNow)
<1>1. /\ Append(e, r) \in Seq(Entries) /\ Len(Append(e, r)) = Len(e) + 1 /\ Len(e) \in Nat
      /\ Append(e, r)[Len(e) + 1] = r /\ Len(e) \in 0..Len(e)
  BY Appended
<1>2. Coherent(Append(e, r)) BY CoherentAppended DEF Standing
<1>3. ASSUME NEW i \in 1..Len(kept) PROVE Waits(Append(e, r), kept[i])
  <2>1. kept[i] \in Receipts /\ Waits(e, kept[i]) BY ElementOfSeq DEF Standing
  <2> QED BY <2>1, WaitsStay
<1>4. ackedNow => AckAt(Append(e, r), Len(e) + 1)
  <2>1. 0 \in Nat OBVIOUS
  <2> QED BY <1>1, <2>1, SightsStay DEF Standing
<1>5. anchoredNow => AnchorAt(Append(e, r), Len(e) + 1)
  <2>1. 0 \in Nat OBVIOUS
  <2> QED BY <1>1, <2>1, SightsStay DEF Standing
<1>6. Len(Append(e, r)) > 1 BY <1>1 DEF Standing
<1> QED BY <1>1, <1>2, <1>3, <1>4, <1>5, <1>6 DEF Standing

\* Records that fit: a note or a receipt, a decoding, an answer or a snapshot, a row.
LEMMA NoteFits ==
    ASSUME NEW e \in Seq(Entries), NEW r \in Entries, Len(e) > 1, r.conn = 1,
           r.kind \in {"connection_end", "terminal"} \/ (r.kind = "receive" /\ r.good)
    PROVE  InPlace(Append(e, r), Len(e) + 1)
<1>1. Append(e, r)[Len(e) + 1] = r /\ Len(e) \in Nat BY Appended
<1>2. Len(e) + 1 # 1 /\ Len(e) + 1 # 2 BY <1>1
<1> QED BY <1>1, <1>2 DEF InPlace

LEMMA DecodedFits ==
    ASSUME NEW e \in Seq(Entries), NEW r \in Entries, Len(e) > 1, r.conn = 1,
           r.kind = "decoded", r.rid = Len(e), r.what # "stray", e[Len(e)].kind = "receive"
    PROVE  InPlace(Append(e, r), Len(e) + 1)
<1>1. /\ Append(e, r)[Len(e) + 1] = r /\ Len(e) \in Nat
      /\ Append(e, r)[Len(e)] = e[Len(e)]
  BY Appended
<1> DEFINE p == Append(e, r)
           n == Len(e) + 1
<1>2. p[n] = r /\ n \in Nat /\ n > 2 /\ p[n - 1].kind = "receive" /\ r.rid = n - 1 BY <1>1
<1> HIDE DEF p, n
<1>3. InPlace(p, n) BY <1>2 DEF InPlace
<1> QED BY <1>3 DEF p, n

LEMMA AnswerFits ==
    ASSUME NEW e \in Seq(Entries), NEW r \in Entries, Len(e) > 1, r.conn = 1,
           r.kind \in {"ack", "snapshot"}, r.rid = Len(e) - 1, e[Len(e)].kind = "decoded",
           r.kind = "ack" => r.good, r.kind = "snapshot" => r.what = "snapshot"
    PROVE  InPlace(Append(e, r), Len(e) + 1)
<1>1. /\ Append(e, r)[Len(e) + 1] = r /\ Len(e) \in Nat
      /\ Append(e, r)[Len(e)] = e[Len(e)]
  BY Appended
<1> DEFINE p == Append(e, r)
           n == Len(e) + 1
<1>2. p[n] = r /\ n \in Nat /\ n > 2 /\ p[n - 1].kind = "decoded" /\ r.rid = n - 2 BY <1>1
<1> HIDE DEF p, n
<1>3. InPlace(p, n) BY <1>2 DEF InPlace
<1> QED BY <1>3 DEF p, n

LEMMA RowFits ==
    ASSUME NEW e \in Seq(Entries), NEW r \in Entries, NEW p \in Receipts, Len(e) > 1, r.conn = 1,
           r.kind = "raw_written", r.rid = p.rid, r.good,
           Waits(e, p), p.anchored, AckAt(e, Len(e))
    PROVE  InPlace(Append(e, r), Len(e) + 1)
<1>1. /\ Append(e, r)[Len(e) + 1] = r /\ Len(e) \in Nat /\ p.rid \in Nat
  BY Appended DEF Receipts
<1>2. Len(e) + 1 # 1 /\ Len(e) + 1 # 2 /\ Len(e) + 1 - 1 = Len(e) /\ Len(e) \in 0..Len(e) BY <1>1
<1>3. p.rid + 1 \in 0..Len(e) /\ p.rid + 1 <= Len(e) /\ p.rid + 1 < Len(e) + 1
  BY <1>1 DEF Waits
<1>4. BookAt(Append(e, r), p.rid) BY <1>1, <1>3, SightsStay DEF Waits
<1>5. AnchorAt(Append(e, r), p.rid + 1) BY <1>1, <1>3, SightsStay DEF Waits
<1>6. AckAt(Append(e, r), Len(e)) BY <1>1, <1>2, SightsStay
<1>7. NoRowAt(Append(e, r), p.rid, Len(e)) BY <1>1, <1>2, SightsStay DEF Waits
<1>8. IsRow(Append(e, r), Len(e) + 1)
  BY <1>1, <1>2, <1>3, <1>4, <1>5, <1>6, <1>7 DEF IsRow
<1> QED BY <1>1, <1>2, <1>8 DEF InPlace

\* A row's frame was decoded before.
LEMMA RowsAreEarlier ==
    ASSUME NEW e \in Seq(Entries), Coherent(e), NEW rid \in Nat, rid >= Len(e)
    PROVE  NoRowAt(e, rid, Len(e))
<1> SUFFICES ASSUME NEW j \in 1..Len(e), e[j].kind = "raw_written" PROVE e[j].rid # rid
  BY DEF NoRowAt
<1>1. e[j].rid \in Nat /\ Len(e) \in Nat
  <2>1. e[j] \in Entries BY ElementOfSeq
  <2> QED BY <2>1 DEF Entries
<1>2. e[j].rid + 1 < j BY DEF Coherent, InPlace, IsRow
<1> QED BY <1>1, <1>2

\* A frame that raises no issue: what it changes in the object the journal shows.
LEMMA FrameStands ==
    ASSUME events \in Seq(Entries), connection = 1, anchor \in BOOLEAN, NEW kept \in Seq(Receipts),
           Standing(events, kept, ack, anchor), NEW f \in Frames, IssuesOf(f) = {}
    PROVE  LET got == events \o FrameRecords(f)
           IN  /\ got \in Seq(Entries)
               /\ Standing(got, kept, AckAfter(f), AnchorAfter(f))
               /\ f \in BookFrames => Receipt(f) \in Receipts /\ Waits(got, Receipt(f))
<1> DEFINE n == Len(events)
           got == events \o FrameRecords(f)
           p == Receipt(f)
<1>1. PICK a, d, e, k, s \in Entries :
        FrameParts(f, a, d, e, k, s) /\ FrameAdds(f, got, a, d, e, k, s)
  <2>1. connection \in Nat OBVIOUS
  <2> QED BY <2>1, FrameIs
<1>2. f \in {"ack", "snapshot", "delta", "pong"}
  BY DEF Frames, IssuesOf
<1>3. /\ a.kind = "receive" /\ a.good /\ a.conn = 1
      /\ d.kind = "decoded" /\ d.rid = n + 1 /\ d.what = f /\ d.conn = 1
      /\ k.kind = "ack" /\ k.rid = n + 1 /\ k.conn = 1 /\ (f = "ack" => k.good)
      /\ s.kind = "snapshot" /\ s.rid = n + 1 /\ s.what = f /\ s.conn = 1
  BY <1>1, <1>2 DEF FrameParts, NextSeq
<1>4. n \in Nat /\ n > 1 /\ Coherent(events) BY DEF Standing
<1>5. /\ f \in BookFrames => p \in Receipts
      /\ p.rid = n + 1 /\ p.anchored = AnchorAfter(f)
      /\ (f = "snapshot" \/ (f # "snapshot" /\ (AnchorAfter(f) => anchor)))
  <2>1. Receipt(f).rid = n + 1 /\ Receipt(f).anchored = AnchorAfter(f) BY DEF Receipt, NextSeq
  <2>2. AnchorAfter(f) \in BOOLEAN
    <3>1. (f = "snapshot") \in BOOLEAN OBVIOUS
    <3> QED BY <3>1 DEF AnchorAfter
  <2>3. f \in BookFrames => p \in Receipts
    <3>1. NextSeq \in Nat /\ connection \in Nat BY <1>4 DEF NextSeq
    <3> QED BY <2>2, <3>1 DEF Receipt, Receipts
  <2>4. f # "snapshot" => (AnchorAfter(f) => anchor)
    BY <1>2 DEF AnchorAfter
  <2> QED BY <2>1, <2>3, <2>4
<1> HIDE DEF n, got, p
<1> DEFINE e1 == Append(events, a)
           e2 == Append(e1, d)
<1>6. /\ e1 \in Seq(Entries) /\ Len(e1) = n + 1 /\ e1[n + 1] = a
      /\ Standing(e1, kept, ack, anchor)
  <2>1. InPlace(Append(events, a), Len(events) + 1)
    <3>1. Len(events) > 1 BY <1>4 DEF n
    <3> QED BY <1>3, <3>1, NoteFits
  <2> QED BY <1>3, <2>1, StandingAppended DEF n
<1> HIDE DEF e1
<1>7. /\ e2 \in Seq(Entries) /\ Len(e2) = n + 2 /\ e2[n + 2] = d
      /\ Standing(e2, kept, ack, AnchorAfter(f))
  <2>1. InPlace(Append(e1, d), Len(e1) + 1)
    <3>1. Len(e1) > 1 /\ d.rid = Len(e1) /\ d.what # "stray" /\ e1[Len(e1)].kind = "receive"
      BY <1>2, <1>3, <1>4, <1>6
    <3> QED BY <1>3, <1>6, <3>1, DecodedFits
  <2>2. AnchorAfter(f) => anchor \/ (d.kind = "decoded" /\ d.what = "snapshot")
    BY <1>3, <1>5
  <2>3. /\ Append(e1, d) \in Seq(Entries) /\ Len(Append(e1, d)) = Len(e1) + 1
        /\ Append(e1, d)[Len(e1) + 1] = d
        /\ Standing(Append(e1, d), kept, ack, AnchorAfter(f))
    <3>1. d.kind # "raw_written" BY <1>3
    <3> QED BY <1>6, <2>1, <2>2, <3>1, StandingAppended
  <2>4. Len(e1) + 1 = n + 2 BY <1>4, <1>6
  <2> QED BY <2>3, <2>4
<1>8. f \in BookFrames => Waits(e2, p)
  <2> SUFFICES ASSUME f \in BookFrames PROVE Waits(e2, p) OBVIOUS
  <2>1. NoRowAt(e1, n + 1, n + 1)
    <3>1. n + 1 \in Nat /\ n + 1 >= Len(e1) BY <1>4, <1>6
    <3>2. Coherent(e1) BY <1>6 DEF Standing
    <3> QED BY <1>6, <3>1, <3>2, RowsAreEarlier
  <2>2. NoRowAt(e2, n + 1, n + 2)
    <3>1. n + 1 \in Nat /\ n + 1 \in 0..Len(e1) /\ Len(e1) + 1 = n + 2 /\ d.kind # "raw_written"
      BY <1>3, <1>4, <1>6
    <3> QED BY <1>6, <2>1, <3>1, SightsStay
  <2>3. n + 1 + 1 = n + 2 /\ n + 2 \in 1..(n + 2) BY <1>4
  <2>4. BookAt(e2, n + 1) BY <1>3, <1>7, <2>3 DEF BookAt
  <2>5. p.anchored => AnchorAt(e2, n + 2) BY <1>5, <1>7 DEF Standing
  <2> QED BY <1>5, <1>7, <2>2, <2>3, <2>4, <2>5 DEF Waits
<1> HIDE DEF e2
<1>9. CASE f \in {"delta", "pong"}
  <2>1. got = e2 /\ AckAfter(f) = ack BY <1>1, <1>9 DEF FrameAdds, AckAfter, e1, e2
  <2> QED BY <1>5, <1>7, <1>8, <2>1 DEF got, p
<1>10. CASE f = "ack"
  <2>1. got = Append(e2, k) BY <1>1, <1>10 DEF FrameAdds, e1, e2
  <2>2. InPlace(Append(e2, k), Len(e2) + 1)
    <3>1. Len(e2) > 1 /\ k.rid = Len(e2) - 1 /\ e2[Len(e2)].kind = "decoded" /\ k.good
      BY <1>3, <1>4, <1>7, <1>10
    <3> QED BY <1>3, <1>7, <3>1, AnswerFits
  <2>3. got \in Seq(Entries) /\ Standing(got, kept, AckAfter(f), AnchorAfter(f))
    <3>1. k.kind # "raw_written" BY <1>3
    <3> QED BY <1>3, <1>7, <2>1, <2>2, <3>1, StandingAppended
  <2> QED BY <1>10, <2>3 DEF BookFrames, got
<1>11. CASE f = "snapshot"
  <2>1. got = Append(e2, s) /\ AckAfter(f) = ack BY <1>1, <1>11 DEF FrameAdds, AckAfter, e1, e2
  <2>2. InPlace(Append(e2, s), Len(e2) + 1)
    <3>1. Len(e2) > 1 /\ s.rid = Len(e2) - 1 /\ e2[Len(e2)].kind = "decoded"
      BY <1>3, <1>4, <1>7
    <3> QED BY <1>3, <1>7, <1>11, <3>1, AnswerFits
  <2>3. got \in Seq(Entries) /\ Standing(got, kept, AckAfter(f), AnchorAfter(f))
    <3>1. s.kind # "raw_written" BY <1>3
    <3> QED BY <1>7, <2>1, <2>2, <3>1, StandingAppended
  <2>4. f \in BookFrames BY <1>11 DEF BookFrames
  <2>5. p \in Receipts /\ Waits(e2, p) /\ s.kind # "raw_written" BY <1>3, <1>5, <1>8, <2>4
  <2>6. Waits(got, p) BY <1>7, <2>1, <2>5, WaitsStay
  <2> QED BY <2>3, <2>5, <2>6 DEF got, p
<1> QED BY <1>2, <1>9, <1>10, <1>11

-----------------------------------------------------------------------------
(* The steps of the session.                                                 *)

\* Until it is finished a session without an error has told its journal everything.
LEMMA EmitsWhole ==
    ASSUME AdmissionInv, ~Finished, NEW records \in Seq(Entries), Emit(records)
    PROVE  /\ events' \in Seq(Entries)
           /\ error' # "writer_close_timeout"
           /\ Intact' => /\ Intact /\ events' = events \o records
                         /\ Open(events, received, rows, issues)
<1>1. events \in Seq(Entries) /\ error # "writer_close_timeout"
  BY DEF AdmissionInv, JournalTypeOK
<1>2. events \o records \in Seq(Entries) BY <1>1, ConcatProperties
<1>3. Intact => Open(events, received, rows, issues)
  BY <1>1 DEF AdmissionInv, EndIsLast, Open
<1> QED BY <1>1, <1>2, <1>3 DEF Emit, Intact

\* A step before the end keeps the invariant if what it notes does.
LEMMA StillOpen ==
    ASSUME AdmissionInv, ~Finished, ~Finished', UNCHANGED <<draft, manifest>>,
           JournalTypeOK', error' # "writer_close_timeout",
           Intact' => Open(events', received', rows', issues'),
           Intact' /\ issues' = {} => CoherentInv'
    PROVE  AdmissionInv'
<1>1. DraftInv' BY DEF AdmissionInv, DraftInv, JournalTypeOK
<1>2. Intact' => (Ledger(events, received, rows, issues) /\ EndIsLast)'
  BY DEF Open, EndIsLast
<1> QED BY <1>1, <1>2 DEF AdmissionInv

\* A step that leaves journal and rows alone.
LEMMA QuietStep ==
    ASSUME AdmissionInv, UNCHANGED <<captureVars, ending, events>>,
           producer' \in Before <=> producer \in Before, Finished' <=> Finished,
           producer' \in Before \cup During \cup {"joining", "done"},
           Intact' => Intact, error' = "writer_close_timeout" => Finished,
           draft' \in {"none", "admitted", "refused"}, DraftInv'
    PROVE  AdmissionInv'
<1>1. /\ connection' = connection /\ received' = received /\ ack' = ack /\ anchor' = anchor
      /\ issues' = issues /\ pending' = pending /\ rows' = rows
      /\ ending' = ending /\ events' = events
  BY DEF captureVars
<1>2. JournalTypeOK' BY <1>1 DEF AdmissionInv, JournalTypeOK
<1>3. Intact' => (Ledger(events, received, rows, issues) /\ EndIsLast)'
  BY <1>1 DEF AdmissionInv, EndIsLast, Of
<1>4. Intact' /\ issues' = {} => CoherentInv'
  BY <1>1 DEF AdmissionInv, CoherentInv
<1> QED BY <1>2, <1>3, <1>4 DEF AdmissionInv

LEMMA SetupKeepsAdmission ==
    ASSUME AdmissionInv, SetupAnswers \/ SetupTimesOut \/ SetupRefused \/ PipelineFails
    PROVE  AdmissionInv'
<1>1. /\ UNCHANGED <<captureVars, ending, events>> /\ draft' = draft /\ manifest' = manifest
      /\ producer \in Before /\ producer' \in Before
  BY DEF SetupAnswers, SetupTimesOut, SetupRefused, PipelineFails, writerVars, Before
<1>2. ~Finished /\ ~Finished' BY <1>1 DEF Finished, Before
<1>3. (Intact' => Intact) /\ (error' = "writer_close_timeout" => Finished)
  BY <1>2 DEF SetupAnswers, SetupTimesOut, SetupRefused, PipelineFails, Fail, Intact, AdmissionInv
<1>4. DraftInv' /\ draft' \in {"none", "admitted", "refused"}
  BY <1>1, <1>2 DEF AdmissionInv, DraftInv, JournalTypeOK
<1> QED BY <1>1, <1>2, <1>3, <1>4, QuietStep

LEMMA JoinKeepsAdmission ==
    ASSUME AdmissionInv, JoinReturns \/ JoinTimesOut
    PROVE  AdmissionInv'
<1>1. /\ UNCHANGED <<captureVars, ending, events>> /\ draft' = draft /\ manifest' = manifest
      /\ producer = "joining" /\ producer' = "done"
  BY DEF JoinReturns, JoinTimesOut, writerVars
<1>2. Finished /\ Finished' /\ producer \notin Before /\ producer' \notin Before
  BY <1>1 DEF Finished, Before
<1>3. Intact' => Intact
  BY DEF JoinReturns, JoinTimesOut, Fail, Intact
<1>4. DraftInv' /\ draft' \in {"none", "admitted", "refused"}
  BY <1>1, <1>2 DEF AdmissionInv, DraftInv, JournalTypeOK, Admissible, Complete, captureVars
<1> QED BY <1>1, <1>2, <1>3, <1>4, QuietStep

LEMMA WriterKeepsAdmission ==
    ASSUME AdmissionInv, ToldInv, JournalWriter
    PROVE  AdmissionInv'
<1>1. UNCHANGED <<captureVars, ending, events, producer>>
  BY DEF JournalWriter, WriterFails, WriterIsReady, OpensJournal, WriterSeesError, ClosesJournal,
         PreparesManifest, RenamesDraft, WriterReturns, MayRename, WriterGoes
<1>2. Finished' <=> Finished BY <1>1 DEF Finished
<1>3. (Intact' => Intact) /\ (error' = "writer_close_timeout" => Finished)
  <2>1. CASE UNCHANGED error BY <2>1 DEF Intact, AdmissionInv
  <2>2. CASE WriterFails BY <2>2 DEF WriterFails, Fail, Intact, AdmissionInv
  <2>3. CASE \E inTime \in BOOLEAN : MayRename(inTime)
    <3>1. writerAt = "prepared" /\ Finished BY <2>3 DEF MayRename, ToldInv, StageInv
    <3> QED BY <2>3, <3>1 DEF MayRename, Fail, Intact
  <2> QED BY <2>1, <2>2, <2>3
      DEF JournalWriter, WriterIsReady, OpensJournal, WriterSeesError, ClosesJournal,
          PreparesManifest, RenamesDraft, WriterReturns
<1>4. Admissible' <=> Admissible BY <1>1 DEF Admissible, Complete, captureVars
<1>5. DraftInv' /\ draft' \in {"none", "admitted", "refused"}
  <2>1. CASE UNCHANGED <<draft, manifest>>
    BY <1>2, <1>4, <2>1 DEF AdmissionInv, DraftInv, JournalTypeOK
  <2>2. CASE PreparesManifest
    <3>1. Finished /\ manifest = "none" /\ manifest' = manifest
      BY <2>2 DEF PreparesManifest, ToldInv, StageInv
    <3>2. draft' = IF Admissible THEN "admitted" ELSE "refused"
      BY <2>2 DEF PreparesManifest, Admissible
    <3> QED BY <1>2, <1>4, <3>1, <3>2 DEF DraftInv
  <2>3. CASE RenamesDraft
    <3>1. draft # "none" /\ manifest' = draft /\ draft' = draft
      BY <2>3 DEF RenamesDraft, ToldInv, StageInv
    <3> QED BY <1>2, <1>4, <3>1 DEF AdmissionInv, DraftInv, JournalTypeOK
  <2> QED BY <2>1, <2>2, <2>3
      DEF JournalWriter, WriterFails, WriterIsReady, OpensJournal, WriterSeesError, ClosesJournal,
          WriterReturns, MayRename
<1>6. producer' \in Before \cup During \cup {"joining", "done"}
  BY <1>1 DEF AdmissionInv, JournalTypeOK
<1> QED BY <1>1, <1>2, <1>3, <1>5, <1>6, QuietStep

\* An entry of another connection is an entry.
LEMMA EntryOfConnection ==
    ASSUME NEW e \in Entries, NEW c \in Nat, NEW f, f = [e EXCEPT !.conn = c]
    PROVE  f \in Entries /\ f.kind = e.kind /\ f.conn = c
BY DEF Entries

\* Notes of the journal, one or two of them, change nothing the counters count.
LEMMA NoteIs ==
    ASSUME connection \in Nat, NEW kind \in Kinds
    PROVE  /\ Note(kind) \in Entries /\ Note(kind).kind = kind /\ Note(kind).conn = connection
           /\ <<Note(kind)>> \in Seq(Entries)
<1>1. 0 \in Nat /\ TRUE \in BOOLEAN /\ "none" \in Frames \cup Endings BY DEF Endings
<1>2. Note(kind) = [kind |-> kind, conn |-> connection, rid |-> 0, what |-> "none", good |-> TRUE]
  BY DEF Note, Record
<1>3. Note(kind) \in Entries /\ Note(kind).kind = kind /\ Note(kind).conn = connection
  BY <1>1, <1>2 DEF Entries
<1> HIDE DEF Entries
<1> QED BY <1>3

LEMMA TwoNotes ==
    ASSUME NEW e, NEW a \in Entries, NEW b \in Entries, NEW n, NEW q \in Seq(Nat), NEW found, NEW more,
           Open(e, n, q, found), \A x \in more : x \in found \/ x = "list" \/ Shows(x, a),
           {a.kind, b.kind} \cap {"decoded", "raw_written", "terminal"} = {}
    PROVE  /\ <<a, b>> \in Seq(Entries)
           /\ e \o <<a, b>> = Append(Append(e, a), b)
           /\ Open(e \o <<a, b>>, n, q, more)
<1>1. e \in Seq(Entries) BY DEF Open
<1>2. e \o <<a, b>> = Append(Append(e, a), b) BY <1>1, ConcatTwo
<1>3. Open(Append(e, a), n, q, more) BY OpenNotes
<1>4. Open(Append(Append(e, a), b), n, q, more)
  <2>1. \A x \in more : x \in more \/ x = "list" \/ Shows(x, b) OBVIOUS
  <2> QED BY <1>3, <2>1, OpenNotes
<1>5. <<a, b>> \in Seq(Entries) OBVIOUS
<1>6. Open(e \o <<a, b>>, n, q, more) BY <1>2, <1>4
<1> QED BY <1>2, <1>5, <1>6

LEMMA ConnectsKeepsAdmission ==
    ASSUME AdmissionInv, Connects
    PROVE  AdmissionInv'
<1> DEFINE o == [Note("connection_open") EXCEPT !.conn = connection + 1]
           s == [Note("subscribe_sent") EXCEPT !.conn = connection + 1]
<1>1. /\ JournalTypeOK /\ producer = "connecting" /\ producer' = "handshake"
      /\ connection' = connection + 1 /\ ack' = FALSE /\ anchor' = FALSE /\ Emit(<<o, s>>)
      /\ received' = received /\ issues' = issues /\ pending' = pending /\ rows' = rows
      /\ ending' = ending /\ draft' = draft /\ manifest' = manifest
  BY DEF Connects, AdmissionInv, writerVars
<1>2. connection \in Nat /\ rows \in Seq(Nat) BY <1>1 DEF JournalTypeOK
<1>3. /\ o \in Entries /\ o.kind = "connection_open" /\ o.conn = connection + 1
      /\ s \in Entries /\ s.kind = "subscribe_sent" /\ s.conn = connection + 1
  <2>1. Note("connection_open") \in Entries /\ Note("subscribe_sent") \in Entries
    BY <1>2, NoteIs DEF Kinds
  <2>2. Note("connection_open").kind = "connection_open" /\ Note("subscribe_sent").kind = "subscribe_sent"
    BY DEF Note, Record
  <2>3. connection + 1 \in Nat BY <1>2
  <2>4. o \in Entries /\ o.kind = "connection_open" /\ o.conn = connection + 1
    BY <2>1, <2>2, <2>3, EntryOfConnection
  <2>5. s \in Entries /\ s.kind = "subscribe_sent" /\ s.conn = connection + 1
    BY <2>1, <2>2, <2>3, EntryOfConnection
  <2> QED BY <2>4, <2>5
<1> HIDE DEF o, s
<1>4. ~Finished /\ ~Finished' BY <1>1 DEF Finished
<1>5. <<o, s>> \in Seq(Entries) BY <1>3
<1>6. /\ events' \in Seq(Entries) /\ error' # "writer_close_timeout"
      /\ Intact' => /\ Intact /\ events' = events \o <<o, s>>
                    /\ Open(events, received, rows, issues)
  BY <1>1, <1>4, <1>5, EmitsWhole
<1>7. JournalTypeOK'
  <2>1. connection + 1 \in Nat BY <1>2
  <2> QED BY <1>1, <1>6, <2>1 DEF JournalTypeOK, During
<1>8. Intact' => Open(events', received', rows', issues')
  <2> SUFFICES ASSUME Intact' PROVE Open(events', received', rows', issues') OBVIOUS
  <2>1. {o.kind, s.kind} \cap {"decoded", "raw_written", "terminal"} = {} BY <1>3
  <2>2. \A x \in issues : x \in issues \/ x = "list" \/ Shows(x, o) OBVIOUS
  <2>3. Open(events \o <<o, s>>, received, rows, issues)
    BY <1>2, <1>3, <1>6, <2>1, <2>2, TwoNotes
  <2> QED BY <1>1, <1>6, <2>3
<1>9. ASSUME Intact', issues' = {} PROVE CoherentInv'
  <2>1. /\ connection = 0 /\ events = <<>> /\ pending = <<>>
    BY <1>1, <1>6, <1>9 DEF AdmissionInv, CoherentInv, Before
  <2>2. events' = <<o, s>>
    <3>1. <<>> \o <<o, s>> = <<o, s>> BY <1>5, ConcatEmptySeq
    <3> QED BY <1>6, <1>9, <2>1, <3>1
  <2>3. /\ Len(events') = 2 /\ events'[1] = o /\ events'[2] = s BY <2>2
  <2>4. o.conn = 1 /\ s.conn = 1 BY <1>3, <2>1
  <2>5. InPlace(events', 1) BY <1>3, <2>3, <2>4 DEF InPlace
  <2>6. InPlace(events', 2) BY <1>3, <2>3, <2>4 DEF InPlace
  <2>7. Coherent(events')
    <3>1. 1..Len(events') = {1, 2} BY <2>3
    <3> QED BY <2>5, <2>6, <3>1 DEF Coherent
  <2>8. Standing(events', pending', FALSE, FALSE) /\ Distinct(pending')
    <3>1. 1..Len(pending') = {} BY <1>1, <2>1
    <3> QED BY <2>3, <2>7, <3>1 DEF Standing, Distinct
  <2>9. Standing(events', pending', ack', anchor') BY <1>1, <2>8
  <2>10. connection' = 1 /\ producer' \notin Before BY <1>1, <2>1 DEF Before
  <2> QED BY <2>8, <2>9, <2>10 DEF CoherentInv
<1> QED BY <1>1, <1>4, <1>6, <1>7, <1>8, <1>9, StillOpen

LEMMA BoundaryKeepsAdmission ==
    ASSUME AdmissionInv, NEW p \in {"connecting", "closing"}, Boundary(p)
    PROVE  AdmissionInv'
<1> DEFINE b == Note("connection_boundary")
           c == Note("connection_end")
<1>1. /\ JournalTypeOK /\ producer \in {"connecting", "handshake", "streaming"} /\ producer' = p
      /\ ack' = FALSE /\ anchor' = FALSE /\ issues' = issues \cup {"boundary"} /\ pending' = <<>>
      /\ Emit(<<b, c>>)
      /\ ending' = IF p = "closing" THEN [ending EXCEPT !.reason = "exception"] ELSE ending
      /\ connection' = connection /\ received' = received /\ rows' = rows
      /\ draft' = draft /\ manifest' = manifest
  BY DEF Boundary, Reaches, AdmissionInv, writerVars
<1>2. connection \in Nat /\ rows \in Seq(Nat) BY <1>1 DEF JournalTypeOK
<1>3. /\ b \in Entries /\ b.kind = "connection_boundary"
      /\ c \in Entries /\ c.kind = "connection_end"
  BY <1>2, NoteIs DEF Kinds
<1> HIDE DEF b, c
<1>4. ~Finished /\ ~Finished' BY <1>1 DEF Finished
<1>5. <<b, c>> \in Seq(Entries) BY <1>3
<1>6. /\ events' \in Seq(Entries) /\ error' # "writer_close_timeout"
      /\ Intact' => /\ Intact /\ events' = events \o <<b, c>>
                    /\ Open(events, received, rows, issues)
  BY <1>1, <1>4, <1>5, EmitsWhole
<1>7. JournalTypeOK'
  <2>1. ending' \in [reason : Endings, closed : BOOLEAN]
    BY <1>1 DEF JournalTypeOK, Endings
  <2>2. issues' \subseteq Issues BY <1>1 DEF JournalTypeOK, Issues
  <2>3. pending' \in Seq(Receipts) BY <1>1
  <2>4. producer' \in Before \cup During BY <1>1 DEF Before, During
  <2> QED BY <1>1, <1>6, <2>1, <2>2, <2>3, <2>4 DEF JournalTypeOK
<1>8. Intact' => Open(events', received', rows', issues')
  <2> SUFFICES ASSUME Intact' PROVE Open(events', received', rows', issues') OBVIOUS
  <2>1. {b.kind, c.kind} \cap {"decoded", "raw_written", "terminal"} = {} BY <1>3
  <2>2. \A x \in issues' : x \in issues \/ x = "list" \/ Shows(x, b) BY <1>1, <1>3 DEF Shows
  <2>3. Open(events \o <<b, c>>, received, rows, issues')
    BY <1>2, <1>3, <1>6, <2>1, <2>2, TwoNotes
  <2> QED BY <1>1, <1>6, <2>3
<1>9. issues' # {} BY <1>1
<1> QED BY <1>1, <1>4, <1>6, <1>7, <1>8, <1>9, StillOpen

\* The types of what a frame does to the object.
LEMMA FrameTypes ==
    ASSUME JournalTypeOK, NEW f \in Frames
    PROVE  /\ AckAfter(f) \in BOOLEAN /\ AnchorAfter(f) \in BOOLEAN
           /\ received + (IF f \in BookFrames THEN 1 ELSE 0) \in Nat
           /\ IssuesOf(f) \subseteq Issues /\ NextSeq \in Nat
           /\ f \in BookFrames => Receipt(f) \in Receipts
<1>1. AckAfter(f) \in BOOLEAN
  <2>1. (f = "ack") \in BOOLEAN OBVIOUS
  <2> QED BY <2>1 DEF AckAfter, JournalTypeOK
<1>2. AnchorAfter(f) \in BOOLEAN
  <2>1. (f = "snapshot") \in BOOLEAN OBVIOUS
  <2> QED BY <2>1 DEF AnchorAfter, JournalTypeOK
<1>3. received + (IF f \in BookFrames THEN 1 ELSE 0) \in Nat BY DEF JournalTypeOK
<1>4. IssuesOf(f) \subseteq Issues BY DEF IssuesOf, Issues
<1>5. NextSeq \in Nat
  <2>1. events \in Seq(Entries) BY DEF JournalTypeOK
  <2>2. Len(events) \in Nat BY <2>1
  <2> QED BY <2>2 DEF NextSeq
<1>6. f \in BookFrames => Receipt(f) \in Receipts
  <2>1. connection \in Nat BY DEF JournalTypeOK
  <2> QED BY <1>2, <1>5, <2>1 DEF Receipt, Receipts
<1> QED BY <1>1, <1>2, <1>3, <1>4, <1>5, <1>6

LEMMA ConcatLast ==
    ASSUME NEW X, NEW e \in Seq(X), NEW t \in Seq(X), NEW r \in X
    PROVE  t \o <<r>> \in Seq(X) /\ e \o (t \o <<r>>) = Append(e \o t, r)
<1>1. <<r>> \in Seq(X) OBVIOUS
<1>2. (e \o t) \o <<r>> = e \o (t \o <<r>>) BY <1>1, ConcatAssociative
<1>3. e \o t \in Seq(X) /\ t \o <<r>> \in Seq(X) BY <1>1, ConcatProperties
<1>4. (e \o t) \o <<r>> = Append(e \o t, r) BY <1>3, ConcatOne
<1> QED BY <1>2, <1>3, <1>4

\* The end of a connection, or none, is one more note at most.
EndOf(e, got) == got = e \/ got = Append(e, Note("connection_end"))

LEMMA EndsOpen ==
    ASSUME connection \in Nat, NEW e, NEW got, EndOf(e, got), NEW n, NEW q \in Seq(Nat), NEW found,
           Open(e, n, q, found)
    PROVE  Open(got, n, q, found)
<1> DEFINE c == Note("connection_end")
<1>1. c \in Entries /\ c.kind = "connection_end" BY NoteIs DEF Kinds
<1>2. got = e \/ got = Append(e, c) BY DEF EndOf
<1> HIDE DEF c
<1>3. Open(Append(e, c), n, q, found)
  <2>1. \A x \in found : x \in found \/ x = "list" \/ Shows(x, c) OBVIOUS
  <2> QED BY <1>1, <2>1, OpenNotes
<1> QED BY <1>2, <1>3

LEMMA EndsStanding ==
    ASSUME connection = 1, NEW e \in Seq(Entries), NEW got, EndOf(e, got),
           NEW kept \in Seq(Receipts), NEW acked, NEW anchored, Standing(e, kept, acked, anchored)
    PROVE  Standing(got, kept, acked, anchored)
<1> DEFINE c == Note("connection_end")
<1>1. c \in Entries /\ c.kind = "connection_end" /\ c.conn = 1
  <2>1. connection \in Nat OBVIOUS
  <2> QED BY <2>1, NoteIs DEF Kinds
<1>2. got = e \/ got = Append(e, c) BY DEF EndOf
<1> HIDE DEF c
<1>3. InPlace(Append(e, c), Len(e) + 1)
  <2>1. Len(e) > 1 BY DEF Standing
  <2> QED BY <1>1, <2>1, NoteFits
<1>4. Standing(Append(e, c), kept, acked, anchored)
  <2>1. c.kind # "raw_written" BY <1>1
  <2> QED BY <1>3, <2>1, <1>1, StandingAppended
<1> QED BY <1>2, <1>4

\* Fewer frames that wait, or one more.
LEMMA FewerWait ==
    ASSUME NEW e, NEW kept \in Seq(Receipts), NEW acked, NEW anchored,
           Standing(e, kept, acked, anchored)
    PROVE  /\ Standing(e, <<>>, acked, anchored) /\ Distinct(<<>>)
           /\ kept # <<>> /\ Distinct(kept) =>
                /\ Standing(e, Tail(kept), acked, anchored) /\ Distinct(Tail(kept))
                /\ Tail(kept) \in Seq(Receipts)
                /\ Head(kept) \in Receipts /\ Waits(e, Head(kept))
                /\ \A i \in 1..Len(Tail(kept)) : Tail(kept)[i].rid # Head(kept).rid
<1>1. Standing(e, <<>>, acked, anchored) /\ Distinct(<<>>)
  <2>1. 1..Len(<<>>) = {} OBVIOUS
  <2> QED BY <2>1 DEF Standing, Distinct
<1>2. ASSUME kept # <<>>, Distinct(kept)
      PROVE  /\ Standing(e, Tail(kept), acked, anchored) /\ Distinct(Tail(kept))
             /\ Tail(kept) \in Seq(Receipts)
             /\ Head(kept) \in Receipts /\ Waits(e, Head(kept))
             /\ \A i \in 1..Len(Tail(kept)) : Tail(kept)[i].rid # Head(kept).rid
  <2>1. /\ Tail(kept) \in Seq(Receipts) /\ Len(Tail(kept)) = Len(kept) - 1 /\ Len(kept) \in Nat
        /\ \A i \in 1..Len(Tail(kept)) : Tail(kept)[i] = kept[i + 1]
        /\ Head(kept) = kept[1] /\ Len(kept) > 0
    BY <1>2, HeadTailProperties, EmptySeq
  <2>2. \A i \in 1..Len(Tail(kept)) : i + 1 \in 1..Len(kept) /\ i + 1 # 1 BY <2>1
  <2>3. 1 \in 1..Len(kept) BY <2>1
  <2>4. \A i \in 1..Len(kept) : Waits(e, kept[i]) BY DEF Standing
  <2>5. \A i \in 1..Len(Tail(kept)) : Waits(e, Tail(kept)[i]) BY <2>1, <2>2, <2>4
  <2>6. \A i, j \in 1..Len(kept) : kept[j].rid = kept[i].rid => j = i BY <1>2 DEF Distinct
  <2>7. ASSUME NEW i \in 1..Len(Tail(kept)) PROVE Tail(kept)[i].rid # Head(kept).rid
    <3>1. i + 1 \in 1..Len(kept) /\ i + 1 # 1 /\ Tail(kept)[i] = kept[i + 1] BY <2>1, <2>2
    <3> QED BY <2>1, <2>3, <2>6, <3>1
  <2>8. ASSUME NEW i \in 1..Len(Tail(kept)), NEW j \in 1..Len(Tail(kept)),
               Tail(kept)[j].rid = Tail(kept)[i].rid
        PROVE  j = i
    <3>1. /\ i + 1 \in 1..Len(kept) /\ j + 1 \in 1..Len(kept)
          /\ Tail(kept)[i] = kept[i + 1] /\ Tail(kept)[j] = kept[j + 1]
      BY <2>1, <2>2
    <3>2. j + 1 = i + 1 BY <2>6, <2>8, <3>1
    <3> QED BY <2>1, <3>2
  <2>9. Distinct(Tail(kept)) BY <2>8 DEF Distinct
  <2>10. Standing(e, Tail(kept), acked, anchored) BY <2>5 DEF Standing
  <2>11. Head(kept) \in Receipts /\ Waits(e, Head(kept)) BY <2>1, <2>3, <2>4, ElementOfSeq
  <2> QED BY <2>1, <2>7, <2>9, <2>10, <2>11
<1> QED BY <1>1, <1>2

LEMMA OneMoreWaits ==
    ASSUME NEW e, NEW kept \in Seq(Receipts), NEW acked, NEW anchored,
           Standing(e, kept, acked, anchored), Distinct(kept), NEW p \in Receipts, Waits(e, p),
           \A i \in 1..Len(kept) : kept[i].rid # p.rid
    PROVE  Standing(e, Append(kept, p), acked, anchored) /\ Distinct(Append(kept, p))
<1>1. /\ Len(Append(kept, p)) = Len(kept) + 1 /\ Len(kept) \in Nat
      /\ \A i \in 1..Len(kept) : Append(kept, p)[i] = kept[i]
      /\ Append(kept, p)[Len(kept) + 1] = p
  BY Appended
<1>2. \A i \in 1..(Len(kept) + 1) : i \in 1..Len(kept) \/ i = Len(kept) + 1 BY <1>1
<1>3. Standing(e, Append(kept, p), acked, anchored) BY <1>1, <1>2 DEF Standing
<1>4. Distinct(Append(kept, p)) BY <1>1, <1>2 DEF Distinct
<1> QED BY <1>3, <1>4

-----------------------------------------------------------------------------
\* What holds while the stream is open.
Live ==
    /\ Intact /\ issues = {} =>
        connection = 1 /\ Standing(events, pending, ack, anchor) /\ Distinct(pending)
    /\ connection \in Nat /\ rows \in Seq(Nat) /\ pending \in Seq(Receipts)
    /\ events \in Seq(Entries) /\ anchor \in BOOLEAN /\ ~Finished

LEMMA StreamIsLive ==
    ASSUME AdmissionInv, producer \in During PROVE Live
BY DEF AdmissionInv, CoherentInv, JournalTypeOK, Live, During, Before, Finished

LEMMA ReachesTypes ==
    ASSUME JournalTypeOK, NEW p \in {"streaming", "closing"}, NEW reason \in Endings, Reaches(p, reason)
    PROVE  /\ producer' = p /\ producer' \in During /\ producer' \notin Before /\ ~Finished'
           /\ ending' \in [reason : Endings, closed : BOOLEAN]
BY DEF Reaches, JournalTypeOK, During, Before, Finished

LEMMA StreamEndsKeepsAdmission ==
    ASSUME AdmissionInv, StreamEnds
    PROVE  AdmissionInv'
<1> DEFINE c == Note("connection_end")
<1>1. /\ JournalTypeOK /\ producer \in During /\ Emit(<<c>>) /\ Reaches("closing", "exception")
      /\ ack' = ack /\ anchor' = anchor /\ issues' = issues /\ pending' = <<>>
      /\ connection' = connection /\ received' = received /\ rows' = rows
      /\ draft' = draft /\ manifest' = manifest
  BY DEF StreamEnds, AdmissionInv, writerVars, During
<1>2. Live BY <1>1, StreamIsLive
<1>3. c \in Entries /\ <<c>> \in Seq(Entries) BY <1>2, NoteIs DEF Live, Kinds
<1>4. /\ events' \in Seq(Entries) /\ error' # "writer_close_timeout"
      /\ Intact' => /\ Intact /\ events' = events \o <<c>>
                    /\ Open(events, received, rows, issues)
  BY <1>1, <1>2, <1>3, EmitsWhole DEF Live
<1>5. events \o <<c>> = Append(events, c) BY <1>2, <1>3, ConcatOne DEF Live
<1>6. Intact' => EndOf(events, events') BY <1>4, <1>5 DEF EndOf
<1>7. /\ producer' = "closing" /\ producer' \in During /\ producer' \notin Before /\ ~Finished'
      /\ ending' \in [reason : Endings, closed : BOOLEAN]
  BY <1>1, ReachesTypes DEF Endings
<1>8. JournalTypeOK'
  <2>1. pending' \in Seq(Receipts) BY <1>1
  <2> QED BY <1>1, <1>4, <1>7, <2>1 DEF JournalTypeOK
<1>9. ASSUME Intact' PROVE Open(events', received', rows', issues')
  <2>1. Open(events', received, rows, issues)
    BY <1>2, <1>4, <1>6, <1>9, EndsOpen DEF Live
  <2> QED BY <1>1, <2>1
<1>10. ASSUME Intact', issues' = {} PROVE CoherentInv'
  <2>1. connection = 1 /\ Standing(events, pending, ack, anchor) /\ pending \in Seq(Receipts)
    BY <1>1, <1>2, <1>4, <1>10 DEF Live
  <2>2. Standing(events', pending, ack, anchor)
    BY <1>2, <1>6, <1>10, <2>1, EndsStanding DEF Live
  <2>3. Standing(events', <<>>, ack, anchor) /\ Distinct(<<>>) BY <2>1, <2>2, FewerWait
  <2>4. Standing(events', pending', ack', anchor') /\ Distinct(pending') BY <1>1, <2>3
  <2>5. connection' = 1 BY <1>1, <2>1
  <2> QED BY <1>7, <2>4, <2>5 DEF CoherentInv
<1> QED BY <1>1, <1>2, <1>4, <1>7, <1>8, <1>9, <1>10, StillOpen DEF Live

\* What a frame's records leave behind.
Counted(f) == received + (IF f \in BookFrames THEN 1 ELSE 0)
LeavesOpen(f, got) ==
    /\ Open(got, Counted(f), rows, issues \cup IssuesOf(f))
    /\ issues \cup IssuesOf(f) = {} =>
        /\ connection = 1 /\ Distinct(pending)
        /\ Standing(got, pending, AckAfter(f), AnchorAfter(f))
        /\ f \in BookFrames => /\ Receipt(f) \in Receipts /\ Waits(got, Receipt(f))
                               /\ \A i \in 1..Len(pending) : pending[i].rid # Receipt(f).rid

LEMMA FrameLeaves ==
    ASSUME Live, Intact, Open(events, received, rows, issues), NEW f \in Frames
    PROVE  LeavesOpen(f, events \o FrameRecords(f))
<1> DEFINE got == events \o FrameRecords(f)
<1>1. Open(got, Counted(f), rows, issues \cup IssuesOf(f)) BY FrameOpens DEF Live, Counted
<1>2. ASSUME issues \cup IssuesOf(f) = {}
      PROVE  /\ connection = 1 /\ Distinct(pending)
             /\ Standing(got, pending, AckAfter(f), AnchorAfter(f))
             /\ f \in BookFrames => /\ Receipt(f) \in Receipts /\ Waits(got, Receipt(f))
                                    /\ \A i \in 1..Len(pending) : pending[i].rid # Receipt(f).rid
  <2>1. /\ connection = 1 /\ Standing(events, pending, ack, anchor) /\ Distinct(pending)
        /\ pending \in Seq(Receipts) /\ events \in Seq(Entries) /\ anchor \in BOOLEAN
    BY <1>2 DEF Live
  <2>2. IssuesOf(f) = {} BY <1>2
  <2>3. /\ Standing(got, pending, AckAfter(f), AnchorAfter(f))
        /\ f \in BookFrames => Receipt(f) \in Receipts /\ Waits(got, Receipt(f))
    BY <2>1, <2>2, FrameStands
  <2>4. ASSUME NEW i \in 1..Len(pending) PROVE pending[i].rid # Receipt(f).rid
    <3>1. pending[i] \in Receipts /\ Waits(events, pending[i]) BY <2>1, ElementOfSeq DEF Standing
    <3>2. pending[i].rid \in Nat /\ pending[i].rid + 1 \in 1..Len(events)
      BY <3>1 DEF Receipts, Waits
    <3>3. Receipt(f).rid = Len(events) + 1 BY DEF Receipt, NextSeq
    <3>4. Len(events) \in Nat BY <2>1
    <3> QED BY <3>2, <3>3, <3>4
  <2> QED BY <2>1, <2>3, <2>4
<1> HIDE DEF got
<1>3. LeavesOpen(f, got) BY <1>1, <1>2 DEF LeavesOpen
<1> QED BY <1>3 DEF got

\* A frame whose records are all there is, or come before a note that ends the connection.
LEMMA FrameEmits ==
    ASSUME AdmissionInv, Live, NEW f \in Frames,
           Emit(FrameRecords(f)) \/ Emit(FrameRecords(f) \o <<Note("connection_end")>>)
    PROVE  /\ events' \in Seq(Entries) /\ error' # "writer_close_timeout"
           /\ Intact' => Intact /\ LeavesOpen(f, events')
<1> DEFINE c == Note("connection_end")
           got == events \o FrameRecords(f)
<1>1. FrameRecords(f) \in Seq(Entries) /\ c \in Entries BY FrameIs, NoteIs DEF Live, Kinds
<1>2. /\ FrameRecords(f) \o <<c>> \in Seq(Entries)
      /\ events \o (FrameRecords(f) \o <<c>>) = Append(got, c)
  BY <1>1, ConcatLast DEF Live
<1>3. /\ events' \in Seq(Entries) /\ error' # "writer_close_timeout"
      /\ Intact' => /\ Intact /\ EndOf(got, events') /\ Open(events, received, rows, issues)
  <2>1. CASE Emit(FrameRecords(f)) BY <1>1, <2>1, EmitsWhole DEF Live, EndOf
  <2>2. CASE Emit(FrameRecords(f) \o <<c>>) BY <1>2, <2>2, EmitsWhole DEF Live, EndOf
  <2> QED BY <2>1, <2>2
<1>4. ASSUME Intact' PROVE LeavesOpen(f, events')
  <2>1. LeavesOpen(f, got) /\ EndOf(got, events') BY <1>3, <1>4, FrameLeaves
  <2>2. got \in Seq(Entries) BY <1>1, ConcatProperties DEF Live
  <2> HIDE DEF got
  <2>3. Open(events', Counted(f), rows, issues \cup IssuesOf(f))
    BY <2>1, EndsOpen DEF Live, LeavesOpen
  <2>4. ASSUME issues \cup IssuesOf(f) = {}
        PROVE  /\ Standing(events', pending, AckAfter(f), AnchorAfter(f))
               /\ f \in BookFrames => Waits(events', Receipt(f))
    <3>1. /\ connection = 1 /\ Standing(got, pending, AckAfter(f), AnchorAfter(f))
          /\ f \in BookFrames => Receipt(f) \in Receipts /\ Waits(got, Receipt(f))
      BY <2>1, <2>4 DEF LeavesOpen
    <3>2. Standing(events', pending, AckAfter(f), AnchorAfter(f))
      BY <2>1, <2>2, <3>1, EndsStanding DEF Live
    <3>3. f \in BookFrames => Waits(events', Receipt(f))
      <4>1. c.kind = "connection_end" BY NoteIs DEF Live, Kinds
      <4> HIDE DEF c
      <4>2. events' = got \/ events' = Append(got, c) BY <2>1 DEF EndOf, c
      <4> QED BY <1>1, <2>2, <3>1, <4>1, <4>2, WaitsStay
    <3> QED BY <3>2, <3>3
  <2> QED BY <2>1, <2>3, <2>4 DEF LeavesOpen
<1> QED BY <1>3, <1>4

LEMMA ReceiveEarlyKeepsAdmission ==
    ASSUME AdmissionInv, NEW f \in Frames, ReceiveEarly(f)
    PROVE  AdmissionInv'
<1>1. /\ JournalTypeOK /\ producer = "handshake" /\ producer \in During
      /\ producer' \in {"streaming", "handshake"}
      /\ ack' = AckAfter(f) /\ anchor' = AnchorAfter(f) /\ received' = Counted(f)
      /\ issues' = issues \cup IssuesOf(f) /\ Emit(FrameRecords(f))
      /\ f \in BookFrames => pending' = Append(pending, Receipt(f))
      /\ f \notin BookFrames => pending' = pending
      /\ connection' = connection /\ rows' = rows /\ ending' = ending
      /\ draft' = draft /\ manifest' = manifest
  BY DEF ReceiveEarly, AdmissionInv, writerVars, During, Counted
<1>2. Live BY <1>1, StreamIsLive
<1>3. /\ events' \in Seq(Entries) /\ error' # "writer_close_timeout"
      /\ Intact' => Intact /\ LeavesOpen(f, events')
  BY <1>1, <1>2, FrameEmits
<1>4. producer' \in During /\ producer' \notin Before /\ ~Finished'
  BY <1>1 DEF During, Before, Finished
<1>5. JournalTypeOK'
  <2>1. /\ AckAfter(f) \in BOOLEAN /\ AnchorAfter(f) \in BOOLEAN /\ Counted(f) \in Nat
        /\ IssuesOf(f) \subseteq Issues /\ (f \in BookFrames => Receipt(f) \in Receipts)
    BY <1>1, FrameTypes DEF Counted
  <2>2. pending' \in Seq(Receipts)
    <3>1. pending \in Seq(Receipts) BY <1>2 DEF Live
    <3>2. f \in BookFrames => Append(pending, Receipt(f)) \in Seq(Receipts)
      BY <2>1, <3>1, AppendProperties
    <3> QED BY <1>1, <3>1, <3>2
  <2>3. issues' \subseteq Issues BY <1>1, <2>1 DEF JournalTypeOK
  <2> QED BY <1>1, <1>3, <1>4, <2>1, <2>2, <2>3 DEF JournalTypeOK
<1>6. Intact' => Open(events', received', rows', issues') BY <1>1, <1>3 DEF LeavesOpen
<1>7. ASSUME Intact', issues' = {} PROVE CoherentInv'
  <2>1. /\ connection = 1 /\ Distinct(pending)
        /\ Standing(events', pending, AckAfter(f), AnchorAfter(f))
    BY <1>1, <1>3, <1>7 DEF LeavesOpen
  <2>2. Standing(events', pending', AckAfter(f), AnchorAfter(f)) /\ Distinct(pending')
    <3>1. CASE f \notin BookFrames BY <1>1, <2>1, <3>1
    <3>2. CASE f \in BookFrames
      <4>1. /\ Receipt(f) \in Receipts /\ Waits(events', Receipt(f))
            /\ \A i \in 1..Len(pending) : pending[i].rid # Receipt(f).rid
        BY <1>1, <1>3, <1>7, <3>2 DEF LeavesOpen
      <4>2. /\ Standing(events', Append(pending, Receipt(f)), AckAfter(f), AnchorAfter(f))
            /\ Distinct(Append(pending, Receipt(f)))
        BY <1>2, <2>1, <4>1, OneMoreWaits DEF Live
      <4> QED BY <1>1, <3>2, <4>2
    <3> QED BY <3>1, <3>2
  <2>3. Standing(events', pending', ack', anchor') BY <1>1, <2>2
  <2>4. connection' = 1 BY <1>1, <2>1
  <2> QED BY <1>4, <2>2, <2>3, <2>4 DEF CoherentInv
<1>8. ~Finished BY <1>2 DEF Live
<1> QED BY <1>1, <1>3, <1>4, <1>5, <1>6, <1>7, <1>8, StillOpen

LEMMA ReceiveOtherKeepsAdmission ==
    ASSUME AdmissionInv, NEW f \in Frames, ReceiveOther(f)
    PROVE  AdmissionInv'
<1>1. /\ JournalTypeOK /\ producer = "streaming" /\ producer' = "streaming" /\ f \notin BookFrames
      /\ ack' = AckAfter(f) /\ anchor' = AnchorAfter(f) /\ received' = received
      /\ issues' = issues \cup IssuesOf(f) /\ Emit(FrameRecords(f)) /\ pending' = pending
      /\ connection' = connection /\ rows' = rows /\ ending' = ending
      /\ draft' = draft /\ manifest' = manifest
  BY DEF ReceiveOther, AdmissionInv, writerVars
<1>2. Live BY <1>1, StreamIsLive DEF During
<1>3. /\ events' \in Seq(Entries) /\ error' # "writer_close_timeout"
      /\ Intact' => Intact /\ LeavesOpen(f, events')
  BY <1>1, <1>2, FrameEmits
<1>4. producer' \in During /\ producer' \notin Before /\ ~Finished' /\ ~Finished
  BY <1>1 DEF During, Before, Finished
<1>5. received' = Counted(f) BY <1>1 DEF Counted, JournalTypeOK
<1>6. JournalTypeOK'
  <2>1. AckAfter(f) \in BOOLEAN /\ AnchorAfter(f) \in BOOLEAN /\ IssuesOf(f) \subseteq Issues
    BY <1>1, FrameTypes
  <2>2. issues' \subseteq Issues BY <1>1, <2>1 DEF JournalTypeOK
  <2> QED BY <1>1, <1>3, <1>4, <2>1, <2>2 DEF JournalTypeOK
<1>7. Intact' => Open(events', received', rows', issues') BY <1>1, <1>3, <1>5 DEF LeavesOpen
<1>8. ASSUME Intact', issues' = {} PROVE CoherentInv'
  <2>1. connection = 1 /\ Distinct(pending) /\ Standing(events', pending, AckAfter(f), AnchorAfter(f))
    BY <1>1, <1>3, <1>8 DEF LeavesOpen
  <2>2. connection' = 1 /\ Distinct(pending') /\ Standing(events', pending', ack', anchor')
    BY <1>1, <2>1
  <2> QED BY <1>4, <2>2 DEF CoherentInv
<1> QED BY <1>1, <1>3, <1>4, <1>6, <1>7, <1>8, StillOpen

LEMMA RowFailsKeepsAdmission ==
    ASSUME AdmissionInv, NEW f \in Frames, RowFails(f)
    PROVE  AdmissionInv'
<1>1. /\ JournalTypeOK /\ producer = "streaming" /\ f \in BookFrames /\ Reaches("closing", "exception")
      /\ ack' = ack /\ anchor' = AnchorAfter(f) /\ received' = received + 1
      /\ issues' = issues \cup IssuesOf(f)
      /\ Emit(FrameRecords(f) \o <<Note("connection_end")>>) /\ pending' = pending
      /\ connection' = connection /\ rows' = rows
      /\ draft' = draft /\ manifest' = manifest
  BY DEF RowFails, AdmissionInv, writerVars
<1>2. Live BY <1>1, StreamIsLive DEF During
<1>3. /\ events' \in Seq(Entries) /\ error' # "writer_close_timeout"
      /\ Intact' => Intact /\ LeavesOpen(f, events')
  BY <1>1, <1>2, FrameEmits
<1>4. /\ producer' \in During /\ producer' \notin Before /\ ~Finished' /\ ~Finished
      /\ ending' \in [reason : Endings, closed : BOOLEAN]
  <2>1. "exception" \in Endings BY DEF Endings
  <2> QED BY <1>1, <1>2, <2>1, ReachesTypes DEF Live
<1>5. received' = Counted(f) /\ AckAfter(f) = ack
  BY <1>1 DEF Counted, AckAfter, BookFrames
<1>6. JournalTypeOK'
  <2>1. AnchorAfter(f) \in BOOLEAN /\ IssuesOf(f) \subseteq Issues /\ Counted(f) \in Nat
    BY <1>1, FrameTypes DEF Counted
  <2>2. issues' \subseteq Issues BY <1>1, <2>1 DEF JournalTypeOK
  <2> QED BY <1>1, <1>3, <1>4, <1>5, <2>1, <2>2 DEF JournalTypeOK
<1>7. Intact' => Open(events', received', rows', issues') BY <1>1, <1>3, <1>5 DEF LeavesOpen
<1>8. ASSUME Intact', issues' = {} PROVE CoherentInv'
  <2>1. connection = 1 /\ Distinct(pending) /\ Standing(events', pending, AckAfter(f), AnchorAfter(f))
    BY <1>1, <1>3, <1>8 DEF LeavesOpen
  <2>2. connection' = 1 /\ Distinct(pending') /\ Standing(events', pending', ack', anchor')
    BY <1>1, <1>5, <2>1
  <2> QED BY <1>4, <2>2 DEF CoherentInv
<1> QED BY <1>1, <1>3, <1>4, <1>6, <1>7, <1>8, StillOpen

LEMMA ReceiveRefusalKeepsAdmission ==
    ASSUME AdmissionInv, ReceiveRefusal
    PROVE  AdmissionInv'
<1> DEFINE b == Note("connection_boundary")
           c == Note("connection_end")
           t == FrameRecords("nack")
           got == events \o t
<1>1. /\ JournalTypeOK /\ producer = "handshake" /\ Reaches("closing", "exception")
      /\ ack' = FALSE /\ anchor' = FALSE /\ received' = received
      /\ issues' = issues \cup {"nack", "boundary"} /\ Emit(t \o <<b, c>>) /\ pending' = <<>>
      /\ connection' = connection /\ rows' = rows
      /\ draft' = draft /\ manifest' = manifest
  BY DEF ReceiveRefusal, AdmissionInv, writerVars
<1>2. Live /\ "nack" \in Frames BY <1>1, StreamIsLive DEF During, Frames
<1>3. /\ t \in Seq(Entries) /\ b \in Entries /\ c \in Entries
      /\ b.kind = "connection_boundary" /\ c.kind = "connection_end"
  BY <1>2, FrameIs, NoteIs DEF Live, Kinds
<1>4. got \in Seq(Entries) /\ events \in Seq(Entries) BY <1>2, <1>3, ConcatProperties DEF Live
<1>5. Intact /\ Open(events, received, rows, issues) => Open(got, received, rows, issues \cup {"nack"})
  <2>1. IssuesOf("nack") = {"nack"} /\ Counted("nack") = received
    BY <1>1 DEF IssuesOf, Counted, BookFrames, JournalTypeOK
  <2>2. Intact /\ Open(events, received, rows, issues) => LeavesOpen("nack", got)
    BY <1>2, FrameLeaves
  <2> QED BY <2>1, <2>2 DEF LeavesOpen
<1> HIDE DEF b, c, t
<1>6. t \o <<b, c>> \in Seq(Entries) /\ events \o (t \o <<b, c>>) = got \o <<b, c>>
  <2>1. <<b, c>> \in Seq(Entries) BY <1>3
  <2>2. (events \o t) \o <<b, c>> = events \o (t \o <<b, c>>)
    BY <1>3, <1>4, <2>1, ConcatAssociative
  <2> QED BY <1>3, <2>1, <2>2, ConcatProperties
<1> HIDE DEF got
<1>7. /\ events' \in Seq(Entries) /\ error' # "writer_close_timeout"
      /\ Intact' => /\ Intact /\ events' = got \o <<b, c>>
                    /\ Open(events, received, rows, issues)
  BY <1>1, <1>2, <1>6, EmitsWhole DEF Live
<1>8. /\ producer' \in During /\ producer' \notin Before /\ ~Finished' /\ ~Finished
      /\ ending' \in [reason : Endings, closed : BOOLEAN]
  <2>1. "exception" \in Endings BY DEF Endings
  <2> QED BY <1>1, <1>2, <2>1, ReachesTypes DEF Live
<1>9. JournalTypeOK'
  <2>1. issues' \subseteq Issues BY <1>1 DEF JournalTypeOK, Issues
  <2>2. pending' \in Seq(Receipts) BY <1>1
  <2> QED BY <1>1, <1>7, <1>8, <2>1, <2>2 DEF JournalTypeOK
<1>10. ASSUME Intact' PROVE Open(events', received', rows', issues')
  <2>1. Open(got, received, rows, issues \cup {"nack"}) BY <1>5, <1>7, <1>10
  <2>2. \A x \in issues' : x \in issues \cup {"nack"} \/ x = "list" \/ Shows(x, b)
    BY <1>1, <1>3 DEF Shows
  <2>3. {b.kind, c.kind} \cap {"decoded", "raw_written", "terminal"} = {} BY <1>3
  <2>4. Open(got \o <<b, c>>, received, rows, issues')
    BY <1>2, <1>3, <2>1, <2>2, <2>3, TwoNotes DEF Live
  <2> QED BY <1>1, <1>7, <1>10, <2>4
<1>11. issues' # {} BY <1>1
<1> QED BY <1>1, <1>7, <1>8, <1>9, <1>10, <1>11, StillOpen

\* A row, and the end of the connection or none.
RowRecord(p, eligible) == Record("raw_written", p.rid, p.what, eligible)
Lacks(eligible) == IF eligible THEN {} ELSE {"row"}

LEMMA RowIs ==
    ASSUME connection \in Nat, NEW p \in Receipts, NEW eligible \in BOOLEAN
    PROVE  /\ RowRecord(p, eligible) \in Entries /\ <<RowRecord(p, eligible)>> \in Seq(Entries)
           /\ RowRecord(p, eligible).kind = "raw_written" /\ RowRecord(p, eligible).rid = p.rid
           /\ RowRecord(p, eligible).conn = connection
           /\ (eligible => RowRecord(p, eligible).good) /\ (~eligible => ~RowRecord(p, eligible).good)
<1> DEFINE r == RowRecord(p, eligible)
<1>1. r = [kind |-> "raw_written", conn |-> connection, rid |-> p.rid, what |-> p.what, good |-> eligible]
  BY DEF RowRecord, Record
<1>2. p.rid \in Nat /\ p.what \in Frames BY DEF Receipts, BookFrames, Frames
<1> HIDE DEF r
<1>3. r \in Entries BY <1>1, <1>2 DEF Entries, Kinds
<1>4. r.kind = "raw_written" /\ r.rid = p.rid /\ r.conn = connection /\ r.good = eligible BY <1>1
<1>5. <<r>> \in Seq(Entries) BY <1>3
<1> QED BY <1>3, <1>4, <1>5 DEF r

LEMMA RowLeaves ==
    ASSUME connection \in Nat, NEW e \in Seq(Entries), NEW p \in Receipts, NEW eligible \in BOOLEAN,
           NEW n, NEW q \in Seq(Nat), NEW found, Open(e, n, q, found),
           NEW got, EndOf(Append(e, RowRecord(p, eligible)), got)
    PROVE  Open(got, n, Append(q, p.rid), found \cup Lacks(eligible))
<1> DEFINE r == RowRecord(p, eligible)
<1>1. r \in Entries /\ r.kind = "raw_written" /\ r.rid = p.rid /\ (~eligible => ~r.good) BY RowIs
<1>2. EndOf(Append(e, r), got) OBVIOUS
<1> HIDE DEF r
<1>3. \A x \in found \cup Lacks(eligible) : x \in found \/ x = "list" \/ Shows(x, r)
  BY <1>1 DEF Lacks, Shows
<1>4. Open(Append(e, r), n, Append(q, r.rid), found \cup Lacks(eligible)) BY <1>1, <1>3, OpenNotes
<1>5. Append(q, p.rid) \in Seq(Nat)
  <2>1. p.rid \in Nat BY DEF Receipts
  <2> QED BY <2>1, AppendProperties
<1> QED BY <1>1, <1>2, <1>4, <1>5, EndsOpen

LEMMA RowStands ==
    ASSUME connection = 1, NEW e \in Seq(Entries), NEW p \in Receipts,
           NEW kept \in Seq(Receipts), NEW acked, NEW anchored,
           Standing(e, kept, acked, anchored), Waits(e, p), p.anchored, acked,
           \A i \in 1..Len(kept) : kept[i].rid # p.rid,
           NEW got, EndOf(Append(e, RowRecord(p, TRUE)), got)
    PROVE  Standing(got, kept, acked, anchored)
<1> DEFINE r == RowRecord(p, TRUE)
<1>1. r \in Entries /\ r.kind = "raw_written" /\ r.rid = p.rid /\ r.good /\ r.conn = 1
  <2>1. connection \in Nat /\ TRUE \in BOOLEAN OBVIOUS
  <2> QED BY <2>1, RowIs
<1>2. EndOf(Append(e, r), got) OBVIOUS
<1> HIDE DEF r
<1>3. InPlace(Append(e, r), Len(e) + 1) BY <1>1, RowFits DEF Standing
<1>4. Append(e, r) \in Seq(Entries) /\ Standing(Append(e, r), kept, acked, anchored)
  <2>1. \A i \in 1..Len(kept) : kept[i].rid # r.rid BY <1>1
  <2> QED BY <1>1, <1>3, <2>1, StandingAppended
<1> QED BY <1>2, <1>4, EndsStanding

LEMMA AfterRowIs ==
    ASSUME AdmissionInv, Live, NEW records \in Seq(Entries), AfterRow(records)
    PROVE  /\ events' \in Seq(Entries) /\ error' # "writer_close_timeout"
           /\ producer' \in During /\ producer' \notin Before /\ ~Finished'
           /\ ending' \in [reason : Endings, closed : BOOLEAN]
           /\ Intact' => /\ Intact /\ EndOf(events \o records, events')
                         /\ Open(events, received, rows, issues)
<1> DEFINE c == Note("connection_end")
<1>1. c \in Entries BY NoteIs DEF Live, Kinds
<1>2. records \o <<c>> \in Seq(Entries) /\ events \o (records \o <<c>>) = Append(events \o records, c)
  BY <1>1, ConcatLast DEF Live
<1>3. JournalTypeOK BY DEF AdmissionInv
<1>4. CASE Emit(records) /\ Reaches("streaming", "none")
  <2>1. "none" \in Endings BY DEF Endings
  <2> QED BY <1>3, <1>4, <2>1, EmitsWhole, ReachesTypes DEF Live, EndOf
<1>5. CASE Emit(records \o <<c>>) /\ \E reason \in {"limit", "deadline"} : Reaches("closing", reason)
  <2>1. PICK reason \in Endings : Reaches("closing", reason) BY <1>5 DEF Endings
  <2> QED BY <1>2, <1>3, <1>5, <2>1, EmitsWhole, ReachesTypes DEF Live, EndOf
<1> QED BY <1>4, <1>5 DEF AfterRow

LEMMA WritePendingKeepsAdmission ==
    ASSUME AdmissionInv, WritePending
    PROVE  AdmissionInv'
<1> DEFINE p == Head(pending)
           eligible == Eligible(p, ack, anchor)
           r == RowRecord(p, eligible)
<1>1. /\ JournalTypeOK /\ producer = "streaming" /\ pending # <<>>
      /\ rows' = Append(rows, p.rid) /\ issues' = issues \cup Lacks(eligible)
      /\ AfterRow(<<r>>) /\ pending' = Tail(pending)
      /\ connection' = connection /\ ack' = ack /\ anchor' = anchor /\ received' = received
      /\ draft' = draft /\ manifest' = manifest
  BY DEF WritePending, AdmissionInv, writerVars, Lacks, RowRecord
<1>2. Live BY <1>1, StreamIsLive DEF During
<1>3. p \in Receipts /\ Tail(pending) \in Seq(Receipts) /\ eligible \in BOOLEAN
  <2>1. p \in Receipts /\ Tail(pending) \in Seq(Receipts) BY <1>1, <1>2, HeadTailProperties DEF Live
  <2>2. ack \in BOOLEAN /\ p.anchored \in BOOLEAN BY <1>1, <2>1 DEF JournalTypeOK, Receipts
  <2> QED BY <2>1, <2>2 DEF Eligible
<1>4. eligible => ack /\ p.anchored BY DEF Eligible
<1> HIDE DEF p, eligible
<1>5. /\ r \in Entries /\ <<r>> \in Seq(Entries) /\ events \o <<r>> = Append(events, r)
  <2>1. r \in Entries /\ <<r>> \in Seq(Entries) BY <1>2, <1>3, RowIs DEF Live
  <2> QED BY <1>2, <2>1, ConcatOne DEF Live
<1>6. /\ events' \in Seq(Entries) /\ error' # "writer_close_timeout"
      /\ producer' \in During /\ producer' \notin Before /\ ~Finished'
      /\ ending' \in [reason : Endings, closed : BOOLEAN]
      /\ Intact' => /\ Intact /\ EndOf(Append(events, r), events')
                    /\ Open(events, received, rows, issues)
  <2> HIDE DEF r
  <2> QED BY <1>1, <1>2, <1>5, AfterRowIs
<1>7. JournalTypeOK'
  <2>1. rows' \in Seq(Nat)
    <3>1. p.rid \in Nat BY <1>3 DEF Receipts
    <3> QED BY <1>1, <1>2, <3>1, AppendProperties DEF Live
  <2>2. issues' \subseteq Issues BY <1>1 DEF JournalTypeOK, Lacks, Issues
  <2> QED BY <1>1, <1>3, <1>6, <2>1, <2>2 DEF JournalTypeOK
<1>8. ASSUME Intact' PROVE Open(events', received', rows', issues')
  <2>1. Open(events', received, Append(rows, p.rid), issues \cup Lacks(eligible))
    BY <1>2, <1>3, <1>6, <1>8, RowLeaves DEF Live
  <2> QED BY <1>1, <2>1
<1>9. ASSUME Intact', issues' = {} PROVE CoherentInv'
  <2>1. eligible /\ issues = {} BY <1>1, <1>9 DEF Lacks
  <2>2. connection = 1 /\ Standing(events, pending, ack, anchor) /\ Distinct(pending)
    BY <1>2, <1>6, <1>9, <2>1 DEF Live
  <2>3. /\ Standing(events, Tail(pending), ack, anchor) /\ Distinct(Tail(pending))
        /\ Waits(events, p) /\ \A i \in 1..Len(Tail(pending)) : Tail(pending)[i].rid # p.rid
    BY <1>1, <1>2, <2>2, FewerWait DEF Live, p
  <2>4. r = RowRecord(p, TRUE) BY <1>3, <2>1
  <2>5. Standing(events', Tail(pending), ack, anchor)
    BY <1>2, <1>3, <1>4, <1>6, <1>9, <2>1, <2>2, <2>3, <2>4, RowStands DEF Live
  <2>6. connection' = 1 /\ Standing(events', pending', ack', anchor') /\ Distinct(pending')
    BY <1>1, <2>2, <2>3, <2>5
  <2> QED BY <1>6, <2>6 DEF CoherentInv
<1>10. ~Finished BY <1>2 DEF Live
<1> QED BY <1>1, <1>6, <1>7, <1>8, <1>9, <1>10, StillOpen

LEMMA ReceiveBookKeepsAdmission ==
    ASSUME AdmissionInv, NEW f \in Frames, ReceiveBook(f)
    PROVE  AdmissionInv'
<1> DEFINE p == Receipt(f)
           eligible == Eligible(p, ack, AnchorAfter(f))
           r == RowRecord(p, eligible)
           t == FrameRecords(f)
           got == events \o t
<1>1. /\ JournalTypeOK /\ producer = "streaming" /\ pending = <<>> /\ f \in BookFrames
      /\ rows' = Append(rows, p.rid) /\ issues' = issues \cup IssuesOf(f) \cup Lacks(eligible)
      /\ AfterRow(t \o <<r>>) /\ pending' = pending
      /\ connection' = connection /\ ack' = ack /\ anchor' = AnchorAfter(f)
      /\ received' = received + 1 /\ draft' = draft /\ manifest' = manifest
  BY DEF ReceiveBook, AdmissionInv, writerVars, Lacks, RowRecord, Receipt
<1>2. Live BY <1>1, StreamIsLive DEF During
<1>3. /\ p \in Receipts /\ eligible \in BOOLEAN /\ (eligible => ack /\ p.anchored)
      /\ AnchorAfter(f) \in BOOLEAN /\ IssuesOf(f) \subseteq Issues
      /\ Counted(f) = received + 1 /\ Counted(f) \in Nat /\ AckAfter(f) = ack
  <2>1. /\ p \in Receipts /\ AnchorAfter(f) \in BOOLEAN /\ IssuesOf(f) \subseteq Issues
        /\ Counted(f) \in Nat
    BY <1>1, FrameTypes DEF Counted
  <2>2. Counted(f) = received + 1 /\ AckAfter(f) = ack BY <1>1 DEF Counted, AckAfter, BookFrames
  <2>3. ack \in BOOLEAN /\ p.anchored \in BOOLEAN BY <1>1, <2>1 DEF JournalTypeOK, Receipts
  <2>4. eligible \in BOOLEAN /\ (eligible => ack /\ p.anchored) BY <2>3 DEF Eligible
  <2> QED BY <2>1, <2>2, <2>4
<1> HIDE DEF p, eligible
<1>4. /\ r \in Entries /\ t \in Seq(Entries) /\ got \in Seq(Entries)
      /\ t \o <<r>> \in Seq(Entries) /\ events \o (t \o <<r>>) = Append(got, r)
  <2>1. r \in Entries BY <1>2, <1>3, RowIs DEF Live
  <2>2. t \in Seq(Entries) BY <1>2, FrameIs DEF Live
  <2> HIDE DEF r, t
  <2> QED BY <1>2, <2>1, <2>2, ConcatLast, ConcatProperties DEF Live
<1>5. /\ events' \in Seq(Entries) /\ error' # "writer_close_timeout"
      /\ producer' \in During /\ producer' \notin Before /\ ~Finished'
      /\ ending' \in [reason : Endings, closed : BOOLEAN]
      /\ Intact' => Intact /\ EndOf(Append(got, r), events') /\ LeavesOpen(f, got)
  <2>1. /\ events' \in Seq(Entries) /\ error' # "writer_close_timeout"
        /\ producer' \in During /\ producer' \notin Before /\ ~Finished'
        /\ ending' \in [reason : Endings, closed : BOOLEAN]
        /\ Intact' => /\ Intact /\ EndOf(events \o (t \o <<r>>), events')
                      /\ Open(events, received, rows, issues)
    <3> HIDE DEF r, t
    <3> QED BY <1>1, <1>2, <1>4, AfterRowIs
  <2>2. Intact' => LeavesOpen(f, got) BY <1>2, <2>1, FrameLeaves
  <2> QED BY <1>4, <2>1, <2>2
<1> HIDE DEF t, got
<1>6. JournalTypeOK'
  <2>1. rows' \in Seq(Nat)
    <3>1. p.rid \in Nat BY <1>3 DEF Receipts
    <3> QED BY <1>1, <1>2, <3>1, AppendProperties DEF Live
  <2>2. issues' \subseteq Issues BY <1>1, <1>3 DEF JournalTypeOK, Lacks, Issues
  <2> QED BY <1>1, <1>3, <1>5, <2>1, <2>2 DEF JournalTypeOK
<1>7. ASSUME Intact' PROVE Open(events', received', rows', issues')
  <2>1. Open(got, received + 1, rows, issues \cup IssuesOf(f)) BY <1>3, <1>5, <1>7 DEF LeavesOpen
  <2>2. Open(events', received + 1, Append(rows, p.rid), issues \cup IssuesOf(f) \cup Lacks(eligible))
    BY <1>2, <1>3, <1>4, <1>5, <1>7, <2>1, RowLeaves DEF Live
  <2> QED BY <1>1, <2>2
<1>8. ASSUME Intact', issues' = {} PROVE CoherentInv'
  <2>1. eligible /\ issues \cup IssuesOf(f) = {} BY <1>1, <1>8 DEF Lacks
  <2>2. /\ connection = 1 /\ Distinct(pending) /\ Standing(got, pending, AckAfter(f), AnchorAfter(f))
        /\ Waits(got, Receipt(f)) /\ \A i \in 1..Len(pending) : pending[i].rid # Receipt(f).rid
    BY <1>1, <1>5, <1>8, <2>1 DEF LeavesOpen
  <2>3. r = RowRecord(p, TRUE) BY <1>3, <2>1
  <2>4. /\ Standing(got, pending, ack, AnchorAfter(f)) /\ Waits(got, p)
        /\ \A i \in 1..Len(pending) : pending[i].rid # p.rid
    BY <1>3, <2>2 DEF p
  <2>5. EndOf(Append(got, RowRecord(p, TRUE)), events') BY <1>5, <1>8, <2>3
  <2>6. Standing(events', pending, ack, AnchorAfter(f))
    BY <1>2, <1>3, <1>4, <2>1, <2>2, <2>4, <2>5, RowStands DEF Live
  <2>7. connection' = 1 /\ Standing(events', pending', ack', anchor') /\ Distinct(pending')
    BY <1>1, <2>2, <2>6
  <2> QED BY <1>5, <2>7 DEF CoherentInv
<1>9. ~Finished BY <1>2 DEF Live
<1> QED BY <1>1, <1>5, <1>6, <1>7, <1>8, <1>9, StillOpen

\* The terminal record is the last one, and says how the session ended.
LEMMA FinishKeepsAdmission ==
    ASSUME AdmissionInv, NEW sound \in BOOLEAN, FinishSession(sound)
    PROVE  AdmissionInv'
<1> DEFINE r == Record("terminal", 0, ending.reason, sound)
<1>1. /\ JournalTypeOK /\ DraftInv /\ producer = "closing" /\ producer' = "joining"
      /\ ending' = [ending EXCEPT !.closed = sound] /\ Emit(<<r>>)
      /\ ack' = ack /\ anchor' = anchor /\ issues' = issues /\ pending' = pending
      /\ connection' = connection /\ received' = received /\ rows' = rows
      /\ draft' = draft /\ manifest' = manifest
  BY DEF FinishSession, AdmissionInv, writerVars, captureVars
<1>2. Live BY <1>1, StreamIsLive DEF During
<1>3. /\ r \in Entries /\ r.kind = "terminal" /\ r.conn = connection
      /\ r.good = sound /\ r.what = ending.reason
  <2>1. r = [kind |-> "terminal", conn |-> connection, rid |-> 0, what |-> ending.reason, good |-> sound]
    BY DEF Record
  <2>2. connection \in Nat /\ ending.reason \in Endings BY <1>1 DEF JournalTypeOK
  <2> HIDE DEF r
  <2> QED BY <2>1, <2>2 DEF Entries, Kinds
<1>4. ending'.closed = sound /\ ending'.reason = ending.reason
      /\ ending' \in [reason : Endings, closed : BOOLEAN]
  BY <1>1 DEF JournalTypeOK
<1> HIDE DEF r
<1>5. <<r>> \in Seq(Entries) /\ events \o <<r>> = Append(events, r)
  <2>1. <<r>> \in Seq(Entries) BY <1>3
  <2> QED BY <1>2, <1>3, <2>1, ConcatOne DEF Live
<1>6. /\ events' \in Seq(Entries) /\ error' # "writer_close_timeout"
      /\ Intact' => /\ Intact /\ events' = Append(events, r)
                    /\ Open(events, received, rows, issues)
  BY <1>1, <1>2, <1>5, EmitsWhole DEF Live
<1>7. ~Finished /\ Finished' /\ producer' \notin Before BY <1>1 DEF Finished, Before
<1>8. JournalTypeOK' BY <1>1, <1>4, <1>6 DEF JournalTypeOK
<1>9. DraftInv' BY <1>1, <1>7 DEF DraftInv, JournalTypeOK
<1>10. ASSUME Intact' PROVE (Ledger(events, received, rows, issues) /\ EndIsLast)'
  <2>1. /\ Open(events, received, rows, issues) /\ events' = Append(events, r) BY <1>6, <1>10
  <2>2. \A x \in issues : x \in issues \/ x = "list" \/ Shows(x, r) OBVIOUS
  <2>3. Ledger(Append(events, r), received, rows, issues)
    BY <1>2, <1>3, <2>1, <2>2, LedgerNotes DEF Live, Open
  <2>4. /\ Len(events') = Len(events) + 1 /\ Len(events) \in Nat /\ events' # <<>>
        /\ DOMAIN events' = 1..(Len(events) + 1) /\ DOMAIN events = 1..Len(events)
        /\ \A i \in 1..Len(events) : events'[i] = events[i]
        /\ events'[Len(events) + 1] = r
    BY <1>2, <1>3, <2>1, Appended, AppendProperties DEF Live
  <2>5. \A i \in 1..Len(events) : events[i].kind # "terminal" BY <2>1, <2>4 DEF Open, NoEnd
  <2>6. {i \in DOMAIN events' : events'[i].kind = "terminal"} = {Len(events')}
    BY <1>3, <2>4, <2>5
  <2>7. EndIsLast'
    <3>1. Of("terminal")' = {Len(events')} BY <2>6 DEF Of
    <3>2. events'[Len(events')] = r BY <2>4
    <3>3. r.good = ending'.closed /\ r.what = ending'.reason BY <1>3, <1>4
    <3> QED BY <1>7, <2>4, <3>1, <3>2, <3>3 DEF EndIsLast
  <2> QED BY <1>1, <2>1, <2>3, <2>7
<1>11. ASSUME Intact', issues' = {} PROVE CoherentInv'
  <2>1. /\ connection = 1 /\ Standing(events, pending, ack, anchor) /\ Distinct(pending)
        /\ events' = Append(events, r) /\ r.conn = 1
    BY <1>1, <1>2, <1>3, <1>6, <1>11 DEF Live
  <2>2. InPlace(Append(events, r), Len(events) + 1)
    <3>1. Len(events) > 1 BY <2>1 DEF Standing
    <3> QED BY <1>2, <1>3, <2>1, <3>1, NoteFits DEF Live
  <2>3. Standing(Append(events, r), pending, ack, anchor)
    <3>1. r.kind # "raw_written" BY <1>3
    <3> QED BY <1>2, <1>3, <2>1, <2>2, <3>1, StandingAppended DEF Live
  <2>4. connection' = 1 /\ Standing(events', pending', ack', anchor') /\ Distinct(pending')
    BY <1>1, <2>1, <2>3
  <2> QED BY <1>7, <2>4 DEF CoherentInv
<1> QED BY <1>6, <1>7, <1>8, <1>9, <1>10, <1>11 DEF AdmissionInv
-----------------------------------------------------------------------------
(* What the invariant says of the verifier.                                  *)

LEMMA MarkedKinds ==
    ASSUME events \in Seq(Entries)
    PROVE  /\ DOMAIN events = 1..Len(events) /\ Len(events) \in Nat
           /\ \A i \in DOMAIN events : events[i] \in Entries
           /\ Marked(events, Written) = Of("raw_written")
           /\ Marked(events, Books) = {d \in Of("decoded") : events[d].what \in BookFrames}
<1>1. /\ DOMAIN events = 1..Len(events) /\ Len(events) \in Nat
      /\ \A i \in DOMAIN events : events[i] \in Entries
  OBVIOUS
<1>2. /\ Marked(events, Written) = Of("raw_written")
      /\ Marked(events, Books) = {d \in Of("decoded") : events[d].what \in BookFrames}
  BY <1>1 DEF Marked, Written, Books, Of
<1> QED BY <1>1, <1>2

\* The frames that the records T of e belong to.
FramesOf(e, T) == {e[i].rid : i \in T}

\* Records of frames of their own have as many frames as there are records.
LEMMA FramesCount ==
    ASSUME NEW e, NEW T, IsFiniteSet(T), \A a, b \in T : e[a].rid = e[b].rid => a = b
    PROVE  IsFiniteSet(FramesOf(e, T)) /\ Cardinality(FramesOf(e, T)) = Cardinality(T)
<1> DEFINE R == {e[i].rid : i \in T}
           f == [i \in T |-> e[i].rid]
<1>1. f \in [T -> R] OBVIOUS
<1>2. \A a, b \in T : f[a] = f[b] => a = b OBVIOUS
<1>3. \A t \in R : \E s \in T : f[s] = t OBVIOUS
<1> HIDE DEF f, R
<1>4. f \in Bijection(T, R) BY <1>1, <1>2, <1>3, Fun_IsBij
<1>5. ExistsBijection(T, R) BY <1>4, Fun_ExistsBij
<1>6. IsFiniteSet(R) /\ Cardinality(R) = Cardinality(T) BY <1>5, FS_Bijection
<1> QED BY <1>6 DEF R, FramesOf

\* The rows are as many as the frames of the book if there is one of each.
LEMMA RowsOfFrames ==
    ASSUME events \in Seq(Entries), CountsMatch(events, received, Len(rows)),
           \A a, b \in Of("decoded") : events[a].rid = events[b].rid => a = b,
           \A a, b \in Of("raw_written") : events[a].rid = events[b].rid => a = b
    PROVE  LET D == {events[d].rid : d \in {e \in Of("decoded") : events[e].what \in BookFrames}}
               R == {events[i].rid : i \in Of("raw_written")}
           IN  /\ R = D => received = Len(rows)
               /\ received = Len(rows) /\ R \subseteq D => R = D
<1> DEFINE B == Marked(events, Books)
           W == Marked(events, Written)
           D == FramesOf(events, B)
           R == FramesOf(events, W)
<1>1. IsFiniteSet(B) /\ IsFiniteSet(W)
  <2>1. B \in SUBSET B /\ W \in SUBSET W OBVIOUS
  <2> QED BY <2>1, MarkedIs
<1>2. W = Of("raw_written") /\ B = {d \in Of("decoded") : events[d].what \in BookFrames}
  BY MarkedKinds
<1>3. /\ \A a, b \in B : events[a].rid = events[b].rid => a = b
      /\ \A a, b \in W : events[a].rid = events[b].rid => a = b
  BY <1>2
<1>4. Cardinality(B) = received /\ Cardinality(W) = Len(rows) BY DEF CountsMatch
<1> HIDE DEF B, W, D, R
<1>5. IsFiniteSet(D) /\ Cardinality(D) = received BY <1>1, <1>3, <1>4, FramesCount DEF D
<1>6. IsFiniteSet(R) /\ Cardinality(R) = Len(rows) BY <1>1, <1>3, <1>4, FramesCount DEF R
<1>7. R = D => received = Len(rows) BY <1>5, <1>6
<1>8. received = Len(rows) /\ R \subseteq D => R = D
  BY <1>5, <1>6, FS_Subset
<1> QED BY <1>2, <1>7, <1>8 DEF D, R, FramesOf

LEMMA AdmittedVerifies ==
    ASSUME JournalTypeOK, Ledger(events, received, rows, issues), EndIsLast, CoherentInv,
           Finished, Admissible
    PROVE  Verifies
<1>1. /\ events \in Seq(Entries) /\ DOMAIN events = 1..Len(events) /\ Len(events) \in Nat
      /\ Len(events) > 1 /\ \A i \in 1..Len(events) : InPlace(events, i)
  <2>1. producer \notin Before BY DEF Finished, Before
  <2> QED BY <2>1, MarkedKinds DEF CoherentInv, Standing, Coherent, JournalTypeOK
<1>2. OneConnection
  <2>1. Of("connection_open") = {1} BY <1>1 DEF Of, InPlace
  <2>2. Cardinality(Of("subscribe_sent")) <= 1
    <3>1. Of("subscribe_sent") = {2} BY <1>1 DEF Of, InPlace
    <3> QED BY <3>1, FS_Singleton
  <2>3. \A i \in DOMAIN events : events[i].conn = 1 BY <1>1 DEF InPlace
  <2>4. Of("connection_boundary") = {} /\ Of("decode_error") = {} BY <1>1 DEF Of, InPlace
  <2>5. \A i \in Of("receive") : events[i].good BY <1>1 DEF Of, InPlace
  <2>6. Of("terminal") = {Len(events)} BY DEF EndIsLast
  <2> QED BY <2>1, <2>2, <2>3, <2>4, <2>5, <2>6 DEF OneConnection
<1>3. \A d \in Of("decoded") :
        /\ d \in 2..Len(events) /\ events[d].rid = d - 1 /\ events[d - 1].kind = "receive"
        /\ events[d].what # "stray"
  BY <1>1 DEF Of, InPlace
<1>4. \A i \in Of("ack") \cup Of("snapshot") :
        i \in 3..Len(events) /\ DecodedBefore(events[i].rid, i)
  <2> SUFFICES ASSUME NEW i \in Of("ack") \cup Of("snapshot")
               PROVE  i \in 3..Len(events) /\ DecodedBefore(events[i].rid, i)
    OBVIOUS
  <2>1. /\ i \in 1..Len(events) /\ i > 2 /\ events[i].rid = i - 2
        /\ events[i - 1].kind = "decoded"
    BY <1>1 DEF Of, InPlace
  <2>2. i - 1 \in Of("decoded") BY <1>1, <2>1 DEF Of
  <2>3. events[i - 1].rid = i - 2 BY <1>3, <2>1, <2>2
  <2> QED BY <2>1, <2>2, <2>3 DEF DecodedBefore
<1>5. FramesAreBound
  <2>1. \A d \in Of("decoded") :
            /\ events[d].rid \in Of("receive") /\ events[d].rid < d
            /\ \A e \in Of("decoded") : events[e].rid = events[d].rid => e = d
            /\ events[d].what # "stray"
    BY <1>1, <1>3 DEF Of
  <2>2. \A i \in Of("ack") : events[i].good /\ \E s \in Of("subscribe_sent") : s < i
    <3>1. 2 \in Of("subscribe_sent") BY <1>1 DEF Of, InPlace
    <3>2. \A i \in Of("ack") : events[i].good BY <1>1 DEF Of, InPlace
    <3> QED BY <1>4, <3>1, <3>2
  <2>3. \A i \in Of("snapshot") : events[i].what = "snapshot" BY <1>1 DEF Of, InPlace
  <2> QED BY <1>4, <2>1, <2>2, <2>3 DEF FramesAreBound
<1>6. \A i \in Of("raw_written") : i \in 1..Len(events) /\ events[i].good /\ IsRow(events, i)
  BY <1>1 DEF Of, InPlace
<1>7. \A i, j \in Of("raw_written") : events[j].rid = events[i].rid => j = i
  <2>1. \A i, j \in Of("raw_written") : j < i => events[j].rid # events[i].rid
    BY <1>1, <1>6 DEF IsRow, NoRowAt, Of
  <2> QED BY <1>6, <2>1
<1>8. \A i \in Of("raw_written") :
        /\ \E a \in Of("ack") : a < i
        /\ \E d \in Of("decoded") :
            /\ d < i /\ events[d].rid = events[i].rid /\ events[d].what \in BookFrames
            /\ \E s \in Of("decoded") : s <= d /\ events[s].what = "snapshot"
  <2> SUFFICES ASSUME NEW i \in Of("raw_written")
               PROVE  /\ \E a \in Of("ack") : a < i
                      /\ \E d \in Of("decoded") :
                          /\ d < i /\ events[d].rid = events[i].rid
                          /\ events[d].what \in BookFrames
                          /\ \E s \in Of("decoded") : s <= d /\ events[s].what = "snapshot"
    OBVIOUS
  <2> DEFINE d == events[i].rid + 1
  <2>1. /\ i \in 1..Len(events) /\ d < i /\ BookAt(events, events[i].rid)
        /\ AckAt(events, i - 1) /\ AnchorAt(events, d)
    BY <1>6 DEF IsRow
  <2>2. events[i].rid \in Nat
    <3>1. events[i] \in Entries BY <1>1, <2>1
    <3> QED BY <3>1 DEF Entries
  <2>3. \E a \in Of("ack") : a < i BY <1>1, <2>1 DEF AckAt, Of
  <2>4. d \in Of("decoded") /\ events[d].rid = events[i].rid /\ events[d].what \in BookFrames
    BY <1>1, <2>1, <2>2 DEF BookAt, Of
  <2>5. \E s \in Of("decoded") : s <= d /\ events[s].what = "snapshot"
    BY <1>1, <2>1, <2>2 DEF AnchorAt, Of
  <2> QED BY <2>1, <2>3, <2>4, <2>5
<1>9. RowsAreBound BY <1>6, <1>7, <1>8 DEF RowsAreBound
<1>10. NothingMissing
  <2> DEFINE D == {events[d].rid : d \in {e \in Of("decoded") : events[e].what \in BookFrames}}
             R == {events[i].rid : i \in Of("raw_written")}
  <2>1. CountsMatch(events, received, Len(rows)) /\ RowsFollow(events, rows) BY DEF Ledger
  <2>2. R \subseteq D BY <1>8
  <2>3. \A a, b \in Of("decoded") : events[a].rid = events[b].rid => a = b BY <1>3
  <2>4. received = Len(rows) /\ rows # <<>> BY DEF Admissible
  <2>5. R = D BY <1>1, <1>7, <2>1, <2>2, <2>3, <2>4, RowsOfFrames
  <2>6. Len(rows) = Cardinality(Of("raw_written")) BY <1>1, <2>1, MarkedKinds DEF CountsMatch
  <2>7. \A i \in Of("raw_written") :
            rows[Cardinality({j \in Of("raw_written") : j <= i})] = events[i].rid
    BY <1>1, <2>1, MarkedKinds DEF RowsFollow, UpTo
  <2>8. events[Len(events)].good /\ events[Len(events)].what \in {"limit", "deadline"}
    BY DEF EndIsLast, Admissible, Complete
  <2> QED BY <2>4, <2>5, <2>6, <2>7, <2>8 DEF NothingMissing
<1> QED BY <1>2, <1>5, <1>9, <1>10 DEF Verifies

LEMMA RefusedFails ==
    ASSUME JournalTypeOK, Ledger(events, received, rows, issues), EndIsLast,
           Finished, Verifies, "list" \notin issues
    PROVE  Admissible
<1>1. events \in Seq(Entries) /\ OneConnection /\ FramesAreBound /\ RowsAreBound /\ NothingMissing
  BY DEF JournalTypeOK, Verifies
<1>2. issues = {}
  <2> SUFFICES ASSUME NEW x \in issues PROVE FALSE OBVIOUS
  <2>1. PICK i \in DOMAIN events : Shows(x, events[i]) BY DEF Ledger, IssuesShow
  <2>2. ~(x = "nack" /\ events[i].kind = "ack" /\ ~events[i].good)
    BY <1>1 DEF FramesAreBound, Of
  <2>3. ~(x = "stray" /\ events[i].kind = "decoded" /\ events[i].what = "stray")
    BY <1>1 DEF FramesAreBound, Of
  <2>4. /\ events[i].kind \notin {"decode_error", "connection_boundary"}
        /\ ~(events[i].kind = "receive" /\ ~events[i].good)
    BY <1>1 DEF OneConnection, Of
  <2>5. ~(events[i].kind = "raw_written" /\ ~events[i].good) BY <1>1 DEF RowsAreBound, Of
  <2> QED BY <2>1, <2>2, <2>3, <2>4, <2>5 DEF Shows
<1>3. Complete BY <1>1 DEF NothingMissing, EndIsLast, Complete
<1>4. received = Len(rows)
  <2>1. CountsMatch(events, received, Len(rows)) BY DEF Ledger
  <2>2. \A a, b \in Of("decoded") : events[a].rid = events[b].rid => a = b
    BY <1>1 DEF FramesAreBound
  <2>3. \A a, b \in Of("raw_written") : events[a].rid = events[b].rid => a = b
    BY <1>1 DEF RowsAreBound
  <2> QED BY <1>1, <2>1, <2>2, <2>3, RowsOfFrames DEF NothingMissing
<1>5. rows # <<>> BY <1>1 DEF NothingMissing
<1> QED BY <1>2, <1>3, <1>4, <1>5 DEF Admissible

LEMMA InvariantAdmits == AdmissionInv /\ RefusalIsTold => AdmissionIsRight
<1> SUFFICES ASSUME AdmissionInv, RefusalIsTold, manifest # "none" PROVE AdmissionIsRight
  BY DEF AdmissionIsRight
<1>1. /\ Finished /\ Intact /\ manifest = draft /\ JournalTypeOK
      /\ Ledger(events, received, rows, issues) /\ EndIsLast
  BY DEF AdmissionInv, RefusalIsTold, DraftInv, Intact
<1>2. CASE manifest = "admitted"
  <2>1. Admissible /\ issues = {} BY <1>1, <1>2 DEF AdmissionInv, DraftInv, Admissible
  <2>2. CoherentInv BY <1>1, <2>1 DEF AdmissionInv
  <2> QED BY <1>1, <1>2, <2>1, <2>2, AdmittedVerifies DEF AdmissionIsRight
<1>3. CASE manifest = "refused"
  <2>1. ~Admissible BY <1>1, <1>3 DEF AdmissionInv, DraftInv
  <2> QED BY <1>1, <1>3, <2>1, RefusedFails DEF AdmissionIsRight
<1> QED BY <1>1, <1>2, <1>3 DEF JournalTypeOK

LEMMA InitAdmissionInv == SessionInit => AdmissionInv
<1> SUFFICES ASSUME SessionInit PROVE AdmissionInv OBVIOUS
<1>1. /\ producer \in {"setup", "connecting"} /\ connection = 0 /\ received = 0
      /\ ack = FALSE /\ anchor = FALSE /\ issues = {} /\ ending = NotEnded
      /\ pending = <<>> /\ events = <<>> /\ rows = <<>> /\ draft = "none" /\ manifest = "none"
      /\ error \in {"none", "unavailable"}
  BY DEF SessionInit
<1>2. JournalTypeOK
  <2>1. ending \in [reason : Endings, closed : BOOLEAN] BY <1>1 DEF NotEnded, Endings
  <2>2. producer \in Before BY <1>1 DEF Before
  <2>3. pending \in Seq(Receipts) /\ events \in Seq(Entries) /\ rows \in Seq(Nat)
    BY <1>1, EmptySeq
  <2>4. connection \in Nat /\ received \in Nat /\ ack \in BOOLEAN /\ anchor \in BOOLEAN
    BY <1>1
  <2>5. issues \subseteq Issues /\ draft \in {"none", "admitted", "refused"} BY <1>1
  <2> QED BY <2>1, <2>2, <2>3, <2>4, <2>5 DEF JournalTypeOK
<1>3. \A M : Marked(events, M) = {} BY <1>1 DEF Marked
<1>4. Ledger(events, received, rows, issues)
  <2>1. CountsMatch(events, received, Len(rows)) BY <1>1, <1>3, FS_EmptySet DEF CountsMatch
  <2> QED BY <1>1, <1>3, <2>1 DEF Ledger, IssuesShow, RowsFollow
<1>5. ~Finished /\ producer \in Before BY <1>1 DEF Finished, Before
<1>6. EndIsLast BY <1>1, <1>5 DEF EndIsLast, NoEnd
<1>7. CoherentInv BY <1>1, <1>5 DEF CoherentInv
<1>8. DraftInv BY <1>1, <1>5 DEF DraftInv
<1> QED BY <1>1, <1>2, <1>4, <1>5, <1>6, <1>7, <1>8 DEF AdmissionInv

LEMMA StutterKeepsAdmission == AdmissionInv /\ UNCHANGED svars => AdmissionInv'
<1> SUFFICES ASSUME AdmissionInv, UNCHANGED svars PROVE AdmissionInv' OBVIOUS
<1>1. /\ UNCHANGED <<captureVars, ending, events>>
      /\ producer' = producer /\ error' = error /\ draft' = draft /\ manifest' = manifest
  BY DEF svars, writerVars
<1>2. (Finished' <=> Finished) /\ (Intact' => Intact) BY <1>1 DEF Finished, Intact
<1>3. DraftInv' /\ draft' \in {"none", "admitted", "refused"}
  BY <1>1, <1>2 DEF AdmissionInv, DraftInv, JournalTypeOK, Admissible, Complete, captureVars
<1>4. producer' \in Before \cup During \cup {"joining", "done"}
  BY <1>1 DEF AdmissionInv, JournalTypeOK
<1> QED BY <1>1, <1>2, <1>3, <1>4, QuietStep DEF AdmissionInv

LEMMA CollectorKeepsAdmission == AdmissionInv /\ Collector => AdmissionInv'
<1> SUFFICES ASSUME AdmissionInv, Collector PROVE AdmissionInv' OBVIOUS
<1>1. CASE SetupAnswers \/ SetupTimesOut \/ SetupRefused \/ PipelineFails
  BY <1>1, SetupKeepsAdmission
<1>2. CASE Connects BY <1>2, ConnectsKeepsAdmission
<1>3. CASE ReceiveRefusal BY <1>3, ReceiveRefusalKeepsAdmission
<1>4. CASE WritePending BY <1>4, WritePendingKeepsAdmission
<1>5. CASE StreamEnds BY <1>5, StreamEndsKeepsAdmission
<1>6. CASE \E p \in {"connecting", "closing"} : Boundary(p)
  BY <1>6, BoundaryKeepsAdmission
<1>7. ASSUME NEW f \in Frames, ReceiveEarly(f) \/ ReceiveBook(f) \/ RowFails(f) \/ ReceiveOther(f)
      PROVE  AdmissionInv'
  BY <1>7, ReceiveEarlyKeepsAdmission, ReceiveBookKeepsAdmission, RowFailsKeepsAdmission,
     ReceiveOtherKeepsAdmission
<1>8. CASE \E sound \in BOOLEAN : FinishSession(sound)
  BY <1>8, FinishKeepsAdmission
<1>9. CASE JoinReturns \/ JoinTimesOut BY <1>9, JoinKeepsAdmission
<1> QED BY <1>1, <1>2, <1>3, <1>4, <1>5, <1>6, <1>7, <1>8, <1>9 DEF Collector
-----------------------------------------------------------------------------
\* A session whose manifest admits it passes the offline verification, and one whose
\* manifest refuses it fails it, save for a frame that was JSON and no object: the flags
\* and counters the collector judges by agree with the files the verifier reads, however
\* many frames there are and wherever a call fails or the writer is left behind.
THEOREM AdmissionsVerify == SessionSpec => []AdmissionIsRight
<1>2. ToldInv /\ AdmissionInv /\ [SessionNext]_svars => AdmissionInv'
  <2> SUFFICES ASSUME ToldInv, AdmissionInv, [SessionNext]_svars PROVE AdmissionInv'
    OBVIOUS
  <2> QED BY CollectorKeepsAdmission, WriterKeepsAdmission, StutterKeepsAdmission DEF SessionNext
<1>3. ToldInv => RefusalIsTold BY DEF ToldInv
<1> QED BY <1>2, <1>3, InitToldInv, InitAdmissionInv, InvariantAdmits, StepKeepsTold, PTL DEF SessionSpec

-----------------------------------------------------------------------------
(* The ledger of the canary.                                                 *)

\* The rows are numbered without a gap, and a lane has one open row.
RowsInv ==
    /\ \E n \in 0..MaxGrants : open \cup closed = 1..n
    /\ open \cap closed = {}
    /\ \A g, h \in open : lane[g] = lane[h] => g = h

\* A worker in a segment has its row open and in its name.
WriterInv ==
    \A w \in Workers : stage[w] \in Writing => mine[w] \in open /\ holder[mine[w]] = w

\* A receipt is on disk before the row that names it.
ReceiptInv ==
    /\ ReceiptBeforeRow
    /\ \A w \in Workers : stage[w] = "receipted" => mine[w] \in receipts

\* From settle() on the attempt is stopped and no row is open; what is listed
\* is all there will be.
FinalInv ==
    /\ operator # "idle" \/ final = "whole" => stopped /\ open = {}
    /\ operator \in {"listed", "written"} \/ final = "whole" => listed = closed

IInv == TypeOK /\ RowsInv /\ WriterInv /\ ClosedIsCharged /\ ReceiptInv /\ FinalInv

USE DEF Grants, Lanes, Writing, attemptVars, ledgerVars, fileVars, workerVars, finalVars,
        GoesTo, Leaves
-----------------------------------------------------------------------------
\* Issued is the number of the last row.
LEMMA IssuedIsLast ==
    ASSUME NEW n \in Nat, open \cup closed = 1..n
    PROVE  Issued = n
<1>1. Cardinality(1..n) = n
  BY FS_Interval
<1> QED BY <1>1 DEF Issued

\* The row a claim inserts is a new one.
LEMMA NextRow ==
    ASSUME RowsInv, MayIssue
    PROVE  /\ Issued + 1 \in Grants /\ Issued + 1 \notin open \cup closed
           /\ open \cup closed \cup {Issued + 1} = 1..(Issued + 1)
<1>1. PICK n \in 0..MaxGrants : open \cup closed = 1..n
  BY DEF RowsInv
<1>2. Issued = n
  BY <1>1, IssuedIsLast, BoundsAssumption
<1> QED BY <1>1, <1>2, BoundsAssumption DEF MayIssue

\* An abandoned grant is charged a number of bytes.
LEMMA ChargedTyped ==
    ASSUME TypeOK, NEW G
    PROVE  Charged(G) \in [Grants -> Nat]
  BY DEF TypeOK, Charged

\* What is added to a count of bytes leaves a count of bytes.
LEMMA Grows ==
    ASSUME NEW f \in [Grants -> Nat], NEW g, NEW n \in Nat
    PROVE  [f EXCEPT ![g] = @ + n] \in [Grants -> Nat]
<1>1. \A h \in Grants : f[h] + n \in Nat
  OBVIOUS
<1> QED BY <1>1

\* The steps of a segment, whatever they write.
LEMMA SegmentSteps ==
    ASSUME NEW w, Segment(w)
    PROVE  \/ Bind(w) \/ Admit(w) \/ AdmitStops(w) \/ EndSegment(w)
           \/ \E n \in Nat : WriteFrame(w, n) \/ FinishRun(w, n) \/ TakeSnapshot(w, n)
           \/ WriteReceipt(w) \/ CloseRow(w) \/ CloseRowFails(w)
<1>1. 1..MaxFrame \subseteq Nat /\ 0..Overhead \subseteq Nat /\ 0..Snapshot \subseteq Nat
  BY BytesAssumption
<1> QED BY <1>1 DEF Segment

\* Everything starts with its type.
LEMMA InitTyped == Init => TypeOK
<1> SUFFICES ASSUME Init PROVE TypeOK
  OBVIOUS
<1>1. stopped \in BOOLEAN /\ finalized \in BOOLEAN /\ expired \in BOOLEAN
  BY Zenon DEF Init
<1> QED BY <1>1, BoundsAssumption DEF Init, TypeOK

\* Every step keeps the types.
LEMMA StepTyped == TypeOK /\ RowsInv /\ [Next]_vars => TypeOK'
<1> SUFFICES ASSUME TypeOK, RowsInv, [Next]_vars PROVE TypeOK'
  OBVIOUS
<1> USE DEF TypeOK
<1>1. ASSUME NEW w \in Workers, NEW l \in Lanes, Claim(w, l) PROVE TypeOK'
  <2>1. MayIssue BY <1>1 DEF Claim
  <2>2. Issued + 1 \in Grants BY <2>1, NextRow
  <2>3. FirstBytes(l) \in Nat BY BytesAssumption DEF FirstBytes
  <2>4. consumed' \in [Grants -> Nat] /\ closed' \subseteq Grants
    <3>1. closed' = closed \cup OpenOn(l) /\ consumed' = Charged(OpenOn(l))
      BY <1>1 DEF Claim, Reconcile
    <3>2. OpenOn(l) \subseteq Grants BY DEF OpenOn
    <3>3. Charged(OpenOn(l)) \in [Grants -> Nat] BY ChargedTyped
    <3> QED BY <3>1, <3>2, <3>3
  <2>5. open' \subseteq Grants BY <1>1, <2>2 DEF Claim, OpenOn
  <2>6. /\ lane' \in [Grants -> Lanes \cup {Nobody}] /\ reserved' \in [Grants -> Nat]
        /\ holder' \in [Grants -> Workers \cup {Nobody}]
    BY <1>1, <2>2, <2>3 DEF Claim
  <2>7. /\ stage' \in [Workers -> {"off"} \cup Writing] /\ mine' \in [Workers -> Nat]
        /\ \A v \in Workers : stage'[v] # "off" => mine'[v] \in Grants
    BY <1>1, <2>2 DEF Claim
  <2> QED BY <1>1, <2>4, <2>5, <2>6, <2>7 DEF Claim
<1>2. ASSUME NEW w \in Workers, NEW l \in Lanes, ClaimStops(w, l) PROVE TypeOK'
  <2>1. consumed' \in [Grants -> Nat] /\ closed' \subseteq Grants /\ open' \subseteq Grants
    <3>1. CASE expired BY <1>2, <3>1 DEF ClaimStops
    <3>2. CASE ~expired
      <4>1. /\ closed' = closed \cup OpenOn(l) /\ consumed' = Charged(OpenOn(l))
            /\ open' = open \ OpenOn(l)
        BY <1>2, <3>2 DEF ClaimStops, Reconcile
      <4>2. OpenOn(l) \subseteq Grants BY DEF OpenOn
      <4>3. Charged(OpenOn(l)) \in [Grants -> Nat] BY ChargedTyped
      <4> QED BY <4>1, <4>2, <4>3
    <3> QED BY <3>1, <3>2
  <2> QED BY <1>2, <2>1 DEF ClaimStops
<1>3. ASSUME NEW w \in Workers, Segment(w) PROVE TypeOK'
  <2>1. CASE Bind(w)
    <3>1. faults' \in 0..MaxFaults BY <2>1, BoundsAssumption DEF Bind
    <3> QED BY <2>1, <3>1 DEF Bind
  <2>2. CASE Admit(w)
    <3>1. PICK chunk \in Nat :
            reserved' = reserved \/ reserved' = [reserved EXCEPT ![mine[w]] = @ + chunk]
      <4>1. Margin..Chunk \subseteq Nat BY BytesAssumption
      <4> QED BY <2>2, <4>1 DEF Admit
    <3>2. reserved' \in [Grants -> Nat]
      <4>1. [reserved EXCEPT ![mine[w]] = @ + chunk] \in [Grants -> Nat] BY Grows
      <4> QED BY <3>1, <4>1
    <3> QED BY <2>2, <3>2 DEF Admit
  <2>3. CASE AdmitStops(w)
    <3>1. stopped' \in BOOLEAN BY <2>3, Zenon DEF AdmitStops
    <3> QED BY <2>3, <3>1 DEF AdmitStops
  <2>4. CASE EndSegment(w) BY <2>4 DEF EndSegment
  <2>5. ASSUME NEW n \in Nat, WriteFrame(w, n) PROVE TypeOK'
    <3>1. disk' \in [Grants -> Nat] BY <2>5, Grows DEF WriteFrame
    <3>2. stage' \in [Workers -> {"off"} \cup Writing] /\ mine' = mine /\ stage[w] # "off"
      BY <2>5 DEF WriteFrame
    <3>3. \A v \in Workers : stage'[v] # "off" => mine'[v] \in Grants
      BY <2>5, <3>2 DEF WriteFrame
    <3> QED BY <2>5, <3>1, <3>2, <3>3 DEF WriteFrame
  <2>6. ASSUME NEW n \in Nat, FinishRun(w, n) PROVE TypeOK'
    <3>1. disk' \in [Grants -> Nat] BY <2>6, Grows DEF FinishRun
    <3> QED BY <2>6, <3>1 DEF FinishRun
  <2>7. ASSUME NEW n \in Nat, TakeSnapshot(w, n) PROVE TypeOK'
    <3>1. disk' \in [Grants -> Nat] BY <2>7 DEF TakeSnapshot
    <3> QED BY <2>7, <3>1 DEF TakeSnapshot
  <2>8. CASE WriteReceipt(w)
    <3>1. faults' \in 0..MaxFaults BY <2>8, BoundsAssumption DEF WriteReceipt
    <3> QED BY <2>8, <3>1 DEF WriteReceipt
  <2>9. CASE CloseRow(w)
    <3>1. /\ stage' = [stage EXCEPT ![w] = "off"] /\ mine' = [mine EXCEPT ![w] = 0]
          /\ stage' \in [Workers -> {"off"} \cup Writing] /\ mine' \in [Workers -> Nat]
      BY <2>9 DEF CloseRow
    <3>2. \A v \in Workers : stage'[v] # "off" => mine'[v] \in Grants BY <3>1
    <3>3. /\ open' \subseteq Grants /\ closed' \subseteq Grants /\ consumed' \in [Grants -> Nat]
          /\ located' \subseteq Grants /\ verified' \subseteq Grants
          /\ holder' \in [Grants -> Workers \cup {Nobody}]
      <4>1. CASE mine[w] \in open
        <5>1. /\ open' = open \ {mine[w]} /\ closed' = closed \cup {mine[w]}
              /\ located' = located \cup {mine[w]} /\ verified' \subseteq verified \cup {mine[w]}
          BY <2>9, <4>1 DEF CloseRow
        <5>2. /\ consumed' = [consumed EXCEPT ![mine[w]] = disk[mine[w]]]
              /\ holder' = [holder EXCEPT ![mine[w]] = Nobody]
          BY <2>9, <4>1 DEF CloseRow
        <5>3. mine[w] \in Grants /\ disk[mine[w]] \in Nat BY <4>1
        <5> HIDE DEF Grants
        <5>4. consumed' \in [Grants -> Nat] /\ holder' \in [Grants -> Workers \cup {Nobody}]
          BY <5>2, <5>3
        <5> QED BY <5>1, <5>3, <5>4
      <4>2. CASE mine[w] \notin open BY <2>9, <4>2 DEF CloseRow
      <4> QED BY <4>1, <4>2
    <3> QED BY <2>9, <3>1, <3>2, <3>3 DEF CloseRow
  <2>10. CASE CloseRowFails(w)
    <3>1. faults' \in 0..MaxFaults BY <2>10, BoundsAssumption DEF CloseRowFails
    <3> QED BY <2>10, <3>1 DEF CloseRowFails
  <2> HIDE DEF TypeOK
  <2> QED BY <1>3, <2>1, <2>2, <2>3, <2>4, <2>5, <2>6, <2>7, <2>8, <2>9, <2>10, SegmentSteps
<1>4. ASSUME NEW w \in Workers, Exit(w) PROVE TypeOK'
  <2>1. faults' \in 0..MaxFaults BY <1>4, BoundsAssumption DEF Exit
  <2>2. holder' \in [Grants -> Workers \cup {Nobody}] BY <1>4 DEF Exit
  <2> QED BY <1>4, <2>1, <2>2 DEF Exit
<1>5. CASE Operator
  <2>1. CASE Stop BY <2>1 DEF Stop
  <2>2. CASE Settle
    <3>1. consumed' = Charged(open) /\ closed' = closed \cup open
      BY <2>2 DEF Settle, Reconcile
    <3>2. consumed' \in [Grants -> Nat] /\ closed' \subseteq Grants
      BY <3>1, ChargedTyped
    <3> QED BY <2>2, <3>2 DEF Settle
  <2>3. CASE ListGrants BY <2>3 DEF ListGrants
  <2>4. CASE WriteFinal
    <3>1. faults' \in 0..MaxFaults BY <2>4, BoundsAssumption DEF WriteFinal
    <3> QED BY <2>4, <3>1 DEF WriteFinal
  <2>5. CASE MarkFinalized BY <2>5 DEF MarkFinalized
  <2>6. CASE FinalizeDies
    <3>1. faults' \in 0..MaxFaults BY <2>6, BoundsAssumption DEF FinalizeDies
    <3> QED BY <2>6, <3>1 DEF FinalizeDies
  <2> QED BY <1>5, <2>1, <2>2, <2>3, <2>4, <2>5, <2>6 DEF Operator
<1>6. CASE Expire
  BY <1>6 DEF Expire
<1>7. CASE UNCHANGED vars
  BY <1>7 DEF vars
<1> QED BY <1>1, <1>2, <1>3, <1>4, <1>5, <1>6, <1>7 DEF Next

\* The types and the numbering of the rows hold at first.
LEMMA InitSafe == Init => IInv
<1> SUFFICES ASSUME Init PROVE IInv
  OBVIOUS
<1>1. TypeOK BY InitTyped
<1>2. RowsInv
  <2>1. open \cup closed = 1..0 BY DEF Init
  <2>2. 0 \in 0..MaxGrants BY BoundsAssumption
  <2> QED BY <2>1, <2>2 DEF Init, RowsInv
<1>3. WriterInv /\ ReceiptInv /\ FinalInv /\ ClosedIsCharged
  BY DEF Init, WriterInv, ReceiptInv, ReceiptBeforeRow, FinalInv, ClosedIsCharged
<1> QED BY <1>1, <1>2, <1>3 DEF IInv

\* Only a claim adds a row, the next one, and it leaves its lane no other open row.
LEMMA StepRows ==
    ASSUME IInv, [Next]_vars
    PROVE  RowsInv'
<1> USE DEF IInv, TypeOK
<1>1. ASSUME NEW w \in Workers, NEW l \in Lanes, Claim(w, l) PROVE RowsInv'
  <2> DEFINE last == Issued + 1
  <2>1. /\ last \in Grants /\ last \notin open \cup closed
        /\ open \cup closed \cup {last} = 1..last
    BY <1>1, NextRow DEF Claim
  <2>2. /\ open' = (open \ OpenOn(l)) \cup {last} /\ closed' = closed \cup OpenOn(l)
        /\ lane' = [lane EXCEPT ![last] = l]
    BY <1>1 DEF Claim, Reconcile
  <2> HIDE DEF last
  <2>3. OpenOn(l) \subseteq open BY DEF OpenOn
  <2>4. open' \cup closed' = 1..last BY <2>1, <2>2, <2>3
  <2>5. last \in 0..MaxGrants BY <2>1, BoundsAssumption
  <2>6. open' \cap closed' = {} BY <2>1, <2>2, <2>3 DEF RowsInv
  <2>7. ASSUME NEW g \in open', NEW h \in open', lane'[g] = lane'[h] PROVE g = h
    <3>1. \A k \in open \ OpenOn(l) : k # last /\ lane'[k] = lane[k] /\ lane[k] # l
      BY <2>1, <2>2 DEF OpenOn
    <3>2. lane'[last] = l BY <2>1, <2>2
    <3> QED BY <2>2, <2>7, <3>1, <3>2 DEF RowsInv
  <2> QED BY <2>4, <2>5, <2>6, <2>7 DEF RowsInv
<1>2. ASSUME NEW w \in Workers, NEW l \in Lanes, ClaimStops(w, l) PROVE RowsInv'
  <2>1. CASE expired BY <1>2, <2>1 DEF ClaimStops, RowsInv
  <2>2. CASE ~expired
    <3>1. /\ open' = open \ OpenOn(l) /\ closed' = closed \cup OpenOn(l) /\ lane' = lane
      BY <1>2, <2>2 DEF ClaimStops, Reconcile
    <3>2. OpenOn(l) \subseteq open BY DEF OpenOn
    <3>3. open' \cup closed' = open \cup closed BY <3>1, <3>2
    <3> QED BY <3>1, <3>2, <3>3 DEF RowsInv
  <2> QED BY <2>1, <2>2
<1>3. ASSUME NEW w \in Workers, CloseRow(w) PROVE RowsInv'
  <2>1. CASE mine[w] \in open
    <3>1. open' = open \ {mine[w]} /\ closed' = closed \cup {mine[w]} /\ lane' = lane
      BY <1>3, <2>1 DEF CloseRow
    <3>2. open' \cup closed' = open \cup closed BY <2>1, <3>1
    <3> QED BY <3>1, <3>2 DEF RowsInv
  <2>2. CASE mine[w] \notin open BY <1>3, <2>2 DEF CloseRow, RowsInv
  <2> QED BY <2>1, <2>2
<1>4. CASE Settle
  <2>1. open' = {} /\ closed' = closed \cup open BY <1>4 DEF Settle, Reconcile
  <2>2. open' \cup closed' = open \cup closed BY <2>1
  <2> QED BY <2>1, <2>2 DEF RowsInv
<1>5. CASE UNCHANGED <<open, closed, lane>>
  BY <1>5 DEF RowsInv
<1>6. ASSUME NEW w \in Workers, Segment(w), ~CloseRow(w)
      PROVE  UNCHANGED <<open, closed, lane>>
  BY <1>6 DEF Segment, Bind, Admit, AdmitStops, EndSegment, WriteFrame, FinishRun,
              TakeSnapshot, WriteReceipt, CloseRowFails
<1>7. ASSUME Operator, ~Settle PROVE UNCHANGED <<open, closed, lane>>
  BY <1>7 DEF Operator, Stop, ListGrants, WriteFinal, MarkFinalized, FinalizeDies
<1>8. (\E w \in Workers : Exit(w)) \/ Expire \/ UNCHANGED vars
        => UNCHANGED <<open, closed, lane>>
  BY DEF Exit, Expire, vars
<1> QED BY <1>1, <1>2, <1>3, <1>4, <1>5, <1>6, <1>7, <1>8 DEF Next

\* Nobody but the worker itself closes the row it writes for, and no other process
\* takes its place on the row.
LEMMA StepWriter ==
    ASSUME IInv, [Next]_vars
    PROVE  WriterInv'
<1> USE DEF IInv, TypeOK, WriterInv
<1>1. ASSUME NEW w \in Workers, NEW l \in Lanes, Claim(w, l) PROVE WriterInv'
  <2> DEFINE last == Issued + 1
  <2>1. last \in Grants /\ last \notin open \cup closed
    BY <1>1, NextRow DEF Claim
  <2>2. /\ open' = (open \ OpenOn(l)) \cup {last}
        /\ holder' = [holder EXCEPT ![last] = w] /\ mine' = [mine EXCEPT ![w] = last]
        /\ stage' = [stage EXCEPT ![w] = "claimed"]
        /\ \A g \in OpenOn(l) : holder[g] = Nobody
    BY <1>1 DEF Claim, Reconcile, Abandoned
  <2> HIDE DEF last
  <2>3. ASSUME NEW v \in Workers, stage'[v] \in Writing
        PROVE  mine'[v] \in open' /\ holder'[mine'[v]] = v
    <3>1. CASE v = w BY <2>1, <2>2, <3>1
    <3>2. CASE v # w
      <4>1. mine[v] \in open /\ holder[mine[v]] = v /\ mine'[v] = mine[v]
        BY <2>2, <2>3, <3>2
      <4>2. mine[v] \notin OpenOn(l) BY <2>2, <4>1, NobodyAssumption
      <4> QED BY <2>1, <2>2, <4>1, <4>2
    <3> QED BY <3>1, <3>2
  <2> QED BY <2>3
<1>2. ASSUME NEW w \in Workers, NEW l \in Lanes, ClaimStops(w, l) PROVE WriterInv'
  <2>1. \A g \in open \ open' : holder[g] = Nobody
    BY <1>2 DEF ClaimStops, Reconcile, Abandoned
  <2>2. holder' = holder /\ mine' = mine /\ stage' = stage BY <1>2 DEF ClaimStops
  <2> QED BY <2>1, <2>2, NobodyAssumption
<1>3. ASSUME NEW w \in Workers, Segment(w) PROVE WriterInv'
  <2>1. CASE CloseRow(w)
    <3>1. ASSUME NEW v \in Workers, stage'[v] \in Writing
          PROVE  mine'[v] \in open' /\ holder'[mine'[v]] = v
      <4>1. v # w /\ stage'[v] = stage[v] /\ mine'[v] = mine[v]
        BY <2>1, <3>1 DEF CloseRow
      <4>2. mine[v] # mine[w] /\ mine[v] \in Grants
        BY <2>1, <3>1, <4>1 DEF CloseRow
      <4> QED BY <2>1, <3>1, <4>1, <4>2 DEF CloseRow
    <3> QED BY <3>1
  <2>2. CASE ~CloseRow(w)
    <3> DEFINE Local ==
          /\ open' = open /\ holder' = holder /\ stage[w] \in Writing
          /\ stage' = [stage EXCEPT ![w] = stage'[w]]
          /\ mine' = mine \/ (mine' = [mine EXCEPT ![w] = 0] /\ stage'[w] = "off")
    <3>1. Local
      <4>1. CASE Bind(w) BY <4>1 DEF Bind
      <4>2. CASE Admit(w) BY <4>2 DEF Admit
      <4>3. CASE AdmitStops(w) \/ EndSegment(w) BY <4>3 DEF AdmitStops, EndSegment
      <4>4. ASSUME NEW n \in Nat, WriteFrame(w, n) \/ FinishRun(w, n) \/ TakeSnapshot(w, n)
            PROVE  Local
        BY <4>4 DEF WriteFrame, FinishRun, TakeSnapshot
      <4>5. CASE WriteReceipt(w) BY <4>5 DEF WriteReceipt
      <4>6. CASE CloseRowFails(w) BY <4>6 DEF CloseRowFails
      <4> HIDE DEF IInv, TypeOK, WriterInv, Local
      <4> QED BY <1>3, <2>2, <4>1, <4>2, <4>3, <4>4, <4>5, <4>6, SegmentSteps
    <3> QED BY <3>1
  <2> QED BY <2>1, <2>2
<1>4. ASSUME NEW w \in Workers, Exit(w) PROVE WriterInv'
  BY <1>4 DEF Exit
<1>5. CASE Settle
  <2>1. \A g \in open : holder[g] = Nobody BY <1>5 DEF Settle, Reconcile, Abandoned
  <2>2. holder' = holder /\ mine' = mine /\ stage' = stage BY <1>5 DEF Settle
  <2> QED BY <2>1, <2>2, NobodyAssumption
<1>6. CASE Operator /\ ~Settle
  BY <1>6 DEF Operator, Stop, ListGrants, WriteFinal, MarkFinalized, FinalizeDies
<1>7. CASE Expire
  BY <1>7 DEF Expire
<1>8. CASE UNCHANGED vars
  BY <1>8 DEF vars
<1> QED BY <1>1, <1>2, <1>3, <1>4, <1>5, <1>6, <1>7, <1>8 DEF Next

\* A closed row keeps its charge, and nobody writes to its run any more: a writer's
\* row is open.
LEMMA StepCharged ==
    ASSUME IInv, [Next]_vars
    PROVE  ClosedIsCharged'
<1> USE DEF IInv, TypeOK, ClosedIsCharged
<1>1. ASSUME NEW G \in SUBSET open, Reconcile(G), UNCHANGED <<located, disk>>
      PROVE  ClosedIsCharged'
  <2>1. \A g \in Grants : consumed'[g] = IF g \in G THEN IF g \in located THEN disk[g] ELSE 0
                                         ELSE consumed[g]
    BY <1>1 DEF Reconcile, Charged
  <2>2. closed' = closed \cup G BY <1>1 DEF Reconcile
  <2> QED BY <1>1, <2>1, <2>2
<1>2. ASSUME NEW w \in Workers, NEW l \in Lanes, Claim(w, l) PROVE ClosedIsCharged'
  <2>1. OpenOn(l) \in SUBSET open BY DEF OpenOn
  <2> QED BY <1>1, <1>2, <2>1 DEF Claim
<1>3. ASSUME NEW w \in Workers, NEW l \in Lanes, ClaimStops(w, l) PROVE ClosedIsCharged'
  <2>1. OpenOn(l) \in SUBSET open BY DEF OpenOn
  <2>2. UNCHANGED <<located, disk>> BY <1>3 DEF ClaimStops
  <2>3. CASE expired BY <1>3, <2>2, <2>3 DEF ClaimStops
  <2>4. CASE ~expired BY <1>1, <1>3, <2>1, <2>2, <2>4 DEF ClaimStops
  <2> QED BY <2>3, <2>4
<1>4. CASE Settle
  BY <1>1, <1>4 DEF Settle
<1>5. ASSUME NEW w \in Workers, CloseRow(w) PROVE ClosedIsCharged'
  <2>1. mine[w] \in open /\ disk' = disk BY <1>5 DEF CloseRow, WriterInv
  <2>2. /\ closed' = closed \cup {mine[w]} /\ located' = located \cup {mine[w]}
        /\ consumed' = [consumed EXCEPT ![mine[w]] = disk[mine[w]]]
    BY <1>5, <2>1 DEF CloseRow
  <2> QED BY <2>1, <2>2
<1>6. ASSUME NEW w \in Workers, Segment(w), ~CloseRow(w) PROVE ClosedIsCharged'
  <2>1. stage[w] \in Writing
    BY <1>6 DEF Segment, Bind, Admit, AdmitStops, EndSegment, WriteFrame, FinishRun,
                TakeSnapshot, WriteReceipt, CloseRowFails
  <2>2. mine[w] \in Grants /\ mine[w] \notin closed
    BY <2>1 DEF WriterInv, RowsInv
  <2>3. CASE Bind(w) BY <2>2, <2>3 DEF Bind
  <2>4. CASE UNCHANGED <<closed, located, consumed, disk>> BY <2>4
  <2>5. ASSUME NEW x, disk' = [disk EXCEPT ![mine[w]] = x],
               UNCHANGED <<closed, located, consumed>>
        PROVE  ClosedIsCharged'
    BY <2>2, <2>5
  <2>6. CASE Admit(w) BY <2>4, <2>6 DEF Admit
  <2>7. CASE AdmitStops(w) \/ EndSegment(w) \/ WriteReceipt(w) \/ CloseRowFails(w)
    BY <2>4, <2>7 DEF AdmitStops, EndSegment, WriteReceipt, CloseRowFails
  <2>8. ASSUME NEW n \in Nat, WriteFrame(w, n) PROVE ClosedIsCharged'
    BY <2>5, <2>8 DEF WriteFrame
  <2>9. ASSUME NEW n \in Nat, FinishRun(w, n) PROVE ClosedIsCharged'
    BY <2>5, <2>9 DEF FinishRun
  <2>10. ASSUME NEW n \in Nat, TakeSnapshot(w, n) PROVE ClosedIsCharged'
    BY <2>5, <2>10 DEF TakeSnapshot
  <2> HIDE DEF IInv, TypeOK, ClosedIsCharged
  <2> QED BY <1>6, <2>3, <2>6, <2>7, <2>8, <2>9, <2>10, SegmentSteps
<1>7. ASSUME (\E w \in Workers : Exit(w)) \/ (Operator /\ ~Settle) \/ Expire \/ UNCHANGED vars
      PROVE  UNCHANGED <<closed, located, consumed, disk>>
  BY <1>7 DEF Exit, Operator, Stop, ListGrants, WriteFinal, MarkFinalized, FinalizeDies,
              Expire, vars
<1> QED BY <1>2, <1>3, <1>4, <1>5, <1>6, <1>7 DEF Next

\* The file of a receipt stays, and a row is closed with it only after it is written.
LEMMA StepReceipt ==
    ASSUME IInv, [Next]_vars
    PROVE  ReceiptInv'
<1> USE DEF IInv, TypeOK, ReceiptInv, ReceiptBeforeRow
<1>1. ASSUME NEW w \in Workers, NEW l \in Lanes, Claim(w, l) PROVE ReceiptInv'
  BY <1>1 DEF Claim
<1>2. ASSUME NEW w \in Workers, NEW l \in Lanes, ClaimStops(w, l) PROVE ReceiptInv'
  BY <1>2 DEF ClaimStops
<1>3. ASSUME NEW w \in Workers, CloseRow(w) PROVE ReceiptInv'
  <2>1. \A v \in Workers : stage'[v] = "receipted" => stage[v] = "receipted" /\ mine'[v] = mine[v]
    BY <1>3 DEF CloseRow
  <2>2. receipts' = receipts BY <1>3 DEF CloseRow
  <2>3. mine[w] \in open BY <1>3 DEF CloseRow, WriterInv
  <2>4. CASE stage[w] = "receipted"
    <3>1. verified' = verified \cup {mine[w]} BY <1>3, <2>3, <2>4 DEF CloseRow
    <3> QED BY <2>1, <2>2, <2>4, <3>1
  <2>5. CASE stage[w] # "receipted"
    <3>1. verified' = verified BY <1>3, <2>3, <2>5 DEF CloseRow
    <3> QED BY <2>1, <2>2, <3>1
  <2> QED BY <2>4, <2>5
<1>4. ASSUME NEW w \in Workers, WriteReceipt(w) PROVE ReceiptInv'
  BY <1>4 DEF WriteReceipt
<1>5. ASSUME NEW w \in Workers, Segment(w), ~CloseRow(w), ~WriteReceipt(w) PROVE ReceiptInv'
  <2>1. UNCHANGED <<verified, receipts>>
    BY <1>5 DEF Segment, Bind, Admit, AdmitStops, EndSegment, WriteFrame, FinishRun,
                TakeSnapshot, CloseRowFails
  <2> DEFINE Stays == \A v \in Workers :
                        stage'[v] = "receipted" => stage[v] = "receipted" /\ mine'[v] = mine[v]
  <2>2. Stays
    <3>1. CASE Bind(w) BY <3>1 DEF Bind
    <3>2. CASE Admit(w) BY <3>2 DEF Admit
    <3>3. CASE AdmitStops(w) \/ EndSegment(w) \/ CloseRowFails(w)
      BY <3>3 DEF AdmitStops, EndSegment, CloseRowFails
    <3>4. ASSUME NEW n \in Nat, WriteFrame(w, n) PROVE Stays BY <3>4 DEF WriteFrame
    <3>5. ASSUME NEW n \in Nat, FinishRun(w, n) PROVE Stays BY <3>5 DEF FinishRun
    <3>6. ASSUME NEW n \in Nat, TakeSnapshot(w, n) PROVE Stays BY <3>6 DEF TakeSnapshot
    <3> HIDE DEF IInv, TypeOK, Stays
    <3> QED BY <1>5, <3>1, <3>2, <3>3, <3>4, <3>5, <3>6, SegmentSteps
  <2> QED BY <2>1, <2>2
<1>6. ASSUME NEW w \in Workers, Exit(w) PROVE ReceiptInv'
  BY <1>6 DEF Exit
<1>7. CASE Operator
  BY <1>7 DEF Operator, Stop, Settle, ListGrants, WriteFinal, MarkFinalized, FinalizeDies
<1>8. CASE Expire \/ UNCHANGED vars
  BY <1>8 DEF Expire, vars
<1> QED BY <1>1, <1>2, <1>3, <1>4, <1>5, <1>6, <1>7, <1>8 DEF Next

\* With every row closed no worker is in a segment, and a stopped attempt gets no
\* new one: the ledger and the files stay as they are.
LEMMA Quiet ==
    ASSUME IInv, stopped, open = {}, final # "none" \/ operator # "idle", [Next]_vars
    PROVE  /\ stopped'
           /\ UNCHANGED <<open, closed, consumed, verified, disk, receipts>>
<1> USE DEF IInv, TypeOK
<1>1. \A w \in Workers : stage[w] = "off"
  BY DEF WriterInv
<1>2. ASSUME NEW w \in Workers, NEW l \in Lanes, Claim(w, l) \/ ClaimStops(w, l) PROVE FALSE
  BY <1>2 DEF Claim, ClaimStops
<1>3. ASSUME NEW w \in Workers, Segment(w) PROVE FALSE
  BY <1>1, <1>3 DEF Segment, Bind, Admit, AdmitStops, EndSegment, WriteFrame, FinishRun,
                    TakeSnapshot, WriteReceipt, CloseRow, CloseRowFails
<1>4. ASSUME NEW w \in Workers, Exit(w)
      PROVE  stopped' = stopped /\ UNCHANGED <<open, closed, consumed, verified, disk, receipts>>
  BY <1>4 DEF Exit
<1>5. Operator => /\ stopped' = TRUE \/ stopped' = stopped
                  /\ UNCHANGED <<open, closed, consumed, verified, disk, receipts>>
  BY DEF Operator, Stop, Settle, ListGrants, WriteFinal, MarkFinalized, FinalizeDies
<1>6. Expire \/ UNCHANGED vars
        => stopped' = stopped /\ UNCHANGED <<open, closed, consumed, verified, disk, receipts>>
  BY DEF Expire, vars
<1> QED BY <1>2, <1>3, <1>4, <1>5, <1>6 DEF Next

\* Only the operator leaves "idle" and writes the final receipt.
LEMMA OperatorsOwn ==
    ASSUME [Next]_vars, ~Operator
    PROVE  UNCHANGED finalVars
<1>1. ASSUME NEW w \in Workers, NEW l \in Lanes, Claim(w, l) \/ ClaimStops(w, l)
      PROVE  UNCHANGED finalVars
  BY <1>1 DEF Claim, ClaimStops
<1>2. ASSUME NEW w \in Workers, Segment(w) PROVE UNCHANGED finalVars
  BY <1>2 DEF Segment, Bind, Admit, AdmitStops, EndSegment, WriteFrame, FinishRun,
              TakeSnapshot, WriteReceipt, CloseRow, CloseRowFails
<1>3. (\E w \in Workers : Exit(w)) \/ Expire \/ UNCHANGED vars => UNCHANGED finalVars
  BY DEF Exit, Expire, vars
<1> QED BY <1>1, <1>2, <1>3 DEF Next

\* settle() leaves no open row and a stopped attempt, and all that follows keeps both.
LEMMA StepFinal ==
    ASSUME IInv, [Next]_vars
    PROVE  FinalInv'
<1> USE DEF FinalInv
<1>1. CASE operator = "idle" /\ final # "whole"
  <2>1. CASE Settle
    <3>1. operator' = "settled" /\ final' = final /\ open' = {} BY <2>1 DEF Settle
    <3>2. stopped' BY <2>1, Zenon DEF Settle
    <3> QED BY <1>1, <3>1, <3>2
  <2>2. CASE Operator /\ ~Settle
    <3>1. UNCHANGED <<operator, final>>
      BY <1>1, <2>2 DEF Operator, Stop, ListGrants, WriteFinal, MarkFinalized, FinalizeDies
    <3> QED BY <1>1, <3>1
  <2>3. CASE ~Operator BY <1>1, <2>3, OperatorsOwn
  <2> QED BY <2>1, <2>2, <2>3
<1>2. CASE operator # "idle" \/ final = "whole"
  <2>1. stopped /\ open = {} BY <1>2 DEF IInv
  <2>2. stopped' /\ open' = {} /\ closed' = closed BY <1>2, <2>1, Quiet
  <2>3. operator' \in {"listed", "written"} \/ final' = "whole" => listed' = closed'
    <3>1. CASE Settle BY <1>2, <3>1 DEF Settle
    <3>2. CASE ListGrants BY <2>1, <2>2, <3>2 DEF ListGrants
    <3>3. CASE Stop \/ WriteFinal \/ MarkFinalized \/ FinalizeDies
      BY <2>2, <3>3 DEF IInv, Stop, WriteFinal, MarkFinalized, FinalizeDies
    <3>4. CASE ~Operator BY <2>2, <3>4, OperatorsOwn DEF IInv
    <3> QED BY <3>1, <3>2, <3>3, <3>4 DEF Operator
  <2> QED BY <2>2, <2>3
<1> QED BY <1>1, <1>2

-----------------------------------------------------------------------------
LEMMA Invariance == Spec => []IInv
<1>1. Init => IInv
  BY InitSafe
<1>2. IInv /\ [Next]_vars => IInv'
  BY StepTyped, StepRows, StepWriter, StepCharged, StepReceipt, StepFinal DEF IInv
<1> QED BY <1>1, <1>2, PTL DEF Spec

\* The variables keep their types; a grant a worker writes for is one of max_grants.
THEOREM CanaryTypeCorrect == Spec => []TypeOK
<1>1. IInv => TypeOK BY DEF IInv
<1> QED BY <1>1, Invariance, PTL

\* Two live workers are never in a segment of one lane: each has its row open, in
\* its own name, and a lane has one open row.
THEOREM OneWriter == Spec => []OneWriterPerLane
<1>1. IInv => OneWriterPerLane BY DEF IInv, RowsInv, WriterInv, OneWriterPerLane
<1> QED BY <1>1, Invariance, PTL

\* The charge of a closed row is what its run holds, whichever transaction closed it.
THEOREM ClosedRowsCharged == Spec => []ClosedIsCharged
<1>1. IInv => ClosedIsCharged BY DEF IInv
<1> QED BY <1>1, Invariance, PTL

\* A row that names a receipt finds it on disk.
THEOREM ReceiptFirst == Spec => []ReceiptBeforeRow
<1>1. IInv => ReceiptBeforeRow BY DEF IInv, ReceiptInv
<1> QED BY <1>1, Invariance, PTL

\* Every closed row is true: it is charged what its run holds, and names a receipt
\* only when there is one (close, claim and settle).
THEOREM ClosedRowsTrue == Spec => []ClosedRowsAreTrue
<1>1. ClosedIsCharged /\ ReceiptBeforeRow => ClosedRowsAreTrue
  BY DEF ClosedRowsAreTrue
<1> QED BY <1>1, ClosedRowsCharged, ReceiptFirst, PTL

\* The whole receipt.json lists every grant, and no step after it opens, closes or
\* charges one or writes a byte.
THEOREM FinalReceiptIsFinal == Spec => FinalIsFinal
<1>1. IInv /\ [Next]_vars
        => [final = "whole" =>
              /\ listed = closed /\ open = {}
              /\ UNCHANGED <<open, closed, consumed, verified, disk, receipts>>]_vars
  <2> SUFFICES ASSUME IInv, [Next]_vars, final = "whole"
               PROVE  /\ listed = closed /\ open = {}
                      /\ UNCHANGED <<open, closed, consumed, verified, disk, receipts>>
    OBVIOUS
  <2>1. stopped /\ open = {} /\ listed = closed BY DEF IInv, FinalInv
  <2> QED BY <2>1, Quiet
<1> QED BY <1>1, Invariance, PTL DEF Spec, FinalIsFinal
-----------------------------------------------------------------------------
(* The pool.  A byte is a cell of the grant it is counted for, and a sum is *)
(* the number of cells.                                                     *)

Cells(bytes, G) == UNION {{g} \X (1..bytes[g]) : g \in G}

\* A cell is a grant and the number of one of its bytes.
LEMMA InCells ==
    ASSUME NEW f, NEW G, NEW p
    PROVE  p \in Cells(f, G) <=> \E g \in G : \E i \in 1..f[g] : p = <<g, i>>
  BY DEF Cells

\* A sum is the number of its cells.
LEMMA CellsFinite ==
    ASSUME NEW D, IsFiniteSet(D), NEW f \in [D -> Nat], NEW G \in SUBSET D
    PROVE  /\ IsFiniteSet(Cells(f, G))
           /\ SumOf(f, G) = Cardinality(Cells(f, G)) /\ SumOf(f, G) \in Nat
<1> DEFINE RowOf(g) == {g} \X (1..f[g])
           Rows == {RowOf(g) : g \in G}
<1>1. IsFiniteSet(G) BY FS_Subset
<1>2. IsFiniteSet(Rows)
  <2>1. [g \in G |-> RowOf(g)] \in Surjection(G, Rows) BY DEF Surjection
  <2> QED BY <1>1, <2>1, FS_Surjection
<1>3. ASSUME NEW g \in G PROVE IsFiniteSet(RowOf(g))
  <2>1. IsFiniteSet({g}) BY FS_Singleton
  <2>2. IsFiniteSet(1..f[g]) BY FS_Interval
  <2> QED BY <2>1, <2>2, FS_Product
<1>4. \A T \in Rows : IsFiniteSet(T) BY <1>3
<1>5. IsFiniteSet(UNION Rows)
  <2> HIDE DEF Rows
  <2> QED BY <1>2, <1>4, FS_UNION
<1>6. UNION Rows = Cells(f, G) BY DEF Cells
<1>7. SumOf(f, G) = Cardinality(Cells(f, G)) BY DEF SumOf, Cells
<1> QED BY <1>5, <1>6, <1>7, FS_CardinalityType

\* A sum depends on the summands alone.
LEMMA SumSame ==
    ASSUME NEW f, NEW h, NEW G, \A g \in G : f[g] = h[g]
    PROVE  SumOf(f, G) = SumOf(h, G)
<1>1. Cells(f, G) = Cells(h, G) BY DEF Cells
<1> QED BY <1>1 DEF SumOf, Cells

\* The sum over one grant.
LEMMA SumOne ==
    ASSUME NEW D, NEW f \in [D -> Nat], NEW g \in D
    PROVE  SumOf(f, {g}) = f[g]
<1>1. UNION {{h} \X (1..f[h]) : h \in {g}} = {g} \X (1..f[g]) OBVIOUS
<1>2. IsFiniteSet({g}) /\ Cardinality({g}) = 1 BY FS_Singleton
<1>3. IsFiniteSet(1..f[g]) /\ Cardinality(1..f[g]) = f[g] BY FS_Interval
<1>4. Cardinality({g} \X (1..f[g])) = 1 * f[g]
  <2>1. PICK A, B : A = {g} /\ B = 1..f[g] OBVIOUS
  <2>2. Cardinality(A \X B) = Cardinality(A) * Cardinality(B) BY <1>2, <1>3, <2>1, FS_Product
  <2> QED BY <1>2, <1>3, <2>1, <2>2
<1> QED BY <1>1, <1>4 DEF SumOf

\* The sums over two disjoint sets add up.
LEMMA SumSplit ==
    ASSUME NEW D, IsFiniteSet(D), NEW f \in [D -> Nat],
           NEW G \in SUBSET D, NEW H \in SUBSET D, G \cap H = {}
    PROVE  SumOf(f, G \cup H) = SumOf(f, G) + SumOf(f, H)
<1>1. Cells(f, G \cup H) = Cells(f, G) \cup Cells(f, H)
  BY InCells
<1>2. Cells(f, G) \cap Cells(f, H) = {}
  BY InCells
<1>3. Cardinality(Cells(f, G) \cap Cells(f, H)) = 0 BY <1>2, FS_EmptySet
<1>4. /\ IsFiniteSet(Cells(f, G)) /\ IsFiniteSet(Cells(f, H))
      /\ SumOf(f, G) = Cardinality(Cells(f, G)) /\ SumOf(f, H) = Cardinality(Cells(f, H))
      /\ SumOf(f, G) \in Nat /\ SumOf(f, H) \in Nat
      /\ SumOf(f, G \cup H) = Cardinality(Cells(f, G \cup H))
  BY CellsFinite
<1>5. Cardinality(Cells(f, G) \cup Cells(f, H))
        = Cardinality(Cells(f, G)) + Cardinality(Cells(f, H))
            - Cardinality(Cells(f, G) \cap Cells(f, H))
  BY <1>4, FS_Union
<1>6. Cardinality(Cells(f, G \cup H)) = SumOf(f, G) + SumOf(f, H)
  <2>1. Cardinality(Cells(f, G) \cup Cells(f, H)) = SumOf(f, G) + SumOf(f, H)
    BY <1>3, <1>4, <1>5
  <2> QED BY <1>1, <2>1
<1> QED BY <1>4, <1>6

\* A sum, taken apart.
LEMMA SumParts ==
    ASSUME NEW D, IsFiniteSet(D), NEW f \in [D -> Nat],
           NEW H \in SUBSET D, NEW G \in SUBSET H
    PROVE  SumOf(f, H) = SumOf(f, H \ G) + SumOf(f, G)
<1>1. G \in SUBSET D /\ H \ G \in SUBSET D /\ (H \ G) \cap G = {} OBVIOUS
<1>2. SumOf(f, (H \ G) \cup G) = SumOf(f, H \ G) + SumOf(f, G)
  BY <1>1, SumSplit
<1>3. (H \ G) \cup G = H OBVIOUS
<1> QED BY <1>2, <1>3

\* More grants do not come to less.
LEMMA SumSubset ==
    ASSUME NEW D, IsFiniteSet(D), NEW f \in [D -> Nat],
           NEW H \in SUBSET D, NEW G \in SUBSET H
    PROVE  SumOf(f, G) <= SumOf(f, H)
<1>1. Cells(f, G) \subseteq Cells(f, H) BY InCells
<1> QED BY <1>1, CellsFinite, FS_Subset

\* Summands that are larger by up to c make a sum that is larger by up to c for each.
LEMMA SumBound ==
    ASSUME NEW D, IsFiniteSet(D), NEW f \in [D -> Nat], NEW h \in [D -> Nat],
           NEW c \in Nat, NEW G \in SUBSET D, \A g \in G : f[g] <= h[g] + c
    PROVE  SumOf(f, G) <= SumOf(h, G) + Cardinality(G) * c
<1> DEFINE Over == Cells(f, G) \ Cells(h, G)
           Cell(p) == <<p[1], p[2] - h[p[1]]>>
           move == [p \in Over |-> Cell(p)]
<1>1. \A p \in Over : \E g \in G : \E i \in 1..f[g] : p = <<g, i>> /\ i > h[g]
  BY InCells
<1>2. move \in Injection(Over, G \X (1..c))
  <2>1. \A p \in Over : Cell(p) \in G \X (1..c) BY <1>1
  <2>2. \A p, q \in Over : Cell(p) = Cell(q) => p = q BY <1>1
  <2> QED BY <2>1, <2>2 DEF Injection, IsInjective
<1>3. IsFiniteSet(G) /\ IsFiniteSet(1..c) /\ Cardinality(1..c) = c
  BY FS_Subset, FS_Interval
<1>4. IsFiniteSet(G \X (1..c)) /\ Cardinality(G \X (1..c)) = Cardinality(G) * c
  BY <1>3, FS_Product
<1>5. Cardinality(Over) <= Cardinality(G) * c
  BY <1>2, <1>4, FS_Injection
<1>6. /\ IsFiniteSet(Cells(f, G)) /\ SumOf(f, G) = Cardinality(Cells(f, G))
      /\ IsFiniteSet(Cells(h, G)) /\ SumOf(h, G) = Cardinality(Cells(h, G))
  BY CellsFinite
<1>7. /\ Cardinality(Over) = Cardinality(Cells(f, G)) - Cardinality(Cells(f, G) \cap Cells(h, G))
      /\ Cardinality(Cells(f, G) \cap Cells(h, G)) <= Cardinality(Cells(h, G))
  BY <1>6, FS_Difference, FS_Intersection
<1>8. /\ Cardinality(Cells(f, G)) \in Nat /\ Cardinality(Cells(h, G)) \in Nat
      /\ Cardinality(Cells(f, G) \cap Cells(h, G)) \in Nat /\ Cardinality(G) \in Nat
      /\ Cardinality(G) * c \in Nat
  <2>1. IsFiniteSet(Cells(f, G) \cap Cells(h, G)) BY <1>6, FS_Intersection
  <2>2. Cardinality(G \X (1..c)) \in Nat BY <1>4, FS_CardinalityType
  <2> QED BY <1>3, <1>4, <1>6, <2>1, <2>2, FS_CardinalityType
<1> HIDE DEF Over
<1> QED BY <1>5, <1>6, <1>7, <1>8

\* What stays free of a grant between two frames when no frame is beyond the margin.
Kept == IF MaxFrame > Margin THEN 0 ELSE Overhead

\* A grant that is not issued has no bytes.
FreshInv ==
    \A g \in Grants \ (open \cup closed) : disk[g] = 0 /\ consumed[g] = 0 /\ g \notin located

\* How far a worker has used up its grant, by what it does next.
Fitting(w) ==
    LET g == mine[w]
    IN /\ stage[w] = "claimed" => disk[g] = 0 /\ reserved[g] = FirstBytes(lane[g])
       /\ stage[w] = "frame" => disk[g] + Kept <= reserved[g]
       /\ stage[w] = "write" => disk[g] + Kept + Margin <= reserved[g]
       /\ stage[w] = "end" => disk[g] + Overhead <= reserved[g] + Slop

\* An open grant is exceeded by the last frame at most.
WithinInv ==
    /\ \A g \in open : lane[g] \in Lanes /\ disk[g] <= reserved[g] + Slop
    /\ \A w \in Workers : Fitting(w)

\* What the ledger has committed leaves room for the last frame of each lane that has
\* no grant open.
RoomInv ==
    Committed(open, consumed) + Cardinality(open) * Slop <= Pool + Cardinality(Lanes) * Slop

PoolInv == FreshInv /\ WithinInv /\ RoomInv

\* The sizes are numbers, and the sets of grants and lanes are finite.
LEMMA Sizes ==
    /\ Slop \in Nat /\ Kept \in Nat /\ IsFiniteSet(Grants) /\ IsFiniteSet(Lanes)
    /\ \A G \in SUBSET Grants : IsFiniteSet(G) /\ Cardinality(G) \in Nat
<1>1. Slop \in Nat /\ Kept \in Nat BY BytesAssumption DEF Slop, Kept
<1>2. IsFiniteSet(Grants) BY BoundsAssumption, FS_Interval
<1>3. \A G \in SUBSET Grants : IsFiniteSet(G) /\ Cardinality(G) \in Nat
  BY <1>2, FS_Subset, FS_CardinalityType
<1> QED BY <1>1, <1>2, <1>3, LanesAssumption

\* From here on the grants are any finite set.
HIDE DEF Grants

\* The sum over a set of grants is that over a part of it and that over the rest.
LEMMA SumRest ==
    ASSUME NEW f, NEW H, NEW G, NEW R, f \in [Grants -> Nat],
           H \subseteq Grants, G \subseteq H, R = H \ G
    PROVE  SumOf(f, H) = SumOf(f, R) + SumOf(f, G)
<1>1. IsFiniteSet(Grants) /\ H \in SUBSET Grants /\ G \in SUBSET H BY Sizes
<1>2. SumOf(f, H) = SumOf(f, H \ G) + SumOf(f, G) BY <1>1, SumParts
<1> QED BY <1>2

\* No row, no byte.
LEMMA InitPool == Init => PoolInv
<1> SUFFICES ASSUME Init PROVE PoolInv
  OBVIOUS
<1>1. FreshInv BY DEF Init, FreshInv
<1>2. WithinInv BY DEF Init, WithinInv, Fitting
<1>3. RoomInv
  <2>1. SumOf(reserved, open) = 0 /\ Cardinality(open) = 0
    BY FS_EmptySet DEF Init, SumOf
  <2>2. SumOf(consumed, Grants \ open) = 0
    <3>1. UNION {{g} \X (1..consumed[g]) : g \in Grants \ open} = {}
      BY DEF Init
    <3> QED BY <3>1, FS_EmptySet DEF SumOf
  <2>3. Cardinality(Lanes) \in Nat BY Sizes, FS_CardinalityType
  <2> QED BY <2>1, <2>2, <2>3, Sizes, BytesAssumption DEF RoomInv, Committed
<1> QED BY <1>1, <1>2, <1>3 DEF PoolInv

\* Only the number a claim gives out is issued; only a worker's own run grows.
LEMMA StepFresh ==
    ASSUME IInv, FreshInv, [Next]_vars
    PROVE  FreshInv'
<1> USE DEF FreshInv
<1>0. open \subseteq Grants /\ closed \subseteq Grants /\ disk \in [Grants -> Nat]
      /\ consumed \in [Grants -> Nat]
  BY DEF IInv, TypeOK
<1>1. ASSUME NEW G \in SUBSET open, Reconcile(G), UNCHANGED <<located, disk>>,
             open \cup closed \subseteq open' \cup closed'
      PROVE  FreshInv'
  <2>1. \A g \in Grants \ G : consumed'[g] = consumed[g] BY <1>1 DEF Reconcile, Charged
  <2> QED BY <1>1, <2>1
<1>2. ASSUME NEW w \in Workers, NEW l \in Lanes, Claim(w, l) PROVE FreshInv'
  <2>1. OpenOn(l) \in SUBSET open BY DEF OpenOn
  <2>2. open \cup closed \subseteq open' \cup closed' BY <1>2, <2>1 DEF Claim, Reconcile
  <2>3. Reconcile(OpenOn(l)) /\ UNCHANGED <<located, disk>> BY <1>2 DEF Claim
  <2> QED BY <1>1, <2>1, <2>2, <2>3
<1>3. ASSUME NEW w \in Workers, NEW l \in Lanes, ClaimStops(w, l) PROVE FreshInv'
  <2>1. CASE expired BY <1>3, <2>1 DEF ClaimStops
  <2>2. CASE ~expired
    <3>1. OpenOn(l) \in SUBSET open BY DEF OpenOn
    <3>2. Reconcile(OpenOn(l)) /\ open' = open \ OpenOn(l) /\ UNCHANGED <<located, disk>>
      BY <1>3, <2>2 DEF ClaimStops
    <3>3. open \cup closed \subseteq open' \cup closed' BY <3>1, <3>2 DEF Reconcile
    <3> QED BY <1>1, <3>1, <3>2, <3>3
  <2> QED BY <2>1, <2>2
<1>4. CASE Settle
  <2>1. Reconcile(open) /\ open' = {} /\ UNCHANGED <<located, disk>> BY <1>4 DEF Settle
  <2>2. open \cup closed \subseteq open' \cup closed' BY <2>1 DEF Reconcile
  <2> QED BY <1>1, <2>1, <2>2
<1>5. ASSUME NEW w \in Workers, Segment(w) PROVE FreshInv'
  <2>1. stage[w] \in Writing
    BY <1>5 DEF Segment, Bind, Admit, AdmitStops, EndSegment, WriteFrame, FinishRun,
                TakeSnapshot, WriteReceipt, CloseRow, CloseRowFails
  <2>2. mine[w] \in open BY <2>1 DEF IInv, WriterInv
  <2>3. ASSUME NEW x, disk' = [disk EXCEPT ![mine[w]] = x], UNCHANGED <<open, closed, located, consumed>>
        PROVE  FreshInv'
    BY <1>0, <2>2, <2>3
  <2>4. CASE Bind(w)
    BY <2>2, <2>4 DEF Bind
  <2>5. CASE CloseRow(w)
    BY <1>0, <2>2, <2>5 DEF CloseRow
  <2>6. CASE Admit(w) \/ AdmitStops(w) \/ EndSegment(w) \/ WriteReceipt(w) \/ CloseRowFails(w)
    BY <2>6 DEF Admit, AdmitStops, EndSegment, WriteReceipt, CloseRowFails
  <2>7. ASSUME NEW n \in Nat, WriteFrame(w, n) \/ FinishRun(w, n) \/ TakeSnapshot(w, n)
        PROVE  FreshInv'
    BY <2>3, <2>7 DEF WriteFrame, FinishRun, TakeSnapshot
  <2> QED BY <1>5, <2>4, <2>5, <2>6, <2>7, SegmentSteps
<1>6. ASSUME (\E w \in Workers : Exit(w)) \/ (Operator /\ ~Settle) \/ Expire \/ UNCHANGED vars
      PROVE  FreshInv'
  <2>1. UNCHANGED <<open, closed, located, consumed, disk>>
    BY <1>6 DEF Exit, Operator, Stop, ListGrants, WriteFinal, MarkFinalized, FinalizeDies,
                Expire, vars
  <2> QED BY <2>1
<1> QED BY <1>2, <1>3, <1>4, <1>5, <1>6 DEF Next

\* What a step of a segment writes, it writes for the grant of its own worker.
LEMMA OthersFit ==
    ASSUME IInv, WithinInv, NEW w \in Workers, stage[w] \in Writing,
           NEW st, stage' = [stage EXCEPT ![w] = st],
           \A v \in Workers \ {w} : mine'[v] = mine[v],
           \A g \in Grants \ {mine[w]} : disk'[g] = disk[g] /\ reserved'[g] = reserved[g],
           lane' = lane, open' \subseteq open,
           mine[w] \in open' => disk'[mine[w]] <= reserved'[mine[w]] + Slop,
           Fitting(w)'
    PROVE  WithinInv'
<1>1. mine[w] \in open /\ holder[mine[w]] = w /\ open \subseteq Grants /\ stage \in [Workers -> {"off"} \cup Writing]
  BY DEF IInv, TypeOK, WriterInv
<1>2. ASSUME NEW v \in Workers, v # w PROVE Fitting(v)'
  <2>1. stage'[v] = stage[v] /\ mine'[v] = mine[v] BY <1>1, <1>2
  <2>2. CASE stage[v] \in Writing
    <3>1. mine[v] \in open /\ holder[mine[v]] = v BY <2>2 DEF IInv, WriterInv
    <3>2. mine[v] # mine[w] BY <1>1, <1>2, <3>1
    <3>3. disk'[mine[v]] = disk[mine[v]] /\ reserved'[mine[v]] = reserved[mine[v]]
      BY <1>1, <3>1, <3>2
    <3>4. Fitting(v) BY DEF WithinInv
    <3>5. Slop' = Slop /\ Kept' = Kept /\ FirstBytes(lane[mine[v]])' = FirstBytes(lane[mine[v]])
      BY <2>1 DEF Slop, Kept, FirstBytes
    <3> QED BY <2>1, <3>3, <3>4, <3>5 DEF Fitting
  <2>3. CASE stage[v] \notin Writing BY <2>1, <2>3 DEF Fitting
  <2> QED BY <2>2, <2>3
<1>3. \A g \in open' : lane'[g] \in Lanes /\ disk'[g] <= reserved'[g] + Slop
  BY <1>1 DEF WithinInv
<1> QED BY <1>2, <1>3 DEF WithinInv, Slop

\* The frame that a worker may still write, and the rows that end its run, are within
\* the slop: admit_frame keeps the margin, consumed() ends a segment that has passed it.
LEMMA StepWithin ==
    ASSUME IInv, FreshInv, WithinInv, [Next]_vars
    PROVE  WithinInv'
<1>0. /\ open \subseteq Grants /\ disk \in [Grants -> Nat] /\ reserved \in [Grants -> Nat]
      /\ stage \in [Workers -> {"off"} \cup Writing] /\ mine \in [Workers -> Nat]
      /\ lane \in [Grants -> Lanes \cup {Nobody}]
      /\ \A w \in Workers : stage[w] \in Writing => mine[w] \in open
  BY DEF IInv, TypeOK, WriterInv
<1>1. ASSUME NEW w \in Workers, NEW l \in Lanes, Claim(w, l) PROVE WithinInv'
  <2> DEFINE last == Issued + 1
  <2>1. last \in Grants /\ last \notin open \cup closed
    BY <1>1, NextRow DEF Claim, IInv
  <2>2. disk[last] = 0 BY <2>1 DEF FreshInv
  <2>3. /\ open' = (open \ OpenOn(l)) \cup {last} /\ disk' = disk
        /\ lane' = [lane EXCEPT ![last] = l]
        /\ reserved' = [reserved EXCEPT ![last] = FirstBytes(l)]
        /\ mine' = [mine EXCEPT ![w] = last] /\ stage' = [stage EXCEPT ![w] = "claimed"]
    BY <1>1 DEF Claim
  <2>4. FirstBytes(l) \in Nat BY BytesAssumption DEF FirstBytes
  <2> HIDE DEF last
  <2>5. \A g \in open' : lane'[g] \in Lanes /\ disk'[g] <= reserved'[g] + Slop
    BY <1>0, <2>1, <2>2, <2>3, <2>4, Sizes DEF WithinInv
  <2>6. ASSUME NEW v \in Workers PROVE Fitting(v)'
    <3>1. CASE v = w
      <4>1. stage'[v] = "claimed" /\ mine'[v] = last /\ disk'[last] = 0
        BY <1>0, <2>2, <2>3, <3>1
      <4>2. reserved'[last] = FirstBytes(l) /\ lane'[last] = l BY <1>0, <2>1, <2>3
      <4> QED BY <4>1, <4>2 DEF Fitting, FirstBytes
    <3>2. CASE v # w /\ stage[v] \in Writing
      <4>1. stage'[v] = stage[v] /\ mine'[v] = mine[v] /\ mine[v] # last
        BY <1>0, <2>1, <2>3, <3>2
      <4>2. reserved'[mine[v]] = reserved[mine[v]] /\ lane'[mine[v]] = lane[mine[v]]
        BY <1>0, <2>3, <4>1, <3>2
      <4>3. Fitting(v) BY DEF WithinInv
      <4> QED BY <2>3, <4>1, <4>2, <4>3 DEF Fitting, FirstBytes, Kept, Slop
    <3>3. CASE v # w /\ stage[v] \notin Writing
      <4>1. stage'[v] = stage[v] BY <1>0, <2>3, <3>3
      <4> QED BY <3>3, <4>1 DEF Fitting
    <3> QED BY <3>1, <3>2, <3>3
  <2> QED BY <2>5, <2>6 DEF WithinInv, Slop
<1>2. ASSUME open' \subseteq open, UNCHANGED <<disk, reserved, lane, stage, mine>>
      PROVE  WithinInv'
  <2>1. \A v \in Workers : Fitting(v)' 
    BY <1>2 DEF WithinInv, Fitting, FirstBytes, Kept, Slop
  <2> QED BY <1>2, <2>1 DEF WithinInv, Slop
<1>3. ASSUME NEW w \in Workers, NEW l \in Lanes, ClaimStops(w, l) PROVE WithinInv'
  <2>1. open' \subseteq open BY <1>3 DEF ClaimStops, OpenOn
  <2>2. UNCHANGED <<disk, reserved, lane, stage, mine>> BY <1>3 DEF ClaimStops
  <2> QED BY <1>2, <2>1, <2>2
<1>4. ASSUME NEW w \in Workers, Segment(w) PROVE WithinInv'
  <2> DEFINE g == mine[w]
  <2>1. stage[w] \in Writing
    BY <1>4 DEF Segment, Bind, Admit, AdmitStops, EndSegment, WriteFrame, FinishRun,
                TakeSnapshot, WriteReceipt, CloseRow, CloseRowFails
  <2>2. g \in open /\ g \in Grants BY <1>0, <2>1
  <2>3. /\ Fitting(w) /\ lane[g] \in Lanes /\ disk[g] <= reserved[g] + Slop
        /\ disk[g] \in Nat /\ reserved[g] \in Nat
    BY <1>0, <2>2 DEF WithinInv
  <2> DEFINE Own(n, r, st) ==
        /\ stage' = [stage EXCEPT ![w] = st] /\ \A v \in Workers \ {w} : mine'[v] = mine[v]
        /\ disk' = [disk EXCEPT ![g] = n] /\ reserved' = [reserved EXCEPT ![g] = r]
        /\ lane' = lane /\ open' \subseteq open
  <2>4. ASSUME NEW n \in Nat, NEW r \in Nat, NEW st, Own(n, r, st),
               n <= r + Slop, Fitting(w)'
        PROVE  WithinInv'
    <3>1. \A h \in Grants \ {mine[w]} : disk'[h] = disk[h] /\ reserved'[h] = reserved[h]
      BY <1>0, <2>4
    <3>2. disk'[g] = n /\ reserved'[g] = r BY <1>0, <2>2, <2>4
    <3> HIDE DEF Own
    <3> QED BY <2>1, <2>4, <3>1, <3>2, OthersFit DEF Own
  <2>5. ASSUME NEW n \in Nat, NEW r \in Nat, NEW st, Own(n, r, st), mine' = mine,
               st \in {"frame", "write", "end", "close", "receipted", "bare", "off"},
               n <= r + Slop,
               st = "frame" => n + Kept <= r, st = "write" => n + Kept + Margin <= r,
               st = "end" => n + Overhead <= r + Slop
        PROVE  WithinInv'
    <3>1. stage'[w] = st /\ mine'[w] = g /\ disk'[g] = n /\ reserved'[g] = r
      BY <1>0, <2>2, <2>5
    <3>2. Fitting(w)' BY <2>5, <3>1 DEF Fitting, Kept, Slop
    <3> HIDE DEF Own
    <3> QED BY <2>4, <2>5, <3>2
  <2>6. disk = [disk EXCEPT ![g] = disk[g]] /\ reserved = [reserved EXCEPT ![g] = reserved[g]]
    BY <1>0, <2>2
  <2>7. Slop \in Nat /\ Kept \in Nat BY Sizes
  <2>8. CASE Bind(w)
    <3>1. PICK st \in {"frame", "end"} : Own(disk[g], reserved[g], st)
      BY <2>6, <2>8 DEF Bind
    <3>2. lane[g] \in Streams /\ disk[g] = 0 /\ reserved[g] = Chunk + Overhead
      BY <2>3, <2>8 DEF Bind, Fitting, FirstBytes
    <3>3. /\ Kept <= Overhead /\ mine' = mine
      BY <2>8, BytesAssumption DEF Kept, Bind
    <3> HIDE DEF Own
    <3> QED BY <2>5, <2>7, <3>1, <3>2, <3>3, BytesAssumption
  <2>9. CASE Admit(w)
    <3>1. disk[g] + Kept <= reserved[g] BY <2>3, <2>9 DEF Admit, Fitting
    <3>2. PICK r \in Nat : Own(disk[g], r, "write") /\ disk[g] + Kept + Margin <= r
      <4>1. CASE Covered(w) /\ reserved' = reserved
        <5>1. disk[g] + Kept + Margin <= reserved[g]
          BY <2>3, <4>1, BytesAssumption DEF Covered, Kept
        <5> QED BY <2>3, <2>6, <2>9, <4>1, <5>1 DEF Admit
      <4>2. ASSUME NEW chunk \in Margin..Chunk, reserved' = [reserved EXCEPT ![g] = @ + chunk]
            PROVE  Own(disk[g], reserved[g] + chunk, "write")
        BY <2>6, <2>9, <4>2 DEF Admit
      <4>3. \A chunk \in Margin..Chunk : /\ reserved[g] + chunk \in Nat
                                         /\ disk[g] + Kept + Margin <= reserved[g] + chunk
        BY <2>3, <2>7, <3>1, BytesAssumption
      <4> HIDE DEF Own
      <4> QED BY <2>9, <4>1, <4>2, <4>3 DEF Admit
    <3>3. mine' = mine BY <2>9 DEF Admit
    <3> HIDE DEF Own
    <3> QED BY <2>3, <2>5, <2>7, <3>2, <3>3, BytesAssumption
  <2>10. CASE AdmitStops(w) \/ EndSegment(w)
    <3>1. Own(disk[g], reserved[g], "end") /\ mine' = mine
      BY <2>6, <2>10 DEF AdmitStops, EndSegment
    <3>2. disk[g] + Kept <= reserved[g]
      <4>1. stage[w] \in {"frame", "write"} BY <2>10 DEF AdmitStops, EndSegment
      <4>2. disk[g] + Kept <= reserved[g] \/ disk[g] + Kept + Margin <= reserved[g]
        BY <2>3, <4>1 DEF Fitting
      <4> QED BY <2>3, <2>7, <4>2, BytesAssumption
    <3>3. disk[g] + Overhead <= reserved[g] + Slop
      BY <2>3, <3>2, BytesAssumption DEF Kept, Slop
    <3> HIDE DEF Own
    <3> QED BY <2>3, <2>5, <3>1, <3>3
  <2>11. ASSUME NEW n \in 1..MaxFrame, WriteFrame(w, n) PROVE WithinInv'
    <3>1. disk[g] + Kept + Margin <= reserved[g] BY <2>3, <2>11 DEF WriteFrame, Fitting
    <3>2. n \in Nat /\ n <= MaxFrame /\ disk[g] + n \in Nat BY <2>3, <2>11, BytesAssumption
    <3>3. PICK st \in {"frame", "end"} :
            /\ Own(disk[g] + n, reserved[g], st) /\ mine' = mine
            /\ st = "frame" => disk[g] + n <= reserved[g]
            /\ st = "end" => disk[g] + n > reserved[g]
      <4>1. disk'[g] = disk[g] + n BY <1>0, <2>2, <2>11 DEF WriteFrame
      <4>2. CASE disk[g] + n > reserved[g]
        <5>1. Own(disk[g] + n, reserved[g], "end") BY <2>6, <2>11, <4>1, <4>2 DEF WriteFrame
        <5> HIDE DEF Own
        <5> QED BY <2>11, <4>2, <5>1 DEF WriteFrame
      <4>3. CASE ~(disk[g] + n > reserved[g])
        <5>1. Own(disk[g] + n, reserved[g], "frame") BY <2>6, <2>11, <4>1, <4>3 DEF WriteFrame
        <5>2. disk[g] + n <= reserved[g] BY <2>3, <3>2, <4>3
        <5> HIDE DEF Own
        <5> QED BY <2>11, <5>1, <5>2 DEF WriteFrame
      <4> QED BY <4>2, <4>3
    <3>4. disk[g] + n + Overhead <= reserved[g] + Slop
      BY <2>3, <3>1, <3>2, BytesAssumption DEF Kept, Slop
    <3>5. st = "frame" => disk[g] + n + Kept <= reserved[g]
      BY <2>3, <3>1, <3>2, <3>3, BytesAssumption DEF Kept
    <3> HIDE DEF Own
    <3> QED BY <2>3, <2>5, <2>7, <3>2, <3>3, <3>4, <3>5, BytesAssumption
  <2>12. ASSUME NEW n \in 0..Overhead, FinishRun(w, n) PROVE WithinInv'
    <3>1. disk[g] + Overhead <= reserved[g] + Slop BY <2>3, <2>12 DEF FinishRun, Fitting
    <3>2. n \in Nat /\ disk[g] + n \in Nat /\ disk[g] + n <= reserved[g] + Slop
      BY <2>3, <2>7, <2>12, <3>1, BytesAssumption
    <3>3. Own(disk[g] + n, reserved[g], "close") /\ mine' = mine
      BY <2>6, <2>12 DEF FinishRun
    <3> HIDE DEF Own
    <3> QED BY <2>3, <2>5, <3>2, <3>3
  <2>13. ASSUME NEW n \in 0..Snapshot, TakeSnapshot(w, n) PROVE WithinInv'
    <3>1. lane[g] \in Snapshots /\ reserved[g] = FirstBytes(lane[g])
      BY <2>3, <2>13 DEF TakeSnapshot, Fitting
    <3>2. reserved[g] = Snapshot BY <3>1, LanesAssumption DEF FirstBytes
    <3>3. n \in Nat /\ n <= reserved[g] + Slop BY <2>7, <2>13, <3>2, BytesAssumption
    <3>4. Own(n, reserved[g], "close") /\ mine' = mine
      BY <2>6, <2>13 DEF TakeSnapshot
    <3> HIDE DEF Own
    <3> QED BY <2>3, <2>5, <3>3, <3>4
  <2>14. CASE WriteReceipt(w)
    <3>1. PICK st \in {"receipted", "bare"} : Own(disk[g], reserved[g], st) /\ mine' = mine
      BY <2>6, <2>14 DEF WriteReceipt
    <3> HIDE DEF Own
    <3> QED BY <2>3, <2>5, <3>1
  <2>15. CASE CloseRow(w) \/ CloseRowFails(w)
    <3>1. Own(disk[g], reserved[g], "off")
      BY <1>0, <2>6, <2>15 DEF CloseRow, CloseRowFails
    <3>2. Fitting(w)' BY <1>0, <3>1 DEF Fitting
    <3> HIDE DEF Own
    <3> QED BY <2>3, <2>4, <3>1, <3>2
  <2> QED BY <1>4, <2>8, <2>9, <2>10, <2>11, <2>12, <2>13, <2>14, <2>15 DEF Segment
<1>5. ASSUME NEW w \in Workers, Exit(w) PROVE WithinInv'
  <2>1. /\ stage' = [stage EXCEPT ![w] = "off"] /\ mine' = [mine EXCEPT ![w] = 0]
        /\ UNCHANGED <<disk, reserved, lane, open>>
    BY <1>5 DEF Exit
  <2>2. ASSUME NEW v \in Workers PROVE Fitting(v)'
    <3>1. CASE v = w BY <1>0, <2>1, <3>1 DEF Fitting
    <3>2. CASE v # w BY <1>0, <2>1, <3>2 DEF WithinInv, Fitting, FirstBytes, Kept, Slop
    <3> QED BY <3>1, <3>2
  <2> QED BY <2>1, <2>2 DEF WithinInv, Slop
<1>6. CASE Operator \/ Expire \/ UNCHANGED vars
  <2>1. open' \subseteq open /\ UNCHANGED <<disk, reserved, lane, stage, mine>>
    BY <1>6 DEF Operator, Stop, Settle, ListGrants, WriteFinal, MarkFinalized, FinalizeDies,
                Expire, vars
  <2> QED BY <1>2, <2>1
<1> QED BY <1>1, <1>3, <1>4, <1>5, <1>6 DEF Next

\* The rows that leave the open ones take with them what they reserved and, of the slop,
\* what they were over it.
LEMMA ClosingKeepsRoom ==
    ASSUME IInv, WithinInv, RoomInv, NEW G \in SUBSET open,
           open' = open \ G, reserved' = reserved, consumed' \in [Grants -> Nat],
           \A g \in G : consumed'[g] <= disk[g],
           \A g \in Grants \ G : consumed'[g] = consumed[g]
    PROVE  RoomInv'
<1> DEFINE rest == open \ G
           gone == Grants \ open
<1>1. /\ reserved \in [Grants -> Nat] /\ consumed \in [Grants -> Nat]
      /\ disk \in [Grants -> Nat] /\ open \in SUBSET Grants
      /\ G \in SUBSET Grants /\ rest \in SUBSET Grants /\ gone \in SUBSET Grants
  BY DEF IInv, TypeOK
<1>0. IsFiniteSet(Grants) BY Sizes
<1>2. SumOf(reserved, open) = SumOf(reserved, rest) + SumOf(reserved, G)
  <2>1. rest = open \ G OBVIOUS
  <2> HIDE DEF rest
  <2> QED BY <1>1, <2>1, SumRest
<1>3. SumOf(consumed', Grants \ rest) = SumOf(consumed', gone) + SumOf(consumed', G)
  <2>1. PICK H : H = Grants \ rest OBVIOUS
  <2>2. H \in SUBSET Grants /\ G \in SUBSET H /\ gone = H \ G BY <1>1, <2>1
  <2> HIDE DEF rest, gone
  <2> QED BY <1>0, <2>1, <2>2, SumRest
<1>4. SumOf(consumed', gone) = SumOf(consumed, gone)
  <2>1. \A g \in gone : consumed'[g] = consumed[g] OBVIOUS
  <2> HIDE DEF gone
  <2> QED BY <2>1, SumSame
<1>5. SumOf(consumed', G) <= SumOf(reserved, G) + Cardinality(G) * Slop
  <2>1. \A g \in G : disk[g] <= reserved[g] + Slop BY DEF WithinInv
  <2>2. \A g \in G : consumed'[g] <= reserved[g] + Slop
    BY <1>1, <2>1, Sizes
  <2> QED BY <1>1, <2>2, Sizes, SumBound
<1>6. Cardinality(open) = Cardinality(rest) + Cardinality(G)
  <2>1. IsFiniteSet(open) /\ open \cap G = G BY <1>1, Sizes
  <2>2. Cardinality(open \ G) = Cardinality(open) - Cardinality(open \cap G)
    BY <2>1, FS_Difference
  <2>3. Cardinality(open) \in Nat /\ Cardinality(G) \in Nat BY <1>1, Sizes
  <2>4. Cardinality(open \cap G) = Cardinality(G) BY <2>1
  <2>5. Cardinality(open \ G) = Cardinality(open) - Cardinality(G) BY <2>2, <2>4
  <2>6. Cardinality(rest) = Cardinality(open) - Cardinality(G) BY <2>5 DEF rest
  <2> HIDE DEF rest
  <2> QED BY <2>3, <2>6
<1>7. Cardinality(open) * Slop = Cardinality(rest) * Slop + Cardinality(G) * Slop
  BY <1>1, <1>6, Sizes
<1>8. /\ SumOf(reserved, rest) \in Nat /\ SumOf(reserved, G) \in Nat
      /\ SumOf(consumed, gone) \in Nat /\ SumOf(consumed', G) \in Nat
      /\ Cardinality(rest) * Slop \in Nat /\ Cardinality(G) * Slop \in Nat
      /\ Pool + Cardinality(Lanes) * Slop \in Nat
  <2>1. /\ SumOf(reserved, rest) \in Nat /\ SumOf(reserved, G) \in Nat
        /\ SumOf(consumed, gone) \in Nat /\ SumOf(consumed', G) \in Nat
    <3> HIDE DEF rest, gone
    <3> QED BY <1>1, Sizes, CellsFinite
  <2>2. Cardinality(rest) \in Nat /\ Cardinality(G) \in Nat /\ Cardinality(Lanes) \in Nat
    BY <1>1, Sizes, FS_CardinalityType
  <2> QED BY <2>1, <2>2, Sizes, BytesAssumption
<1> HIDE DEF rest, gone
<1>9. Committed(open, consumed) = SumOf(reserved, rest) + SumOf(reserved, G) + SumOf(consumed, gone)
  BY <1>2 DEF Committed, gone
<1>10. Committed(open, consumed)' = SumOf(reserved, rest) + SumOf(consumed, gone) + SumOf(consumed', G)
  <2>1. open' = rest BY DEF rest
  <2>2. Committed(open, consumed)' = SumOf(reserved, rest) + SumOf(consumed', Grants \ rest)
    BY <2>1 DEF Committed
  <2> QED BY <1>3, <1>4, <1>8, <2>2
<1>11. Committed(open, consumed)' + Cardinality(rest) * Slop <= Pool + Cardinality(Lanes) * Slop
  BY <1>5, <1>7, <1>8, <1>9, <1>10 DEF RoomInv
<1> QED BY <1>11 DEF RoomInv, rest, Slop

\* A lane has one open row, so there are not more of them than lanes.
LEMMA OpenPerLane ==
    ASSUME RowsInv, WithinInv, open \subseteq Grants
    PROVE  Cardinality(open) <= Cardinality(Lanes)
<1>1. [g \in open |-> lane[g]] \in Injection(open, Lanes)
  BY DEF RowsInv, WithinInv, Injection, IsInjective
<1> QED BY <1>1, Sizes, FS_Injection

\* A claim commits what it finds free.
LEMMA ClaimKeepsRoom ==
    ASSUME IInv, FreshInv, WithinInv', RowsInv', open' \subseteq Grants,
           NEW w \in Workers, NEW l \in Lanes, Claim(w, l)
    PROVE  RoomInv'
<1> DEFINE last == Issued + 1
           rest == open \ OpenOn(l)
           gone == Grants \ open'
<1>0. IsFiniteSet(Grants) BY Sizes
<1>1. last \in Grants /\ last \notin open \cup closed
  BY NextRow DEF Claim, IInv
<1>2. /\ open' = rest \cup {last} /\ reserved' = [reserved EXCEPT ![last] = FirstBytes(l)]
      /\ consumed' = Charged(OpenOn(l)) /\ Fits(l, rest, consumed')
  BY DEF Claim, Reconcile
<1> HIDE DEF last
<1>3. /\ reserved \in [Grants -> Nat] /\ FirstBytes(l) \in Nat
      /\ rest \in SUBSET Grants /\ last \notin rest /\ gone \in SUBSET Grants
  <2>1. FirstBytes(l) \in Nat BY BytesAssumption DEF FirstBytes
  <2>2. reserved \in [Grants -> Nat] /\ open \subseteq Grants BY DEF IInv, TypeOK
  <2> QED BY <1>1, <2>1, <2>2
<1>4. consumed' \in [Grants -> Nat] /\ reserved' \in [Grants -> Nat]
  <2>1. Charged(OpenOn(l)) \in [Grants -> Nat] BY ChargedTyped DEF IInv
  <2> QED BY <1>1, <1>2, <1>3, <2>1
<1>5. consumed'[last] = 0
  BY <1>1, <1>2 DEF Charged, OpenOn, FreshInv
<1>6. SumOf(reserved', open') = SumOf(reserved, rest) + FirstBytes(l)
  <2>1. SumOf(reserved', open') = SumOf(reserved', rest) + SumOf(reserved', {last})
    <3>1. PICK G : G = {last} OBVIOUS
    <3>2. open' \in SUBSET Grants /\ G \in SUBSET open' /\ rest = open' \ G
      BY <1>1, <1>2, <1>3, <3>1
    <3> HIDE DEF rest
    <3> QED BY <1>0, <1>4, <3>1, <3>2, SumRest
  <2>2. SumOf(reserved', {last}) = FirstBytes(l)
    <3>1. reserved'[last] = FirstBytes(l) BY <1>1, <1>2, <1>3
    <3> QED BY <1>1, <1>4, <3>1, SumOne
  <2>3. SumOf(reserved', rest) = SumOf(reserved, rest)
    <3>1. \A g \in rest : reserved'[g] = reserved[g] BY <1>2, <1>3
    <3> QED BY <3>1, SumSame
  <2> QED BY <2>1, <2>2, <2>3
<1>7. SumOf(consumed', Grants \ rest) = SumOf(consumed', gone)
  <2>1. PICK H, G : H = Grants \ rest /\ G = {last} OBVIOUS
  <2>2. SumOf(consumed', {last}) = 0 BY <1>1, <1>4, <1>5, SumOne
  <2>3. SumOf(consumed', gone) \in Nat
    <3> HIDE DEF gone
    <3> QED BY <1>3, <1>4, Sizes, CellsFinite
  <2>4. SumOf(consumed', H) = SumOf(consumed', gone) + SumOf(consumed', G)
    <3>1. H \in SUBSET Grants /\ G \in SUBSET H /\ gone = H \ G BY <1>1, <1>2, <1>3, <2>1
    <3> HIDE DEF rest, gone
    <3> QED BY <1>0, <1>4, <3>1, SumRest
  <2> HIDE DEF rest, gone
  <2> QED BY <2>1, <2>2, <2>3, <2>4
<1>8. /\ SumOf(reserved, rest) \in Nat /\ SumOf(consumed', gone) \in Nat
  <2> HIDE DEF rest, gone
  <2> QED BY <1>3, <1>4, Sizes, CellsFinite
<1>9. Pool - (SumOf(reserved, rest) + SumOf(consumed', Grants \ rest)) >= FirstBytes(l)
  BY <1>2 DEF Fits, Committed
<1>10. Committed(open, consumed)' <= Pool /\ Committed(open, consumed)' \in Nat
  <2>1. Committed(open, consumed)' = SumOf(reserved', open') + SumOf(consumed', gone)
    BY DEF Committed
  <2> QED BY <1>3, <1>6, <1>7, <1>8, <1>9, <2>1, BytesAssumption
<1>11. Cardinality(open') <= Cardinality(Lanes)
  <2>1. [g \in open' |-> lane'[g]] \in Injection(open', Lanes)
    BY DEF RowsInv, WithinInv, Injection, IsInjective
  <2> QED BY <2>1, Sizes, FS_Injection
<1>12. Cardinality(open') * Slop <= Cardinality(Lanes) * Slop
  <2>1. \A a, b, c \in Nat : a <= b => a * c <= b * c OBVIOUS
  <2> QED BY <1>11, <2>1, Sizes, FS_CardinalityType
<1>13. Cardinality(open') * Slop \in Nat /\ Cardinality(Lanes) * Slop \in Nat
  <2>1. \A a, b \in Nat : a * b \in Nat OBVIOUS
  <2> QED BY <2>1, Sizes, FS_CardinalityType
<1>14. Committed(open, consumed)' + Cardinality(open') * Slop <= Pool + Cardinality(Lanes) * Slop
  BY <1>10, <1>12, <1>13, BytesAssumption
<1> QED BY <1>14 DEF RoomInv, Slop

\* Every other step leaves what is committed or takes no more than the pool has left.
LEMMA StepRoom ==
    ASSUME IInv, PoolInv, WithinInv', RowsInv', open' \subseteq Grants, [Next]_vars
    PROVE  RoomInv'
<1> USE DEF PoolInv
<1>0. /\ open \in SUBSET Grants /\ closed \subseteq Grants /\ disk \in [Grants -> Nat]
      /\ consumed \in [Grants -> Nat] /\ reserved \in [Grants -> Nat]
      /\ \A w \in Workers : stage[w] \in Writing => mine[w] \in open
  BY DEF IInv, TypeOK, WriterInv
<1>1. ASSUME NEW G \in SUBSET open, Reconcile(G), open' = open \ G, UNCHANGED reserved
      PROVE  RoomInv'
  <2>1. consumed' = Charged(G) BY <1>1 DEF Reconcile
  <2>2. consumed' \in [Grants -> Nat] BY <2>1, ChargedTyped DEF IInv
  <2>3. \A g \in G : consumed'[g] <= disk[g] BY <1>0, <2>1 DEF Charged
  <2>4. \A g \in Grants \ G : consumed'[g] = consumed[g] BY <2>1 DEF Charged
  <2> QED BY <1>1, <2>2, <2>3, <2>4, ClosingKeepsRoom
<1>2. ASSUME UNCHANGED <<open, reserved, consumed>> PROVE RoomInv'
  BY <1>2 DEF RoomInv, Committed, Slop
<1>3. ASSUME NEW w \in Workers, NEW l \in Lanes, ClaimStops(w, l) PROVE RoomInv'
  <2>1. CASE expired BY <1>2, <1>3, <2>1 DEF ClaimStops
  <2>2. CASE ~expired
    <3>1. OpenOn(l) \in SUBSET open BY DEF OpenOn
    <3> QED BY <1>1, <1>3, <2>2, <3>1 DEF ClaimStops
  <2> QED BY <2>1, <2>2
<1>4. ASSUME NEW w \in Workers, Segment(w) PROVE RoomInv'
  <2>1. CASE CloseRow(w)
    <3>1. mine[w] \in open BY <1>0, <2>1 DEF CloseRow
    <3>2. /\ open' = open \ {mine[w]} /\ reserved' = reserved
          /\ consumed' = [consumed EXCEPT ![mine[w]] = disk[mine[w]]]
      BY <2>1, <3>1 DEF CloseRow
    <3>3. {mine[w]} \in SUBSET open BY <3>1
    <3>4. /\ consumed' \in [Grants -> Nat]
          /\ \A g \in {mine[w]} : consumed'[g] <= disk[g]
          /\ \A g \in Grants \ {mine[w]} : consumed'[g] = consumed[g]
      <4>1. mine[w] \in Grants /\ disk[mine[w]] \in Nat BY <1>0, <3>1
      <4>2. consumed'[mine[w]] = disk[mine[w]] BY <1>0, <3>2, <4>1
      <4>3. consumed'[mine[w]] <= disk[mine[w]] BY <4>1, <4>2
      <4>4. \A g \in Grants \ {mine[w]} : consumed'[g] = consumed[g] BY <1>0, <3>2
      <4>5. consumed' \in [Grants -> Nat] BY <1>0, <3>2, <4>1
      <4> QED BY <4>3, <4>4, <4>5
    <3> QED BY <3>2, <3>3, <3>4, ClosingKeepsRoom
  <2>2. CASE Admit(w)
    <3> DEFINE g == mine[w]
    <3>1. UNCHANGED <<open, consumed>> /\ g \in open BY <1>0, <2>2 DEF Admit
    <3>2. CASE reserved' = reserved BY <1>2, <3>1, <3>2
    <3>3. ASSUME NEW chunk \in Margin..Chunk, chunk = Least(Chunk, Pool - Committed(open, consumed)),
                 reserved' = [reserved EXCEPT ![g] = @ + chunk]
          PROVE  RoomInv'
      <4> DEFINE rest == open \ {g}
                 gone == Grants \ open
      <4>1. chunk \in Nat /\ IsFiniteSet(Grants) BY BytesAssumption, Sizes
      <4>2. reserved' \in [Grants -> Nat] /\ reserved'[g] = reserved[g] + chunk /\ reserved[g] \in Nat
        <5>1. [reserved EXCEPT ![g] = @ + chunk] \in [Grants -> Nat] BY <1>0, <4>1, Grows
        <5> QED BY <1>0, <3>1, <3>3, <5>1
      <4>3. {g} \in SUBSET open /\ g \in Grants BY <1>0, <3>1
      <4>4. SumOf(reserved, open) = SumOf(reserved, rest) + SumOf(reserved, {g})
        <5>1. PICK G : G = {g} OBVIOUS
        <5>2. rest = open \ G BY <5>1
        <5> HIDE DEF rest
        <5> QED BY <1>0, <4>1, <4>3, <5>1, <5>2, SumRest
      <4>5. SumOf(reserved', open) = SumOf(reserved', rest) + SumOf(reserved', {g})
        <5>1. PICK G : G = {g} OBVIOUS
        <5>2. rest = open \ G BY <5>1
        <5> HIDE DEF rest
        <5> QED BY <1>0, <4>1, <4>2, <4>3, <5>1, <5>2, SumRest
      <4>6. SumOf(reserved', rest) = SumOf(reserved, rest)
        <5>1. \A h \in rest : reserved'[h] = reserved[h] BY <1>0, <3>3
        <5> HIDE DEF rest
        <5> QED BY <5>1, SumSame
      <4>7. SumOf(reserved, {g}) = reserved[g] /\ SumOf(reserved', {g}) = reserved[g] + chunk
        <5>1. SumOf(reserved, {g}) = reserved[g] BY <1>0, <4>3, SumOne
        <5>2. SumOf(reserved', {g}) = reserved'[g] BY <4>2, <4>3, SumOne
        <5> QED BY <4>2, <5>1, <5>2
      <4>8. SumOf(reserved, rest) \in Nat /\ SumOf(consumed, gone) \in Nat
        <5>1. rest \in SUBSET Grants /\ gone \in SUBSET Grants BY <1>0
        <5> HIDE DEF rest, gone
        <5> QED BY <1>0, <4>1, <5>1, CellsFinite
      <4> HIDE DEF g, rest
      <4>9. Committed(open, consumed) = SumOf(reserved, rest) + reserved[g] + SumOf(consumed, gone)
        BY <4>4, <4>7 DEF Committed
      <4>10. Committed(open, consumed)' = SumOf(reserved, rest) + reserved[g] + chunk + SumOf(consumed, gone)
        <5>1. Committed(open, consumed)' = SumOf(reserved', open) + SumOf(consumed, gone)
          BY <3>1 DEF Committed
        <5> QED BY <4>1, <4>2, <4>5, <4>6, <4>7, <4>8, <5>1
      <4> HIDE DEF gone
      <4>11. Committed(open, consumed)' <= Pool /\ Committed(open, consumed)' \in Nat
        <5>1. Committed(open, consumed) \in Nat BY <4>2, <4>8, <4>9
        <5>2. chunk <= Pool - Committed(open, consumed)
          BY <3>3, <4>1, <5>1, BytesAssumption DEF Least
        <5>3. Committed(open, consumed)' = Committed(open, consumed) + chunk
          BY <4>1, <4>2, <4>8, <4>9, <4>10
        <5> QED BY <4>1, <5>1, <5>2, <5>3, BytesAssumption
      <4>12. Cardinality(open) * Slop <= Cardinality(Lanes) * Slop
             /\ Cardinality(open) * Slop \in Nat /\ Cardinality(Lanes) * Slop \in Nat
        <5>1. \A a, b, c \in Nat : a <= b => a * c <= b * c /\ a * c \in Nat /\ b * c \in Nat
          OBVIOUS
        <5>2. Cardinality(open) <= Cardinality(Lanes) BY <1>0, OpenPerLane DEF IInv
        <5>3. Cardinality(open) \in Nat /\ Cardinality(Lanes) \in Nat /\ Slop \in Nat
          BY <1>0, Sizes, FS_CardinalityType
        <5> QED BY <5>1, <5>2, <5>3
      <4>13. Committed(open, consumed)' + Cardinality(open) * Slop <= Pool + Cardinality(Lanes) * Slop
        BY <4>11, <4>12, BytesAssumption
      <4> QED BY <3>1, <4>13 DEF RoomInv, Slop
    <3> QED BY <2>2, <3>2, <3>3 DEF Admit
  <2>3. CASE ~CloseRow(w) /\ ~Admit(w)
    <3>1. UNCHANGED <<open, reserved, consumed>>
      BY <1>4, <2>3 DEF Segment, Bind, AdmitStops, EndSegment, WriteFrame, FinishRun,
                        TakeSnapshot, WriteReceipt, CloseRowFails
    <3> QED BY <1>2, <3>1
  <2> QED BY <2>1, <2>2, <2>3
<1>5. CASE Settle
  <2>1. open' = open \ open BY <1>5 DEF Settle
  <2> QED BY <1>1, <1>5, <2>1 DEF Settle
<1>6. ASSUME (\E w \in Workers : Exit(w)) \/ (Operator /\ ~Settle) \/ Expire \/ UNCHANGED vars
      PROVE  RoomInv'
  <2>1. UNCHANGED <<open, reserved, consumed>>
    BY <1>6 DEF Exit, Operator, Stop, ListGrants, WriteFinal, MarkFinalized, FinalizeDies,
                Expire, vars
  <2> QED BY <1>2, <2>1
<1>7. ASSUME NEW w \in Workers, NEW l \in Lanes, Claim(w, l) PROVE RoomInv'
  BY <1>7, ClaimKeepsRoom
<1> QED BY <1>3, <1>4, <1>5, <1>6, <1>7 DEF Next

\* What the runs hold is what the ledger has charged for the closed ones, and for the
\* open ones what it has reserved and the slop.
LEMMA RoomIsEnough ==
    ASSUME IInv, PoolInv
    PROVE  PoolHolds
<1> DEFINE shut == located \ open
           gone == Grants \ open
<1>1. /\ open \in SUBSET Grants /\ shut \in SUBSET Grants /\ gone \in SUBSET Grants
      /\ disk \in [Grants -> Nat] /\ reserved \in [Grants -> Nat] /\ consumed \in [Grants -> Nat]
      /\ IsFiniteSet(Grants) /\ shut \in SUBSET gone
  BY Sizes DEF IInv, TypeOK
<1>2. \A g \in shut : disk[g] = consumed[g]
  BY DEF IInv, TypeOK, ClosedIsCharged, PoolInv, FreshInv
<1>3. \A g \in open : disk[g] <= reserved[g] + Slop
  BY DEF PoolInv, WithinInv
<1>4. SumOf(disk, open \cup located) = SumOf(disk, shut) + SumOf(disk, open)
  <2>1. PICK H : H = open \cup located OBVIOUS
  <2>2. H \in SUBSET Grants /\ open \in SUBSET H /\ shut = H \ open BY <1>1, <2>1
  <2> HIDE DEF shut, gone
  <2> QED BY <1>1, <2>1, <2>2, SumRest
<1> HIDE DEF shut, gone
<1>5. SumOf(disk, shut) = SumOf(consumed, shut) BY <1>2, SumSame
<1>6. SumOf(consumed, shut) <= SumOf(consumed, gone) BY <1>1, SumSubset
<1>7. SumOf(disk, open) <= SumOf(reserved, open) + Cardinality(open) * Slop
  BY <1>1, <1>3, Sizes, SumBound
<1>8. /\ SumOf(disk, open) \in Nat /\ SumOf(consumed, shut) \in Nat
      /\ SumOf(consumed, gone) \in Nat /\ SumOf(reserved, open) \in Nat
  BY <1>1, CellsFinite
<1>9. Cardinality(open) * Slop \in Nat /\ Pool + Cardinality(Lanes) * Slop \in Nat
  <2>1. Cardinality(open) \in Nat /\ Cardinality(Lanes) \in Nat /\ Slop \in Nat
    BY <1>1, Sizes, FS_CardinalityType
  <2> QED BY <2>1, BytesAssumption
<1>10. SumOf(reserved, open) + SumOf(consumed, gone) + Cardinality(open) * Slop
         <= Pool + Cardinality(Lanes) * Slop
  BY DEF PoolInv, RoomInv, Committed, gone
<1> QED BY <1>4, <1>5, <1>6, <1>7, <1>8, <1>9, <1>10 DEF PoolHolds

\* "the pool can never be overbooked": however workers claim, reserve chunks, write,
\* close, die and are reconciled, what the runs the ledger knows hold is within the
\* pool, but for the last frame of each lane (_claim, admit_frame, consumed, close).
THEOREM PoolIsNotOverbooked == Spec => []PoolHolds
<1>1. Init => PoolInv
  BY InitPool
<1>2. IInv /\ IInv' /\ PoolInv /\ [Next]_vars => PoolInv'
  <2> SUFFICES ASSUME IInv, IInv', PoolInv, [Next]_vars PROVE PoolInv'
    OBVIOUS
  <2>1. FreshInv' BY StepFresh DEF PoolInv
  <2>2. WithinInv' BY StepWithin DEF PoolInv
  <2>3. RowsInv' /\ open' \subseteq Grants BY DEF IInv, TypeOK
  <2>4. RoomInv' BY <2>2, <2>3, StepRoom
  <2> QED BY <2>1, <2>2, <2>4 DEF PoolInv
<1>3. IInv /\ PoolInv => PoolHolds
  BY RoomIsEnough
<1> QED BY <1>1, <1>2, <1>3, Invariance, PTL DEF Spec
=============================================================================
