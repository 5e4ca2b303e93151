----------------------------- MODULE Allowances -----------------------------
(***************************************************************************)
(* What a capture may be held to beside its deadline.  A lane runs under a *)
(* grant of a canary or keeps evidence, and never both (cli.py:2730); a    *)
(* session that keeps evidence meets the lease of its trial only in the    *)
(* refusals that SessionEvidence lets happen at any time.  No two of the   *)
(* three share state: a behaviour is of one of them, chosen at the start.  *)
(***************************************************************************)
EXTENDS Canary, EvidenceLease, SessionEvidence

VARIABLE allowance    \* what the behaviour is about

allvars == <<vars, lvars, svars, allowance>>

AllowanceInit ==
    /\ allowance \in {"canary", "lease", "session"}
    /\ Init /\ LeaseInit
    /\ SessionInit
    /\ allowance # "session" => ~leased /\ error = "none"

\* The bounds are reached and every writer of the trial has ended.
TrialIsOver ==
    /\ time = LastTick /\ steps = MaxSteps /\ reboots = MaxReboots
    /\ \A r \in LeaseRuns : writer[r].at = "ended"

\* Both threads of the session have ended.  A writer whose setup was given up while it
\* got ready, or whose pipeline never came to be, waits for records that never come:
\* it looks at the error only after one, and keeps the slot until its lease is over.
SessionIsOver ==
    \/ producer \in {"done", "without", "abandoned"} /\ writerAt = "ended"
    \/ producer \in {"without", "abandoned"} /\ writerAt = "journal"

CanaryMoves == allowance = "canary" /\ Next /\ UNCHANGED <<lvars, svars>>
LeaseMoves == allowance = "lease" /\ LeaseNext /\ UNCHANGED <<vars, svars>>
SessionMoves == allowance = "session" /\ SessionNext /\ UNCHANGED <<vars, lvars>>
Rests ==
    /\ \/ allowance = "lease" /\ TrialIsOver
       \/ allowance = "session" /\ SessionIsOver
    /\ UNCHANGED <<vars, lvars, svars>>

AllowanceNext ==
    /\ CanaryMoves \/ LeaseMoves \/ SessionMoves \/ Rests
    /\ UNCHANGED allowance

AllowanceSpec == AllowanceInit /\ [][AllowanceNext]_allvars
=============================================================================
