------------------------------- MODULE RunFate -------------------------------
(* What the curation of a lane promises about every run: its rows grow while *)
(* it is captured, then it is promoted with all of them or quarantined, and *)
(* what was decided is never decided again.                                 *)
EXTENDS Naturals

CONSTANTS Runs, MaxRows

VARIABLES
    captured,   \* clean rows of each run on disk
    fate        \* "none", or the index that accounts for the run
fateVars == <<captured, fate>>

Fates == {"none", "promoted", "quarantined"}

Init ==
    /\ captured = [r \in Runs |-> 0]
    /\ fate = [r \in Runs |-> "none"]

\* Rows come, and in a power loss the last of them go, until a fate is decided.
Capture ==
    /\ captured' \in [Runs -> 0..MaxRows]
    /\ \A r \in Runs : fate[r] = "none" \/ captured'[r] = captured[r]
    /\ UNCHANGED fate

Decide(r, f) ==
    /\ fate[r] = "none"
    /\ f = "promoted" => captured[r] > 0
    /\ fate' = [fate EXCEPT ![r] = f]
    /\ UNCHANGED captured

Next == Capture \/ \E r \in Runs, f \in Fates \ {"none"} : Decide(r, f)

Spec == Init /\ [][Next]_fateVars
=============================================================================
