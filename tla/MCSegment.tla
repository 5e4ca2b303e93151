------------------------------ MODULE MCSegment ------------------------------
EXTENDS Segment

Lane(acks, control, idle, deadline) ==
    [acks |-> acks, control |-> control, idle |-> idle, deadline |-> deadline]

\* A watched lane with a time bound, one that needs no subscription and pings,
\* and one with every guard off.
MCLanes == {Lane(TRUE, FALSE, 2, 2), Lane(FALSE, TRUE, 2, 2), Lane(TRUE, FALSE, Off, Off)}
=============================================================================
