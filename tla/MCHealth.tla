------------------------------ MODULE MCHealth ------------------------------
EXTENDS Health

MCLaneSeq == <<"spot", "depth">>
MCMaintSeq == <<"score", "promote", "offload">>
MCInterval == [j \in {"spot", "depth"} |-> 1] @@ [j \in {"score", "promote", "offload"} |-> 2]
MCLongest == [j \in {"spot", "depth", "offload"} |-> 2] @@ [j \in {"score", "promote"} |-> 1]
MCSegment == [j \in {"spot", "depth"} |-> 3] @@ [j \in {"score", "promote", "offload"} |-> 0]

Mode(jobs, limit, stop, n, kinds, most) ==
    [enabled |-> jobs, limit |-> limit, stopOnError |-> stop, concurrency |-> n,
     troubles |-> kinds, most |-> most]
\* A runner as it is deployed, a bounded one with a narrow pool, and one that
\* stops on an error.
MCModes == {Mode({"spot", "score", "promote", "offload"}, NoLimit, FALSE, 1,
                 {"hang", "slow", "error"}, 1),
            Mode({"spot", "depth", "score"}, 2, FALSE, 1, Kinds, 2),
            Mode({"spot", "score"}, NoLimit, TRUE, 2, Kinds, 2)}
=============================================================================
