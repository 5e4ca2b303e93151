----------------------------- MODULE MarketLanes ------------------------------
(***************************************************************************)
(* The lanes whose runs a scorer judges against the venue: order books and *)
(* prints.  They are workers and runs of their own and share nothing but   *)
(* the scheduler, which no verdict depends on, so a behaviour is of one of *)
(* them, chosen at the start.                                              *)
(***************************************************************************)
EXTENDS DepthLane, TapeLane

VARIABLE market    \* what the behaviour is about

mvars == <<vars, tvars, market>>

MarketInit ==
    /\ market \in {"book", "prints"}
    /\ Init /\ TapeInit
    /\ market = "book" => lane = CHOOSE l \in Lanes : TRUE
    /\ market = "prints" => mode = "none" /\ venue.book = EmptyBook

MarketNext ==
    /\ \/ market = "book" /\ Next /\ UNCHANGED tvars
       \/ market = "prints" /\ TapeNext /\ UNCHANGED vars
    /\ UNCHANGED market

MarketSpec == MarketInit /\ [][MarketNext]_mvars
=============================================================================
