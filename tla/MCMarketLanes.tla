---------------------------- MODULE MCMarketLanes -----------------------------
(* Instances of MarketLanes for TLC. *)
EXTENDS MarketLanes
=============================================================================
