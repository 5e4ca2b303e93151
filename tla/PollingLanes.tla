---------------------------- MODULE PollingLanes ----------------------------
(***************************************************************************)
(* The polling lanes that resume from what they wrote.  They run in        *)
(* processes of their own, on directories of their own, and share no       *)
(* state: a behaviour of the plant is one of each, and the composition     *)
(* moves one of them, chosen at the start, while the others have not begun.*)
(***************************************************************************)
EXTENDS WalletFlow, AggCursor, TextFeed

VARIABLE moving     \* the lane that runs

pvars == <<wvars, avars, tvars, moving>>

PollingInit ==
    /\ WalletInit /\ AggInit /\ TextInit
    /\ \/ moving = "wallet_flow"
       \/ moving \in {"agg_trades", "text_feeds"} /\ fill = CHOOSE h \in Histories : TRUE

PollingNext ==
    \/ moving = "wallet_flow" /\ WalletNext /\ UNCHANGED <<avars, tvars, moving>>
    \/ moving = "agg_trades" /\ AggNext /\ UNCHANGED <<wvars, tvars, moving>>
    \/ moving = "text_feeds" /\ TextNext /\ UNCHANGED <<wvars, avars, moving>>

PollingSpec == PollingInit /\ [][PollingNext]_pvars

\* The process of a lane starts a segment, writes a row or polls; it goes on, and not
\* every poll to come fails.  This is WF_pvars(LaneForward), its ENABLED written out.
LaneForward ==
    \/ moving = "wallet_flow" /\ Forward /\ UNCHANGED <<avars, tvars, moving>>
    \/ moving = "agg_trades" /\ AggForward /\ UNCHANGED <<wvars, tvars, moving>>
    \/ moving = "text_feeds" /\ TextForward /\ UNCHANGED <<wvars, avars, moving>>
LaneDue ==
    CASE moving = "wallet_flow" -> ForwardDue
      [] moving = "agg_trades" -> AggForwardDue
      [] OTHER -> TextForwardDue

\* A poll of the text lane asks several feeds, and not every one to come fails to read
\* a feed that has news.  This is SF_pvars(NewsRead(f)) for every feed, written out.
NewsRead(f) == moving = "text_feeds" /\ ReadsNews(f) /\ UNCHANGED <<wvars, avars, moving>>
NewsWaits(f) == moving = "text_feeds" /\ NewsDue(f)

FairPollingSpec ==
    /\ PollingSpec
    /\ []<>~LaneDue \/ []<><<LaneForward>>_pvars
    /\ \A f \in Feeds : <>[]~NewsWaits(f) \/ []<><<NewsRead(f)>>_pvars

\* What the lanes are served is kept.  The trades lane of binance_futures_rest.py keeps
\* its ids, over rotations, kills and failed polls: none is in what is left for promotion
\* twice but what a new run could not see any more, and none is missing that no run gave
\* up or refused.  The wallet-flow lane keeps its fills in order, but for one that was
\* served late, and its requests pass over none: what a crash, a deadline, a failed poll
\* or a page's end leaves behind is asked for again.  And the text lane takes no item for
\* known whose row it has not written, and writes a version of one a second time only
\* after a kill, or when its file of bounded length had to forget it.
EverythingIsKept ==
    /\ NoIdTwice /\ NoSilentGap
    /\ OnlyLateFillsBreakOrder /\ NothingSkipped
    /\ NoItemSkipped /\ NoItemTwice

\* Every lane catches up with its venue again and again, however often its segments
\* end, crash or fail to read: a venue that answers now and then is enough.
LanesCatchUp ==
    []<>(CASE moving = "wallet_flow" -> CaughtUp
           [] moving = "agg_trades" -> AtHead
           [] OTHER -> UpToDate)
=============================================================================
