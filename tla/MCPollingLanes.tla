--------------------------- MODULE MCPollingLanes ---------------------------
EXTENDS PollingLanes

F(w, t, s, wanted) == [wallet |-> w, at |-> t, stream |-> s, target |-> wanted]

\* Pages that are cut and continued; an unwanted fill and a second wallet; slices
\* between fills; a full page of one millisecond.
MCHistories ==
    {<<F("a", 2, "fills", TRUE), F("a", 3, "fills", TRUE), F("a", 4, "fills", TRUE)>>,
     <<F("a", 2, "fills", FALSE), F("a", 3, "fills", TRUE), F("b", 3, "fills", TRUE)>>,
     <<F("a", 2, "fills", TRUE), F("a", 3, "twap", TRUE), F("a", 4, "twap", TRUE)>>,
     <<F("a", 2, "fills", TRUE), F("a", 3, "fills", TRUE), F("a", 3, "fills", TRUE)>>}

I(key, hash) == [key |-> key, hash |-> hash]

\* Two feeds.  Items that come, go, are edited and edited back; one that is listed
\* twice, behind another; one without an id.
MCBodies ==
    <<{<<I("a", 1)>>, <<I("b", 1), I("a", 2)>>, <<I("a", 1), I("b", 2), I("b", 2)>>},
      {<<I("c", 1)>>, <<I("none", 1), I("c", 2)>>}>>
=============================================================================
