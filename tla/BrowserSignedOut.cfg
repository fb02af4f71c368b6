\* Two tabs, one session, and nothing lost.
CONSTANTS
    t1 = t1
    t2 = t2
    s1 = s1
    Gone = Gone
    Tabs <- TwoTabs
    Clients <- EachWay
    Sids = {s1}
    KeptHashes = 2
    MaxTokens = 3
    MaxAdmin = 0
    MaxTroubles = 0
SPECIFICATION BrowserSpec
INVARIANT TabsStaySignedIn
CHECK_DEADLOCK FALSE
