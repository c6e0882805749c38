--------------------------- MODULE MCBrowserSession ---------------------------
(* BrowserSession for TLC: two tabs of one browser, one account.           *)
EXTENDS BrowserSession

CONSTANTS alice, x, y, k1, MaxOfX, MaxOfY, SignInsOfX

OneAccount == [k \in Tokens |-> alice]
SignInsOfTabs == [t \in Tabs |-> IF t = x THEN SignInsOfX ELSE 0]
ConnectionsOfTabs == [t \in Tabs |-> IF t = x THEN MaxOfX ELSE MaxOfY]
Connection == {<<t, n>> \in Tabs \X (1..3) : n <= ConnectionsOfTabs[t]}
ConnectionOf == [t \in Tabs |-> [n \in 1..ConnectionsOfTabs[t] |-> <<t, n>>]]
=============================================================================
