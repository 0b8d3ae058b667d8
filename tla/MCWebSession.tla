---------------------------- MODULE MCWebSession ----------------------------
\* WebSession for TLC: one browser with two tabs.  There is a token for every
\* request that may be given one, and for the session from before.
EXTENDS WebSession

TwoTabs == {"left", "right"}
TwoUsers == {"ann", "bob"}
FourTokens == {"t0", "t1", "t2", "t3"}
=============================================================================
