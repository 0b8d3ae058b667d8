--------------------------- MODULE MCTunnelForward ---------------------------
\* TunnelForward with two concurrent requests, for TLC.
EXTENDS TunnelForward

CONSTANTS r1, r2

TwoRequests == {r1, r2}
=============================================================================
