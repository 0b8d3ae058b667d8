-------------------------- MODULE MCClusterForward --------------------------
\* ClusterForward with two requests on two instances, for TLC.
EXTENDS ClusterForward

CONSTANTS r1, r2, i1, i2

MCRequests == {r1, r2}
MCInstances == {i1, i2}
=============================================================================
