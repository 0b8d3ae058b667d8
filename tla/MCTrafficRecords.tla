-------------------------- MODULE MCTrafficRecords --------------------------
\* TrafficRecords on a small instance, for TLC.
EXTENDS TrafficRecords
=============================================================================
