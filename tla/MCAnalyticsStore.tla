-------------------------- MODULE MCAnalyticsStore --------------------------
\* AnalyticsStore with a small channel and small batches, for TLC.
EXTENDS AnalyticsStore
=============================================================================
