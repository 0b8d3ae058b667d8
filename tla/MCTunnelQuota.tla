---------------------------- MODULE MCTunnelQuota ----------------------------
\* TunnelQuota with small limits, for TLC: free allows 1 tunnel, pro 2 (the
\* catalog has 2 and 10, and a third plan with 50).
EXTENDS TunnelQuota, TLC

OneUser == {"ann"}
SmallPlans == {"free", "pro"}
SmallLimits == [p \in Plans |-> IF p = "free" THEN 1 ELSE 2]

\* Rows are interchangeable (the run has invariants only).
RowSymmetry == Permutations(Tunnels) \cup Permutations(Projects)
=============================================================================
