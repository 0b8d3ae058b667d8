SPECIFICATION Spec
CONSTANTS
    Users <- OneUser
    Projects = {p1, p2}
    None = None
    Tunnels = {t1, t2, t3, t4}
    Calls = {"k1", "k2"}
    Plans <- SmallPlans
    MaxTunnels <- SmallLimits
    Stripe = TRUE
    Gateway = TRUE
    MaxEvents = 2
INVARIANTS PaidPlansPaid OvershootBounded TunnelsHaveProjects
SYMMETRY RowSymmetry
CHECK_DEADLOCK FALSE
