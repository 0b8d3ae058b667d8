SPECIFICATION Spec
CONSTANTS
    k1 = k1
    k2 = k2
    u1 = u1
    u2 = u2
    u3 = u3
    google = google
    github = github
    oidc = oidc
    hub = hub
    t1 = t1
    t2 = t2
    t3 = t3
    t4 = t4
    s1 = s1
    s2 = s2
    None = None
    NoEmail = NoEmail
    Calls = {k1, k2}
    Users = {u1, u2, u3}
    Emails = {"ann@", "bob@"}
    Identities = {google, github}
    ProviderOf <- MCProviderOf
    ProfileEmail <- MCProfileEmail
    Private = {github}
    Tokens = {t1, t2, t3, t4}
    States = {s1, s2}
    Existing = {u1}
    ExistingEmail <- MCExistingEmail
INVARIANTS OneAccountPerEmail NoOrphanAccount StateOnce ExchangedIsDead
SYMMETRY MCSymmetry
CHECK_DEADLOCK FALSE
