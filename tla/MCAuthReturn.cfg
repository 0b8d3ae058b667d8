SPECIFICATION Spec
CONSTANTS
    k1 = k1
    k2 = k2
    u1 = u1
    u2 = u2
    u3 = u3
    google = google
    github = github
    oidc = oidc
    hub = hub
    t1 = t1
    t2 = t2
    t3 = t3
    t4 = t4
    s1 = s1
    s2 = s2
    None = None
    NoEmail = NoEmail
    Calls = {k1, k2}
    Users = {u1, u2}
    Emails = {"ann@", "bob@"}
    Identities = {google}
    ProviderOf <- MCProviderOf
    ProfileEmail <- MCProfileEmail
    Private = {}
    Tokens = {t1, t2}
    States = {s1, s2}
    Existing = {u1}
    ExistingEmail <- MCExistingEmail
INVARIANTS WrappedNilIsNil
CHECK_DEADLOCK FALSE
