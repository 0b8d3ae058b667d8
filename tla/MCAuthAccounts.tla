---------------------------- MODULE MCAuthAccounts ----------------------------
\* AuthAccounts for TLC.  Ann has an identity at each of two providers, bob one
\* and an account from before, and hub's profile has no address; each .cfg takes
\* the identities that its question needs.
EXTENDS AuthAccounts, TLC

CONSTANTS k1, k2, u1, u2, u3, google, github, oidc, hub, t1, t2, t3, t4, s1, s2

MCProviderOf == [i \in Identities |-> IF i = hub THEN github ELSE i]
MCProfileEmail ==
    [i \in Identities |->
        CASE i = hub -> NoEmail [] i = oidc -> "bob@" [] OTHER -> "ann@"]
MCExistingEmail == [u \in Existing |-> "bob@"]

MCSymmetry == Permutations(Calls) \cup Permutations(Tokens) \cup Permutations(States)
                \cup Permutations(Users \ Existing)
=============================================================================
