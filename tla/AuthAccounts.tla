----------------------------- MODULE AuthAccounts -----------------------------
(***************************************************************************)
(* Accounts and sessions (internal/auth): users and the login methods      *)
(* linked to them, sign-in through an OAuth provider or with a password,   *)
(* and the refresh tokens that sessions rotate through.                    *)
(*                                                                         *)
(* Each HTTP request is a goroutine (a call); every statement it sends to  *)
(* Postgres or Redis is a step of its own, a transaction is one step, and  *)
(* a read of what never changes goes with the step that uses it.  Any call *)
(* may be cut short between two steps: a statement fails, the client goes  *)
(* away and its context is cancelled, or the API process dies.             *)
(*                                                                         *)
(* Which error a missing row is decides what the service does next, so the *)
(* repository's reads return errors here, as AppErrors has them.  In this  *)
(* build Register never comes to create an account and no verification or  *)
(* reset token is ever handed out; what would follow is left out.          *)
(***************************************************************************)
EXTENDS Integers, FiniteSets, AppErrors

CONSTANTS
    Calls,          \* concurrent HTTP requests
    Users,          \* rows of table users
    Emails,         \* normalized email addresses
    NoEmail,        \* the empty address, of profiles that show none
    Identities,     \* accounts at OAuth providers
    ProviderOf,     \* the provider of an identity
    ProfileEmail,   \* the address in an identity's profile, or NoEmail
    Private,        \* identities whose address takes a second call to GitHub
    Tokens,         \* refresh tokens
    States,         \* OAuth state parameters
    Existing,       \* users with a password that the database already holds
    ExistingEmail,  \* and their addresses
    None

ASSUME AuthConstants ==
    /\ NoEmail \notin Emails
    /\ ProfileEmail \in [Identities -> Emails \cup {NoEmail}]
    /\ Private \subseteq Identities
    /\ Existing \subseteq Users
    /\ ExistingEmail \in [Existing -> Emails]
    /\ \A u, v \in Existing : ExistingEmail[u] = ExistingEmail[v] => u = v
    /\ None \notin Users \cup Emails \cup {NoEmail} \cup Identities \cup Tokens
                   \cup {ProviderOf[i] : i \in Identities}

VARIABLES
    email,      \* email[u]: the address of user row u, None before it exists
    linked,     \* linked[i]: the user identity i signs in, or None
    workspaces, \* users with a personal workspace
    holder,     \* holder[t]: whose session refresh token t is, None before
    parent,     \* parent[t]: the token t was given for in exchange, or None
    live,       \* tokens whose session is neither revoked nor expired
    state,      \* state[s]: the provider of a sign-in under way, or None
    accepted,   \* accepted[s]: callbacks that were let in with state s
    pc,         \* pc[k]: where call k stands
    call,       \* call[k]: its identity and address, user and presented token
    answer      \* the answer to the request that ended last, or "none"

accountVars == <<email, linked, workspaces>>
sessionVars == <<holder, parent, live>>
stateVars   == <<state, accepted>>
callVars    == <<pc, call, answer>>
vars == <<accountVars, sessionVars, stateVars, callVars>>

Addresses == Emails \cup {NoEmail}
Providers == {ProviderOf[i] : i \in Identities}
Holding(i, e, u, t) == [identity |-> i, address |-> e, user |-> u, token |-> t]
NoCall == Holding(None, None, None, None)
Answers == {"none", "signed in"} \cup Statuses

Init ==
    /\ email = [u \in Users |-> IF u \in Existing THEN ExistingEmail[u] ELSE None]
    /\ linked = [i \in Identities |-> None]
    /\ workspaces = Existing
    /\ holder = [t \in Tokens |-> None]
    /\ parent = [t \in Tokens |-> None]
    /\ live = {}
    /\ state = [s \in States |-> None]
    /\ accepted = [s \in States |-> 0]
    /\ pc = [k \in Calls |-> "idle"]
    /\ call = [k \in Calls |-> NoCall]
    /\ answer = "none"

Begin(k, stage, c) ==
    /\ pc[k] = "idle"
    /\ pc' = [pc EXCEPT ![k] = stage]
    /\ call' = [call EXCEPT ![k] = c]
    /\ answer' = "none"

Continue(k, from, to) ==
    /\ pc[k] = from
    /\ pc' = [pc EXCEPT ![k] = to]

\* The request is answered, and the goroutine forgets what it held.
End(k, how) ==
    /\ pc' = [pc EXCEPT ![k] = "idle"]
    /\ call' = [call EXCEPT ![k] = NoCall]
    /\ answer' = how

\* A request that leaves nothing behind but its answer.
Refuse(k, how) ==
    /\ pc[k] = "idle"
    /\ End(k, how)
    /\ UNCHANGED <<accountVars, sessionVars, stateVars>>
-----------------------------------------------------------------------------
(* The repository: reads and the errors they end in, and writes            *)

HasEmail(e) == {u \in Users : email[u] = e}

GetUserByEmail(e) == IF HasEmail(e) = {} THEN "InvalidInput" ELSE Nil

GetPasswordHash(u) == IF u \in Existing THEN Nil ELSE "InvalidInput"

GetUserByProvider(i) == IF linked[i] = None THEN "NotFound" ELSE Wrap(Nil, "Internal")

GetPrimaryWorkspace(u) == IF u \in workspaces THEN Nil ELSE "NotFound"

GetActiveSessionByHash(t) == IF t \in live THEN Nil ELSE "ErrNotFound"

\* No verification token is ever handed out, and no reset token: nobody holds
\* one that is good.
ConsumeEmailVerification == "NotFound"
ConsumePasswordReset == "ErrNotFound"

\* CreatePasswordReset stores a token and wraps the nil error.
CreatePasswordReset == Wrap(Nil, "Internal")

\* Mutant of EmailFree: users has no unique index on lower(email).
BugEmailFree(e) == TRUE

\* The unique index, which the empty address is subject to as well.
EmailFree(e) == HasEmail(e) = {}

CreateUser(u, e) ==
    /\ email[u] = None
    /\ EmailFree(e)
    /\ email' = [email EXCEPT ![u] = e]

\* The constraint uq_provider_identity.
CreateOAuthProvider(i, u) ==
    /\ linked[i] = None
    /\ linked' = [linked EXCEPT ![i] = u]

\* The workspace with its default project, the owner's membership and a key:
\* four rows of one transaction, of which the first stands for all.
CreateWorkspace(u) == workspaces' = workspaces \cup {u}

Provision(u) == CreateWorkspace(u)

CreateSession(t, u) ==
    /\ holder[t] = None
    /\ holder' = [holder EXCEPT ![t] = u]
    /\ live' = live \cup {t}

\* It does not say whether the session was still active.
RevokeSessionByHash(t) == live' = live \ {t}
-----------------------------------------------------------------------------
(* Register, Login, and what mails would lead to                           *)

\* The answer of the handlers that do not use httpx.
WriteError(err) ==
    CASE Panics(err)                     -> "panic"
      [] ErrorIs(err, "ErrEmailTaken")   -> "conflict"
      [] ErrorIs(err, "ErrInvalidToken") -> "unauthorized"
      [] ErrorIs(err, "ErrNotFound")     -> "not found"
      [] OTHER                           -> "internal error"

\* Register goes on with ErrNotFound only, which a free address is not.
Register(k, e) ==
    LET err == GetUserByEmail(e)
    IN  /\ ~ErrorIs(err, "ErrNotFound")
        /\ Refuse(k, WriteError(IF err = Nil THEN "ErrEmailTaken" ELSE err))

\* RequestPasswordReset: an unknown address is not ErrNotFound here either.  For
\* a known one the token is stored, but storing it counts as a failure: the
\* token is given to nobody.
ForgotPassword(k, e) ==
    LET err == GetUserByEmail(e)
    IN  /\ ~ErrorIs(err, "ErrNotFound")
        /\ Refuse(k, WriteError(IF err = Nil THEN CreatePasswordReset ELSE err))

\* VerifyEmail and ResetPassword take ErrNotFound for a token that is not good.
TokenError(err) == IF ErrorIs(err, "ErrNotFound") THEN "ErrInvalidToken" ELSE err

VerifyEmail(k) == Refuse(k, WriteError(TokenError(ConsumeEmailVerification)))

ResetPassword(k) == Refuse(k, WriteError(TokenError(ConsumePasswordReset)))

\* No user, a user without a password, or the wrong password.
LoginErrors(e, right) ==
    (({GetUserByEmail(e)} \cup {GetPasswordHash(u) : u \in HasEmail(e)})
        \cup {IF right THEN Nil ELSE "InvalidInput"}) \ {Nil}

Login(k, e, right) ==
    \/ \E err \in LoginErrors(e, right) : Refuse(k, MapError(err))
    \/ /\ LoginErrors(e, right) = {}
       /\ \E u \in HasEmail(e) : Begin(k, "issuing", Holding(None, None, u, None))
       /\ UNCHANGED <<accountVars, sessionVars, stateVars>>
-----------------------------------------------------------------------------
(* Sign-in through a provider: oauthStart, oauthCallback, AuthenticateOAuth *)

\* oauthStart stores a fresh state for its provider.
StartOAuth(s, p) ==
    /\ state[s] = None
    /\ accepted[s] = 0
    /\ state' = [state EXCEPT ![s] = p]
    /\ UNCHANGED <<accountVars, sessionVars, accepted, callVars>>

\* Mutant of Spend: GET instead of GETDEL.
BugStateKept(s) == UNCHANGED state

\* GETDEL, or the key's expiry after 10 minutes.
Spend(s) == state' = [state EXCEPT ![s] = None]

\* The callback of identity i's provider, with a state that may be spent or
\* another provider's: whatever it is, it is spent now.
Callback(k, s, i) ==
    /\ pc[k] = "idle"
    /\ Spend(s)
    /\ IF state[s] = ProviderOf[i]
       THEN /\ Begin(k, "exchanging", Holding(i, None, None, None))
            /\ accepted' = [accepted EXCEPT ![s] = @ + 1]
       ELSE End(k, MapError("InvalidInput")) /\ UNCHANGED accepted
    /\ UNCHANGED <<accountVars, sessionVars>>

LoseState(s) ==
    /\ state[s] # None
    /\ Spend(s)
    /\ UNCHANGED <<accountVars, sessionVars, accepted, callVars>>

\* The provider does not take the code, or answers without an access token.
ExchangeFails(k) ==
    /\ pc[k] = "exchanging"
    /\ End(k, MapError("InvalidInput"))
    /\ UNCHANGED <<accountVars, sessionVars, stateVars>>

\* A private address is in GitHub's second answer; that call failing is no
\* error, and leaves the profile without an address.
ProfileEmails(i) == {ProfileEmail[i]} \cup (IF i \in Private THEN {NoEmail} ELSE {})

\* The code is exchanged, the profile fetched and its identity looked up.  A
\* linked identity ends in the IsNotFound of a nil AppError.
FindIdentity(k, e) ==
    LET i   == call[k].identity
        err == GetUserByProvider(i)
    IN  /\ pc[k] = "exchanging"
        /\ e \in ProfileEmails(i)
        /\ IF Panics(err) THEN End(k, "panic")
           ELSE /\ IsNotFound(err)
                /\ Continue(k, "exchanging", IF e = NoEmail THEN "creating" ELSE "matching")
                /\ call' = [call EXCEPT ![k].address = e]
                /\ UNCHANGED answer
        /\ UNCHANGED <<accountVars, sessionVars, stateVars>>

\* The call goes on with user u.
Match(k, u) == call' = [call EXCEPT ![k].user = u]

\* GetUserByEmail of the profile's address.
MatchEmail(k) ==
    LET e   == call[k].address
        err == GetUserByEmail(e)
    IN  /\ err = Nil \/ IsInvalidInput(err)
        /\ Continue(k, "matching", IF err = Nil THEN "linking" ELSE "creating")
        /\ IF err = Nil THEN \E u \in HasEmail(e) : Match(k, u) ELSE UNCHANGED call
        /\ UNCHANGED <<accountVars, sessionVars, stateVars, answer>>

\* The identity may have been linked meanwhile (Abort).
LinkIdentity(k) ==
    /\ Continue(k, "linking", "issuing")
    /\ CreateOAuthProvider(call[k].identity, call[k].user)
    /\ UNCHANGED <<email, workspaces, sessionVars, stateVars, call, answer>>

\* Mutant of CreateAccount: the user row is not in the transaction.
BugUserCommitted(k, u) ==
    /\ Continue(k, "creating", "linking")
    /\ CreateUser(u, call[k].address)
    /\ Match(k, u)
    /\ UNCHANGED <<linked, workspaces, sessionVars, stateVars, answer>>

\* One transaction; a constraint that fails undoes all of it (Abort).
CreateAccount(k, u) ==
    /\ Continue(k, "creating", "issuing")
    /\ CreateUser(u, call[k].address)
    /\ CreateOAuthProvider(call[k].identity, u)
    /\ Provision(u)
    /\ Match(k, u)
    /\ UNCHANGED <<sessionVars, stateVars, answer>>
-----------------------------------------------------------------------------
(* Sessions: issueTokens, Refresh, Logout                                  *)

\* issueTokens stores a session under a fresh token and hands it out.  The
\* workspace of the access token is read before; no workspace is ever removed,
\* and a missing one is answered like a failed statement (Abort).
Issue(k, t) ==
    /\ pc[k] = "issuing"
    /\ GetPrimaryWorkspace(call[k].user) = Nil
    /\ CreateSession(t, call[k].user)
    /\ parent' = [parent EXCEPT ![t] = call[k].token]
    /\ End(k, "signed in")
    /\ UNCHANGED <<accountVars, stateVars>>

\* Refresh reads the session of the presented token.
ReadSession(k, t) ==
    IF ErrorIs(GetActiveSessionByHash(t), "ErrNotFound")
    THEN Refuse(k, MapError("ErrInvalidRefresh"))
    ELSE /\ Begin(k, "revoking", Holding(None, None, holder[t], t))
         /\ UNCHANGED <<accountVars, sessionVars, stateVars>>

\* Mutant of RevokePresented: the presented token stays good.
BugNotRevoked(k) ==
    /\ Continue(k, "revoking", "issuing")
    /\ UNCHANGED <<accountVars, sessionVars, stateVars, call, answer>>

RevokePresented(k) ==
    /\ Continue(k, "revoking", "issuing")
    /\ RevokeSessionByHash(call[k].token)
    /\ UNCHANGED <<accountVars, holder, parent, stateVars, call, answer>>

\* Logout, or the session's expiry.
EndSession(t) ==
    /\ t \in live
    /\ RevokeSessionByHash(t)
    /\ UNCHANGED <<accountVars, holder, parent, stateVars, callVars>>

\* A statement fails (a unique index among the reasons) or the process dies.
Abort(k) ==
    /\ pc[k] # "idle"
    /\ End(k, MapError("Internal"))
    /\ UNCHANGED <<accountVars, sessionVars, stateVars>>
-----------------------------------------------------------------------------
RequestStep(k) ==
    \/ \E e \in Emails : Register(k, e) \/ ForgotPassword(k, e)
    \/ \E e \in Emails, right \in BOOLEAN : Login(k, e, right)
    \/ VerifyEmail(k) \/ ResetPassword(k)
    \/ Abort(k)

SignInStep(k) ==
    \/ \E s \in States, i \in Identities : Callback(k, s, i)
    \/ ExchangeFails(k) \/ \E e \in Addresses : FindIdentity(k, e)
    \/ MatchEmail(k) \/ LinkIdentity(k)
    \/ \E u \in Users : CreateAccount(k, u)

SessionStep(k) ==
    \/ RevokePresented(k)
    \/ \E t \in Tokens : Issue(k, t) \/ ReadSession(k, t)

Next ==
    \/ \E k \in Calls : RequestStep(k) \/ SignInStep(k) \/ SessionStep(k)
    \/ \E s \in States : LoseState(s) \/ \E p \in Providers : StartOAuth(s, p)
    \/ \E t \in Tokens : EndSession(t)

Spec == Init /\ [][Next]_vars
-----------------------------------------------------------------------------
(* Properties                                                              *)

Holdings == [identity : Identities \cup {None}, address : Addresses \cup {None},
             user : Users \cup {None}, token : Tokens \cup {None}]

TypeOK ==
    /\ email \in [Users -> Addresses \cup {None}]
    /\ linked \in [Identities -> Users \cup {None}]
    /\ workspaces \subseteq Users
    /\ holder \in [Tokens -> Users \cup {None}]
    /\ parent \in [Tokens -> Tokens \cup {None}]
    /\ live \subseteq {t \in Tokens : holder[t] # None}
    /\ state \in [States -> Providers \cup {None}]
    /\ accepted \in [States -> Nat]
    /\ pc \in [Calls -> {"idle", "exchanging", "matching", "linking", "creating",
                         "issuing", "revoking"}]
    /\ call \in [Calls -> Holdings]
    /\ answer \in Answers

\* However first sign-ins of one person race, through several providers at
\* once: no address has two accounts, and an identity signs in the account of
\* its own address (AuthenticateOAuth's linking rule and the unique indexes).
OneAccountPerEmail ==
    /\ \A u, v \in Users : email[u] = email[v] => u = v \/ email[u] = None
    /\ \A i \in Identities : linked[i] # None => email[linked[i]] \in ProfileEmails(i)

\* No account is left without a way to sign in to it or without a workspace,
\* wherever a first sign-in is cut short (the transaction of AuthenticateOAuth).
NoOrphanAccount ==
    \A u \in Users : email[u] # None =>
        /\ u \in Existing \/ \E i \in Identities : linked[i] = u
        /\ u \in workspaces

\* A sign-in started once comes back once (GETDEL of the state parameter).
StateOnce == \A s \in States : accepted[s] <= 1

\* A token obtained in exchange belongs to the same user, and the token it was
\* exchanged for is dead: revocation comes before the new session, also when
\* refreshes, sign-outs and crashes interleave.
ExchangedIsDead ==
    \A t \in Tokens : parent[t] # None =>
        parent[t] \notin live /\ holder[parent[t]] = holder[t]

Exchanges(t) == {c \in Tokens : parent[c] = t}

\* A refresh token is exchanged once (the comment on Refresh: the presented
\* token is revoked and a fresh pair is issued).
RotationLinear == \A t \in Tokens : Cardinality(Exchanges(t)) <= 1

\* No request ends in a panic: a wrapped nil error is nil (the comment on Wrap).
WrappedNilIsNil == answer # "panic"
=============================================================================
