-------------------------- MODULE AuthAccountsProofs --------------------------
(***************************************************************************)
(* For any number of requests, users, identities and tokens: accounts and  *)
(* their login methods stay consistent, a sign-in comes back once, and a   *)
(* refresh token that was exchanged is dead.                               *)
(***************************************************************************)
EXTENDS AuthAccounts, TLAPS

\* What a call holds between its steps is still so when it is used: the user
\* it matched has the identity's address, the token it revoked is dead.
CallHolds(k) ==
    /\ pc[k] \in {"exchanging", "matching", "linking", "creating"}
          => call[k].identity # None /\ call[k].token = None
    /\ pc[k] \in {"matching", "linking", "creating"}
          => call[k].address \in ProfileEmails(call[k].identity)
    /\ pc[k] \in {"linking", "issuing", "revoking"} => call[k].user # None
    /\ pc[k] = "linking" => email[call[k].user] = call[k].address
    /\ pc[k] \in {"issuing", "revoking"} /\ call[k].token # None
          => holder[call[k].token] = call[k].user
    /\ pc[k] = "revoking" => call[k].token # None
    /\ pc[k] = "issuing" => call[k].token \notin live

CallsHold == \A k \in Calls : CallHolds(k)

\* A state parameter that can still be presented never was.
StateUnspent == \A s \in States : state[s] # None => accepted[s] = 0

\* Only tokens that were handed out have a parent.
ChildrenHeld == \A t \in Tokens : parent[t] # None => holder[t] # None

IInv ==
    /\ TypeOK
    /\ CallsHold
    /\ OneAccountPerEmail
    /\ NoOrphanAccount
    /\ StateOnce
    /\ StateUnspent
    /\ ChildrenHeld
    /\ ExchangedIsDead
-----------------------------------------------------------------------------
\* The initial states, in which the database may hold accounts already.
LEMMA InitIInv == Init => IInv
  <1> SUFFICES ASSUME Init
               PROVE  IInv
    OBVIOUS
  <1> USE AuthConstants
  <1>1. TypeOK
    BY DEF Init, TypeOK, Holdings, NoCall, Holding, Answers, Addresses
  <1>2. CallsHold
    BY DEF Init, CallsHold, CallHolds
  <1>3. OneAccountPerEmail /\ NoOrphanAccount
    BY DEF Init, OneAccountPerEmail, NoOrphanAccount
  <1>4. StateOnce /\ StateUnspent
    BY DEF Init, StateOnce, StateUnspent
  <1>5. ChildrenHeld /\ ExchangedIsDead
    BY DEF Init, ChildrenHeld, ExchangedIsDead
  <1> QED
    BY <1>1, <1>2, <1>3, <1>4, <1>5 DEF IInv

\* Every error has an answer.
LEMMA ErrorsAnswered ==
    ASSUME NEW err
    PROVE  MapError(err) \in Answers /\ WriteError(err) \in Answers
  BY DEF MapError, WriteError, Answers, Statuses

\* An address that a profile can have is one that a user row can have.
LEMMA ProfileAddresses ==
    ASSUME NEW i \in Identities
    PROVE  ProfileEmails(i) \subseteq Addresses
  BY AuthConstants DEF ProfileEmails, Addresses

\* A request that ends changes nothing but its answer.
LEMMA EndStep ==
    ASSUME IInv, NEW k \in Calls, NEW how \in Answers, End(k, how),
           UNCHANGED <<accountVars, sessionVars, stateVars>>
    PROVE  IInv'
  <1> USE AuthConstants DEF accountVars, sessionVars, stateVars, End, IInv
  <1>1. TypeOK'
    BY DEF TypeOK, Holdings, NoCall, Holding
  <1>2. CallsHold'
    BY DEF TypeOK, Holdings, CallsHold, CallHolds, NoCall, Holding
  <1> QED
    BY <1>1, <1>2 DEF OneAccountPerEmail, NoOrphanAccount, StateOnce,
                      StateUnspent, ChildrenHeld, ExchangedIsDead

\* Requests that are answered at once, log in, or fail.
LEMMA RequestSteps ==
    ASSUME IInv, NEW k \in Calls, RequestStep(k)
    PROVE  IInv'
  <1>1. ASSUME NEW e \in Emails, Register(k, e) \/ ForgotPassword(k, e)
        PROVE  IInv'
    BY <1>1, EndStep, ErrorsAnswered DEF Register, ForgotPassword, Refuse
  <1>2. CASE VerifyEmail(k) \/ ResetPassword(k)
    BY <1>2, EndStep, ErrorsAnswered DEF VerifyEmail, ResetPassword, Refuse
  <1>3. CASE Abort(k)
    BY <1>3, EndStep, ErrorsAnswered DEF Abort
  <1>4. ASSUME NEW e \in Emails, NEW right \in BOOLEAN, Login(k, e, right)
        PROVE  IInv'
    <2>1. ASSUME NEW err \in LoginErrors(e, right), Refuse(k, MapError(err))
          PROVE  IInv'
      BY <2>1, EndStep, ErrorsAnswered DEF Refuse
    <2>2. ASSUME NEW u \in HasEmail(e), Begin(k, "issuing", Holding(None, None, u, None)),
                 UNCHANGED <<accountVars, sessionVars, stateVars>>
          PROVE  IInv'
      <3> USE <2>2, AuthConstants DEF Begin, HasEmail, accountVars, sessionVars, stateVars, IInv
      <3>1. TypeOK'
        BY DEF TypeOK, Holdings, Holding, Answers
      <3>2. CallsHold'
        BY DEF TypeOK, Holdings, CallsHold, CallHolds, Holding
      <3> QED
        BY <3>1, <3>2 DEF OneAccountPerEmail, NoOrphanAccount, StateOnce,
                          StateUnspent, ChildrenHeld, ExchangedIsDead
    <2> QED
      BY <1>4, <2>1, <2>2 DEF Login
  <1> QED
    BY <1>1, <1>2, <1>3, <1>4 DEF RequestStep

\* Sign-in through a provider, up to the account.
LEMMA SignInSteps ==
    ASSUME IInv, NEW k \in Calls, SignInStep(k)
    PROVE  IInv'
  <1> USE AuthConstants DEF accountVars, sessionVars, stateVars, IInv
  <1>1. ASSUME NEW s \in States, NEW i \in Identities, Callback(k, s, i)
        PROVE  IInv'
    <2>0. /\ state' = [state EXCEPT ![s] = None]
          /\ UNCHANGED <<accountVars, sessionVars>>
      BY <1>1 DEF Callback, Spend
    <2>1. CASE state[s] = ProviderOf[i]
      <3>1. /\ pc' = [pc EXCEPT ![k] = "exchanging"]
            /\ call' = [call EXCEPT ![k] = [identity |-> i, address |-> None,
                                            user |-> None, token |-> None]]
            /\ accepted' = [accepted EXCEPT ![s] = @ + 1]
            /\ answer' = "none"
        BY <1>1, <2>1 DEF Callback, Begin, Holding
      <3>2. TypeOK'
        <4>1. call' \in [Calls -> Holdings]
          BY <3>1 DEF TypeOK, Holdings
        <4>2. state' \in [States -> Providers \cup {None}]
          BY <2>0 DEF TypeOK
        <4>3. answer' \in Answers
          BY <3>1 DEF Answers
        <4> QED
          BY <2>0, <3>1, <4>1, <4>2, <4>3 DEF TypeOK
      <3>3. CallsHold'
        BY <2>0, <3>1 DEF TypeOK, Holdings, CallsHold, CallHolds
      <3>4. (StateOnce /\ StateUnspent)'
        BY <2>0, <2>1, <3>1 DEF TypeOK, StateOnce, StateUnspent
      <3> QED
        BY <2>0, <3>2, <3>3, <3>4 DEF OneAccountPerEmail, NoOrphanAccount, ChildrenHeld,
                                      ExchangedIsDead
    <2>2. CASE state[s] # ProviderOf[i]
      <3>1. /\ pc' = [pc EXCEPT ![k] = "idle"]
            /\ call' = [call EXCEPT ![k] = [identity |-> None, address |-> None,
                                            user |-> None, token |-> None]]
            /\ answer' \in Answers
            /\ UNCHANGED accepted
        BY <1>1, <2>2, ErrorsAnswered DEF Callback, End, NoCall, Holding
      <3>2. TypeOK'
        BY <2>0, <3>1 DEF TypeOK, Holdings
      <3>3. CallsHold'
        BY <2>0, <3>1 DEF TypeOK, Holdings, CallsHold, CallHolds
      <3>4. (StateOnce /\ StateUnspent)'
        BY <2>0, <3>1 DEF TypeOK, StateOnce, StateUnspent
      <3> QED
        BY <2>0, <3>2, <3>3, <3>4 DEF OneAccountPerEmail, NoOrphanAccount, ChildrenHeld,
                                      ExchangedIsDead
    <2> QED
      BY <2>1, <2>2
  <1>2. ASSUME NEW e \in Addresses, FindIdentity(k, e)
        PROVE  IInv'
    <2> DEFINE i == call[k].identity
               err == GetUserByProvider(i)
               next == IF e = NoEmail THEN "creating" ELSE "matching"
    <2>1. CASE Panics(err)
      <3>1. End(k, "panic") /\ UNCHANGED <<accountVars, sessionVars, stateVars>>
        BY <1>2, <2>1 DEF FindIdentity
      <3> QED
        BY <3>1, EndStep DEF Answers, Statuses
    <2>2. CASE ~Panics(err)
      <3>1. /\ pc[k] = "exchanging" /\ pc' = [pc EXCEPT ![k] = next]
            /\ e \in ProfileEmails(i)
            /\ call' = [call EXCEPT ![k].address = e]
            /\ UNCHANGED <<answer, accountVars, sessionVars, stateVars>>
        BY <1>2, <2>2 DEF FindIdentity, Continue
      <3>2. TypeOK'
        BY <3>1, SMTT(30) DEF TypeOK, Holdings
      <3>3. CallsHold'
        BY <3>1 DEF TypeOK, Holdings, CallsHold, CallHolds
      <3> QED
        BY <3>1, <3>2, <3>3 DEF OneAccountPerEmail, NoOrphanAccount, StateOnce,
                                StateUnspent, ChildrenHeld, ExchangedIsDead
    <2> QED
      BY <2>1, <2>2
  <1>3. CASE MatchEmail(k)
    <2> DEFINE found == HasEmail(call[k].address)
    <2>0. /\ pc[k] = "matching"
          /\ UNCHANGED <<answer, accountVars, sessionVars, stateVars>>
          /\ GetUserByEmail(call[k].address) = Nil <=> found # {}
      BY <1>3 DEF MatchEmail, Continue, GetUserByEmail, Nil
    <2>1. ASSUME found = {}
          PROVE  TypeOK' /\ CallsHold'
      <3>1. pc' = [pc EXCEPT ![k] = "creating"] /\ UNCHANGED call
        BY <1>3, <2>0, <2>1 DEF MatchEmail, Continue
      <3> QED
        BY <2>0, <3>1 DEF TypeOK, Holdings, CallsHold, CallHolds
    <2>2. ASSUME found # {}
          PROVE  TypeOK' /\ CallsHold'
      <3>1. PICK u \in found : Match(k, u)
        BY <1>3, <2>0, <2>2 DEF MatchEmail
      <3>2. pc' = [pc EXCEPT ![k] = "linking"]
        BY <1>3, <2>0, <2>2 DEF MatchEmail, Continue
      <3>3. u \in Users /\ email[u] = call[k].address
        BY DEF HasEmail
      <3>4. u # None
        BY <3>3
      <3>5. TypeOK'
        <4>1. [call[k] EXCEPT !.user = u] \in Holdings
          BY <3>3 DEF TypeOK, Holdings
        <4>2. call' \in [Calls -> Holdings]
          BY <3>1, <4>1 DEF TypeOK, Match
        <4> QED
          BY <2>0, <3>2, <4>2 DEF TypeOK
      <3>6. CallsHold'
        BY <2>0, <3>1, <3>2, <3>3, <3>4 DEF TypeOK, Holdings, CallsHold, CallHolds, Match
      <3> QED
        BY <3>5, <3>6
    <2> QED
      BY <2>0, <2>1, <2>2 DEF OneAccountPerEmail, NoOrphanAccount, StateOnce,
                              StateUnspent, ChildrenHeld, ExchangedIsDead
  <1>4. CASE LinkIdentity(k)
    <2> DEFINE i == call[k].identity
    <2>1. /\ pc[k] = "linking" /\ pc' = [pc EXCEPT ![k] = "issuing"]
          /\ linked[i] = None
          /\ linked' = [linked EXCEPT ![i] = call[k].user]
          /\ UNCHANGED <<email, workspaces, call, answer, sessionVars, stateVars>>
      BY <1>4 DEF LinkIdentity, CreateOAuthProvider, Continue
    <2>2. /\ i \in Identities /\ call[k].user \in Users
          /\ email[call[k].user] \in ProfileEmails(i)
          /\ call[k].token = None
      BY <2>1 DEF TypeOK, Holdings, CallsHold, CallHolds
    <2>3. TypeOK'
      BY <2>1, <2>2 DEF TypeOK
    <2>4. CallsHold'
      BY <2>1, <2>2 DEF TypeOK, Holdings, CallsHold, CallHolds
    <2>5. (OneAccountPerEmail /\ NoOrphanAccount)'
      BY <2>1, <2>2 DEF TypeOK, OneAccountPerEmail, NoOrphanAccount
    <2> QED
      BY <2>1, <2>3, <2>4, <2>5 DEF StateOnce, StateUnspent, ChildrenHeld, ExchangedIsDead
  <1>5. ASSUME NEW u \in Users, CreateAccount(k, u)
        PROVE  IInv'
    <2> DEFINE i == call[k].identity
               e == call[k].address
    <2>1. /\ pc[k] = "creating" /\ pc' = [pc EXCEPT ![k] = "issuing"]
          /\ email[u] = None
          /\ \A v \in Users : email[v] # e
          /\ linked[i] = None
          /\ email' = [email EXCEPT ![u] = e]
          /\ linked' = [linked EXCEPT ![i] = u]
          /\ workspaces' = workspaces \cup {u}
          /\ call' = [call EXCEPT ![k].user = u]
          /\ UNCHANGED <<answer, sessionVars, stateVars>>
      BY <1>5 DEF CreateAccount, Continue, CreateUser, CreateOAuthProvider, Provision, CreateWorkspace,
                  EmailFree, HasEmail, Match
    <2>2. i \in Identities /\ e \in ProfileEmails(i) /\ e \in Addresses /\ u # None
      BY <2>1, ProfileAddresses DEF TypeOK, Holdings, CallsHold, CallHolds
    <2>3. TypeOK'
      BY <2>1, <2>2 DEF TypeOK, Holdings
    <2>4. CallsHold'
      <3>1. CallHolds(k)'
        BY <2>1, <2>2 DEF TypeOK, Holdings, CallsHold, CallHolds
      <3>2. ASSUME NEW q \in Calls, q # k
            PROVE  CallHolds(q)'
        <4>1. pc'[q] = pc[q] /\ call'[q] = call[q] /\ CallHolds(q)
          BY <2>1, <3>2 DEF TypeOK, CallsHold
        <4>2. pc[q] = "linking" => call[q].address # None /\ call[q].user # u
          <5>1. pc[q] = "linking" => call[q].identity \in Identities /\ call[q].address \in Addresses
            BY <4>1, ProfileAddresses DEF TypeOK, CallHolds, Holdings
          <5> QED
            BY <2>1, <4>1, <5>1 DEF CallHolds, Addresses
        <4>3. pc[q] = "linking" => email'[call[q].user] = call[q].address
          BY <2>1, <4>1, <4>2 DEF TypeOK, CallHolds, Holdings
        <4> QED
          BY <2>1, <4>1, <4>3 DEF CallHolds
      <3> QED
        BY <3>1, <3>2 DEF CallsHold
    <2>5. (OneAccountPerEmail /\ NoOrphanAccount)'
      <3>1. ASSUME NEW j \in Identities, linked[j] = u
            PROVE  FALSE
        <4>1. email[u] \in ProfileEmails(j)
          BY <2>2, <3>1 DEF OneAccountPerEmail
        <4>2. email[u] \in Addresses
          BY <4>1, ProfileAddresses
        <4> QED
          BY <2>1, <4>2 DEF Addresses
      <3> QED
        BY <2>1, <2>2, <3>1 DEF TypeOK, OneAccountPerEmail, NoOrphanAccount, Addresses
    <2> QED
      BY <2>1, <2>3, <2>4, <2>5 DEF StateOnce, StateUnspent, ChildrenHeld, ExchangedIsDead
  <1>6. CASE ExchangeFails(k)
    BY <1>6, EndStep, ErrorsAnswered DEF ExchangeFails
  <1> QED
    BY <1>1, <1>2, <1>3, <1>4, <1>5, <1>6 DEF SignInStep

\* Sessions: what is handed out, exchanged and revoked.
LEMMA SessionSteps ==
    ASSUME IInv, NEW k \in Calls, SessionStep(k)
    PROVE  IInv'
  <1> USE AuthConstants DEF accountVars, sessionVars, stateVars, IInv
  <1>1. ASSUME NEW t \in Tokens, Issue(k, t)
        PROVE  IInv'
    <2> DEFINE u == call[k].user
               old == call[k].token
    <2>1. /\ pc[k] = "issuing" /\ pc' = [pc EXCEPT ![k] = "idle"]
          /\ holder[t] = None
          /\ holder' = [holder EXCEPT ![t] = u]
          /\ parent' = [parent EXCEPT ![t] = old]
          /\ live' = live \cup {t}
          /\ call' = [call EXCEPT ![k] = [identity |-> None, address |-> None,
                                          user |-> None, token |-> None]]
          /\ answer' = "signed in"
          /\ UNCHANGED <<accountVars, stateVars>>
      BY <1>1 DEF Issue, CreateSession, End, NoCall, Holding
    <2>2. /\ u \in Users /\ u # None
          /\ old # None => old \in Tokens /\ old \notin live /\ holder[old] = u
      BY <2>1 DEF TypeOK, Holdings, CallsHold, CallHolds
    <2>3. old # t
      <3>1. t # None
        OBVIOUS
      <3> QED
        BY <2>1, <2>2, <3>1
    <2>4. TypeOK'
      <3>1. holder' \in [Tokens -> Users \cup {None}] /\ parent' \in [Tokens -> Tokens \cup {None}]
        BY <2>1, <2>2 DEF TypeOK
      <3>2. live' \subseteq {c \in Tokens : holder'[c] # None}
        <4>1. \A c \in live : c \in Tokens /\ holder[c] # None
          BY DEF TypeOK
        <4>2. holder'[t] # None /\ \A c \in Tokens \ {t} : holder'[c] = holder[c]
          BY <2>1, <2>2 DEF TypeOK
        <4> QED
          BY <2>1, <4>1, <4>2
      <3> QED
        BY <2>1, <3>1, <3>2 DEF TypeOK, Holdings, Answers
    <2>5. CallsHold'
      <3>1. CallHolds(k)'
        BY <2>1 DEF TypeOK, CallHolds
      <3>2. ASSUME NEW q \in Calls, q # k
            PROVE  CallHolds(q)'
        <4>1. pc'[q] = pc[q] /\ call'[q] = call[q]
          BY <2>1, <3>2 DEF TypeOK
        <4>2. CallHolds(q) /\ email' = email
          BY <2>1 DEF CallsHold
        <4>3. pc[q] \in {"issuing", "revoking"} /\ call[q].token # None
                 => call[q].token # t /\ holder'[call[q].token] = call[q].user
          BY <2>1, <4>2 DEF TypeOK, Holdings, CallHolds
        <4>4. pc[q] = "issuing" => call[q].token \notin live'
          BY <2>1, <4>2, <4>3 DEF CallHolds
        <4> QED
          BY <4>1, <4>2, <4>3, <4>4 DEF CallHolds
      <3> QED
        BY <3>1, <3>2 DEF CallsHold
    <2>6. (ChildrenHeld /\ ExchangedIsDead)'
      <3>1. \A c \in Tokens : parent[c] # None => parent[c] # t /\ c # t
        BY <2>1 DEF TypeOK, ChildrenHeld, ExchangedIsDead
      <3> QED
        BY <2>1, <2>2, <2>3, <3>1 DEF TypeOK, ChildrenHeld, ExchangedIsDead
    <2> QED
      BY <2>1, <2>4, <2>5, <2>6 DEF OneAccountPerEmail, NoOrphanAccount, StateOnce, StateUnspent
  <1>2. ASSUME NEW t \in Tokens, ReadSession(k, t)
        PROVE  IInv'
    <2>1. CASE t \notin live
      <3>1. Refuse(k, MapError("ErrInvalidRefresh"))
        BY <1>2, <2>1 DEF ReadSession, GetActiveSessionByHash, ErrorIs
      <3> QED
        BY <3>1, EndStep, ErrorsAnswered DEF Refuse
    <2>2. CASE t \in live
      <3>1. /\ pc' = [pc EXCEPT ![k] = "revoking"]
            /\ call' = [call EXCEPT ![k] = [identity |-> None, address |-> None,
                                            user |-> holder[t], token |-> t]]
            /\ answer' = "none"
            /\ UNCHANGED <<accountVars, sessionVars, stateVars>>
        BY <1>2, <2>2 DEF ReadSession, GetActiveSessionByHash, ErrorIs, Nil, Begin, Holding
      <3>2. holder[t] \in Users /\ holder[t] # None /\ t # None
        BY <2>2 DEF TypeOK
      <3>3. TypeOK'
        BY <3>1, <3>2 DEF TypeOK, Holdings, Answers
      <3>4. CallsHold'
        BY <2>2, <3>1, <3>2 DEF TypeOK, Holdings, CallsHold, CallHolds
      <3> QED
        BY <3>1, <3>3, <3>4 DEF OneAccountPerEmail, NoOrphanAccount, StateOnce,
                                StateUnspent, ChildrenHeld, ExchangedIsDead
    <2> QED
      BY <2>1, <2>2
  <1>3. CASE RevokePresented(k)
    <2>1. /\ pc[k] = "revoking" /\ pc' = [pc EXCEPT ![k] = "issuing"]
          /\ live' = live \ {call[k].token}
          /\ UNCHANGED <<holder, parent, call, answer, accountVars, stateVars>>
      BY <1>3 DEF RevokePresented, RevokeSessionByHash, Continue
    <2>2. TypeOK'
      BY <2>1 DEF TypeOK
    <2>3. CallsHold'
      BY <2>1 DEF TypeOK, Holdings, CallsHold, CallHolds
    <2> QED
      BY <2>1, <2>2, <2>3 DEF OneAccountPerEmail, NoOrphanAccount, StateOnce,
                              StateUnspent, ChildrenHeld, ExchangedIsDead
  <1> QED
    BY <1>1, <1>2, <1>3 DEF SessionStep

\* States come and go, sessions end, at any time.
LEMMA WorldSteps ==
    ASSUME IInv,
           \/ \E s \in States : LoseState(s) \/ \E p \in Providers : StartOAuth(s, p)
           \/ \E t \in Tokens : EndSession(t)
    PROVE  IInv'
  <1> USE AuthConstants DEF accountVars, sessionVars, stateVars, callVars, IInv
  <1>1. ASSUME NEW s \in States, LoseState(s)
        PROVE  IInv'
    <2> USE <1>1 DEF LoseState, Spend
    <2> QED
      BY DEF TypeOK, Holdings, CallsHold, CallHolds, OneAccountPerEmail, NoOrphanAccount, StateOnce,
             StateUnspent, ChildrenHeld, ExchangedIsDead
  <1>2. ASSUME NEW s \in States, NEW p \in Providers, StartOAuth(s, p)
        PROVE  IInv'
    BY <1>2 DEF StartOAuth, TypeOK, CallsHold, CallHolds, OneAccountPerEmail, NoOrphanAccount,
                StateOnce, StateUnspent, ChildrenHeld, ExchangedIsDead
  <1>3. ASSUME NEW t \in Tokens, EndSession(t)
        PROVE  IInv'
    BY <1>3 DEF EndSession, RevokeSessionByHash, TypeOK, CallsHold, CallHolds, OneAccountPerEmail, NoOrphanAccount,
                StateOnce, StateUnspent, ChildrenHeld, ExchangedIsDead
  <1> QED
    BY <1>1, <1>2, <1>3

\* Every step keeps IInv.
LEMMA NextIInv == IInv /\ [Next]_vars => IInv'
  <1> SUFFICES ASSUME IInv, [Next]_vars
               PROVE  IInv'
    OBVIOUS
  <1>1. CASE Next
    BY <1>1, RequestSteps, SignInSteps, SessionSteps, WorldSteps DEF Next
  <1>2. CASE UNCHANGED vars
    BY <1>2 DEF vars, accountVars, sessionVars, stateVars, callVars, IInv, TypeOK,
                CallsHold, CallHolds, OneAccountPerEmail, NoOrphanAccount, StateOnce,
                StateUnspent, ChildrenHeld, ExchangedIsDead
  <1> QED
    BY <1>1, <1>2

\* IInv holds in every state of every behaviour.
THEOREM Invariance == Spec => []IInv
  BY InitIInv, NextIInv, PTL DEF Spec

\* Variables have their types, whatever requests and failures interleave.
THEOREM TypeCorrect == Spec => []TypeOK
  <1>1. IInv => TypeOK
    BY DEF IInv
  <1> QED
    BY Invariance, <1>1, PTL

\* No two accounts ever share an address, no identity signs in to the account
\* of another address, and no account is without a way in or
\* without its workspace.
THEOREM AccountsConsistent == Spec => [](OneAccountPerEmail /\ NoOrphanAccount)
  <1>1. IInv => OneAccountPerEmail /\ NoOrphanAccount
    BY DEF IInv
  <1> QED
    BY Invariance, <1>1, PTL

\* A first sign-in leaves no account without a way to sign in to it, or without
\* its workspace, wherever it is cut short (AuthenticateOAuth's transaction).
THEOREM EveryAccountWhole == Spec => []NoOrphanAccount
  <1>1. IInv => NoOrphanAccount
    BY DEF IInv
  <1> QED
    BY Invariance, <1>1, PTL

\* A sign-in started once comes back at most once.
THEOREM StateSingleUse == Spec => []StateOnce
  <1>1. IInv => StateOnce
    BY DEF IInv
  <1> QED
    BY Invariance, <1>1, PTL

\* A refresh token that was exchanged is dead, and stays in the family.
THEOREM RotationRevokes == Spec => []ExchangedIsDead
  <1>1. IInv => ExchangedIsDead
    BY DEF IInv
  <1> QED
    BY Invariance, <1>1, PTL
=============================================================================
