------------------------------ MODULE WebSession ------------------------------
(***************************************************************************)
(* The dashboard's session (src/apps/web): tabs that restore a session,    *)
(* sign in and sign out, over the sessions of AuthAccounts.  The tabs of a *)
(* browser share one cookie, the refresh token; each keeps a store of its  *)
(* own, which the answers to its requests fill in the order they are heard.*)
(*                                                                         *)
(* A request presents the cookie as it was when it was sent.  Its answer   *)
(* reaches the browser, which sets the cookie, before the page's code,     *)
(* which sets the store.  It may be lost on either way, the API may stop   *)
(* in its middle, and a page that is left does not hear it.                *)
(*                                                                         *)
(* Accounts are there and have a password; a sign-in through a provider    *)
(* leaves the page and ends like any other (AuthAccounts).  Registration   *)
(* fails in this build.  Tokens do not expire before their cookie does.    *)
(***************************************************************************)
EXTENDS Integers, FiniteSets

CONSTANTS
    Tabs,       \* tabs of one browser
    Calls,      \* concurrent requests
    Users,      \* accounts, which go by their address
    Tokens,     \* refresh tokens
    MaxRequests,    \* bound: requests of all tabs
    None

ASSUME WebConstants ==
    /\ MaxRequests \in Nat
    /\ None \notin Users \cup Tokens \cup Tabs \cup {"cleared"}

\* No user is taken for a state of a page, and no token for a cookie's removal.
ASSUME WebNames ==
    /\ Users \cap {"closed", "loading", "unauthenticated"} = {}
    /\ "cleared" \notin Tokens

\* The empty address is nobody's.
ASSUME NoAddress == "no address" \notin Users \cup {None}

VARIABLES
    email, workspaces,                          \* rows nothing changes here
    holder, parent, live, pc, call, answer,     \* the API, as in AuthAccounts
    cookie,     \* the refresh token in the browser's cookie, or None
    store,      \* store[b]: the user that tab b shows, or what it shows instead
    request,    \* request[k]: who sent request k, what it presents, where it is
    started,    \* tabs whose page has run its bootstrap (the ref of Providers)
    sent,       \* requests sent so far
    uses,       \* history; uses[t]: what requests that presented t came to
    overtaken   \* history: tabs with a sign-in sent before bootstrap had ended

Api == INSTANCE AuthAccounts
         WITH Existing <- Users, Emails <- Users, NoEmail <- "no address",
              ExistingEmail <- [u \in Users |-> u], Identities <- {},
              ProviderOf <- [i \in {} |-> None], ProfileEmail <- [i \in {} |-> None],
              Private <- {}, States <- {}, linked <- [i \in {} |-> None],
              state <- [s \in {} |-> None], accepted <- [s \in {} |-> 0]

sessionVars == <<holder, parent, live>>
apiVars == <<email, workspaces, sessionVars, pc, call, answer>>
webVars == <<cookie, store, request, started, sent>>
vars == <<apiVars, webVars, uses, overtaken>>

\* AuthStatus, with the user in place of "authenticated"; or no page at all.
Shown == {"closed", "loading", "unauthenticated"} \cup Users

Asking(b, what, t) ==
    [tab |-> b, kind |-> what, token |-> t, stage |-> "sent", reply |-> None]
NoRequest == [Asking(None, "none", None) EXCEPT !.stage = "idle"]

\* Which of several equal ones is taken makes no difference.
AnyOf(S) == IF S = {} THEN {} ELSE {CHOOSE x \in S : TRUE}
FreeCalls == AnyOf({k \in Calls : request[k] = NoRequest})
FreshTokens == AnyOf({t \in Tokens : holder[t] = None})

\* The browser has a session from before; the tabs are to be opened.
Init ==
    /\ email = [u \in Users |-> u] /\ workspaces = Users
    /\ \E u \in AnyOf(Users), t \in AnyOf(Tokens) :
          /\ holder = [s \in Tokens |-> IF s = t THEN u ELSE None]
          /\ live = {t}
          /\ cookie = t
    /\ parent = [t \in Tokens |-> None]
    /\ pc = [k \in Calls |-> "idle"] /\ call = [k \in Calls |-> Api!NoCall]
    /\ answer = "none"
    /\ store = [b \in Tabs |-> "closed"]
    /\ request = [k \in Calls |-> NoRequest]
    /\ started = {}
    /\ sent = 0
    /\ uses = [t \in Tokens |-> "unused"]
    /\ overtaken = {}

\* A request goes out beside those of table r.
Send(r, q) ==
    /\ sent < MaxRequests
    /\ sent' = sent + 1
    /\ \E k \in FreeCalls : request' = [r EXCEPT ![k] = q]

Presented(c) ==
    [t \in Tokens |->
        CASE t = c /\ uses[t] = "unused"   -> "once"
          [] t = c /\ uses[t] = "once"     -> "contested"
          [] OTHER                         -> uses[t]]

Broken(K) ==
    [t \in Tokens |-> IF \E k \in K : request[k].token = t THEN "broken" ELSE uses[t]]
-----------------------------------------------------------------------------
(* The page's code: the store of a tab                                     *)

\* Mutant of Bootstrap: an error is not caught.
BugBootstrap(shown, reply) == IF reply \in Tokens THEN holder[reply] ELSE shown

Bootstrap(shown, reply) == IF reply \in Tokens THEN holder[reply] ELSE "unauthenticated"

\* A sign-in that failed only shows its error.
OnSubmit(shown, reply) == IF reply \in Tokens THEN holder[reply] ELSE shown

\* Errors of logout are ignored.
SignOut(shown, reply) == "unauthenticated"

\* The tab that waits for request k goes on with a reply, or with an error.
GoOn(k, reply) ==
    LET q == request[k]
    IN  store' = [store EXCEPT ![q.tab] =
                     CASE q.kind = "refresh"  -> Bootstrap(@, reply)
                       [] q.kind = "login"    -> OnSubmit(@, reply)
                       [] q.kind = "logout"   -> SignOut(@, reply)
                       [] q.kind = "provider" -> @]

\* Nobody waits for the answer any more.
Orphaned(q) == IF q.stage = "sent" THEN [q EXCEPT !.tab = None] ELSE NoRequest

Waiting(b) == {k \in Calls : request[k].tab = b}

\* A page that is left, or loaded again, takes its requests with it.
Left(b) == [k \in Calls |-> IF k \in Waiting(b) THEN Orphaned(request[k]) ELSE request[k]]

Load(b) ==
    /\ sent < MaxRequests
    /\ store' = [store EXCEPT ![b] = "loading"]
    /\ started' = started \ {b}
    /\ request' = Left(b)
    /\ uses' = Broken(Waiting(b))
    /\ overtaken' = overtaken \ {b}
    /\ UNCHANGED <<apiVars, cookie, sent>>

\* Mutant of FirstMount: Providers does not remember that it has started.
BugFirstMount(b) == store[b] # "closed"

\* Effects may run twice; the ref lets the first through.
FirstMount(b) == store[b] # "closed" /\ b \notin started

Mount(b) ==
    /\ FirstMount(b)
    /\ started' = started \cup {b}
    /\ Send(request, Asking(b, "refresh", cookie))
    /\ uses' = Presented(cookie)
    /\ UNCHANGED <<apiVars, cookie, store, overtaken>>

Usable(b) == store[b] # "closed" /\ b \in started

\* The form is open to whoever comes to /login, signed in or not; its button is
\* disabled while a sign-in is under way.
ClickSignIn(b) ==
    /\ Usable(b)
    /\ \A k \in Waiting(b) : request[k].kind # "login"
    /\ Send(request, Asking(b, "login", None))
    /\ overtaken' = IF \E k \in Waiting(b) : request[k].kind = "refresh"
                    THEN overtaken \cup {b} ELSE overtaken
    /\ UNCHANGED <<apiVars, cookie, store, started, uses>>

\* The browser goes to the provider, and comes back with a page load.
ClickProvider(b) ==
    /\ Usable(b)
    /\ Send(Left(b), Asking(b, "provider", None))
    /\ store' = [store EXCEPT ![b] = "closed"]
    /\ uses' = Broken(Waiting(b))
    /\ UNCHANGED <<apiVars, cookie, started, overtaken>>

\* Only a signed-in page has the button, which stays enabled.
ClickSignOut(b) ==
    /\ Usable(b)
    /\ store[b] \in Users
    /\ Send(request, Asking(b, "logout", cookie))
    /\ uses' = Presented(cookie)
    /\ UNCHANGED <<apiVars, cookie, store, started, overtaken>>
-----------------------------------------------------------------------------
(* The API: one call of AuthAccounts per request                           *)

Begins(k, kinds) ==
    /\ request[k].stage = "sent" /\ request[k].kind \in kinds
    /\ pc[k] = "idle"

Reply(k, r) ==
    request' = [request EXCEPT ![k] =
                   IF @.tab = None THEN NoRequest
                   ELSE [@ EXCEPT !.stage = "answered", !.reply = r]]

ReplyIfRefused(k) == IF pc'[k] = "idle" THEN Reply(k, None) ELSE UNCHANGED request

Refresh(k) ==
    /\ Begins(k, {"refresh"})
    /\ IF request[k].token = None THEN Api!Refuse(k, "unauthorized")
       ELSE Api!ReadSession(k, request[k].token)
    /\ ReplyIfRefused(k)
    /\ UNCHANGED uses

Login(k) ==
    /\ Begins(k, {"login", "provider"})
    /\ \E u \in Users, right \in BOOLEAN : Api!Login(k, u, right)
    /\ ReplyIfRefused(k)
    /\ UNCHANGED uses

Rotate(k) == Api!RevokePresented(k) /\ UNCHANGED <<request, uses>>

\* Mutant of RespondAuth: the new refresh token is not sent.
BugRespondAuth(k, t) == Reply(k, None)

RespondAuth(k, t) == Reply(k, t)

Issue(k) ==
    /\ \E t \in FreshTokens : Api!Issue(k, t) /\ RespondAuth(k, t)
    /\ UNCHANGED uses

\* A statement fails, or the API process dies.
Cut(k) ==
    /\ Api!Abort(k)
    /\ Reply(k, None)
    /\ uses' = Broken({k})

\* Mutant of Revoked: a sign-out ends all sessions of the user.
BugRevoked(t) == {s \in Tokens : holder[s] = holder[t]}

Revoked(t) == {t}

\* The cookie is cleared whether or not the session was there to be revoked,
\* and also when revoking it failed.
Logout(k) ==
    /\ Begins(k, {"logout"})
    /\ \/ request[k].token # None /\ live' = live \ Revoked(request[k].token)
       \/ UNCHANGED live
    /\ Reply(k, "cleared")
    /\ UNCHANGED <<email, workspaces, holder, parent, pc, call, answer, uses>>

Serve(k) ==
    /\ Refresh(k) \/ Login(k) \/ Rotate(k) \/ Issue(k) \/ Cut(k) \/ Logout(k)
    /\ UNCHANGED <<cookie, store, started, sent, overtaken>>
-----------------------------------------------------------------------------
(* The browser: answers on their way                                       *)

\* The headers have come: the cookie is set or cleared, or left as it is.
Arrive(k) ==
    LET q == request[k]
    IN  /\ q.stage = "answered"
        /\ cookie' = CASE q.reply \in Tokens    -> q.reply
                       [] q.reply = "cleared"   -> None
                       [] OTHER                 -> cookie
        /\ request' = [request EXCEPT ![k] =
                          IF q.kind = "provider" THEN NoRequest
                          ELSE [q EXCEPT !.stage = "arrived"]]
        /\ UNCHANGED <<apiVars, store, started, sent, uses, overtaken>>

\* The page's code hears the answer.
Hear(k) ==
    /\ request[k].stage = "arrived"
    /\ GoOn(k, request[k].reply)
    /\ request' = [request EXCEPT ![k] = NoRequest]
    /\ UNCHANGED <<apiVars, cookie, started, sent, uses, overtaken>>

\* The network fails under a request, or under the body of its answer.
Lose(k) ==
    /\ request[k].tab # None
    /\ GoOn(k, None)
    /\ request' = [request EXCEPT ![k] = Orphaned(@)]
    /\ uses' = Broken({k})
    /\ UNCHANGED <<apiVars, cookie, started, sent, overtaken>>
-----------------------------------------------------------------------------
TabStep(b) ==
    Load(b) \/ Mount(b) \/ ClickSignIn(b) \/ ClickProvider(b) \/ ClickSignOut(b)

RequestStep(k) == Serve(k) \/ Arrive(k) \/ Hear(k) \/ Lose(k)

Next ==
    \/ \E b \in Tabs : TabStep(b)
    \/ \E k \in Calls : RequestStep(k)

\* A request goes on, or its failure is noticed.  Nobody has to load or click.
Fairness == \A k \in Calls : WF_vars(RequestStep(k))

Spec == Init /\ [][Next]_vars /\ Fairness
-----------------------------------------------------------------------------
(* Properties                                                              *)

TypeOK ==
    /\ holder \in [Tokens -> Users \cup {None}]
    /\ live \subseteq {t \in Tokens : holder[t] # None}
    /\ cookie \in Tokens \cup {None}
    /\ store \in [Tabs -> Shown]
    /\ request \in [Calls -> [tab : Tabs \cup {None},
                              kind : {"none", "refresh", "login", "provider", "logout"},
                              token : Tokens \cup {None},
                              stage : {"idle", "sent", "answered", "arrived"},
                              reply : Tokens \cup {None, "cleared"}]]
    /\ started \subseteq Tabs /\ overtaken \subseteq Tabs
    /\ sent \in 0..MaxRequests
    /\ uses \in [Tokens -> {"unused", "once", "contested", "broken"}]

\* The browser holds no dead session for long: the token in the cookie is good,
\* unless a request that presented it is under way or came to grief, whatever
\* order the cookies of several tabs' answers are set in (respondAuth and
\* clearRefreshCookie).
CookieGood ==
    /\ TypeOK
    /\ cookie # None /\ cookie \notin live =>
          \/ uses[cookie] = "broken"
          \/ \E k \in Calls :
                request[k].token = cookie /\ request[k].stage \in {"sent", "answered"}

\* A page load restores the session of the cookie it sent, for the same user,
\* whatever the other tabs do, unless one of them presented that cookie too or
\* the exchange was broken off (bootstrap over Refresh).
RestoredUnlessContested ==
    [][\A k \in Calls :
          LET q == request[k]
          IN  /\ q.kind = "refresh" /\ q.tab # None /\ q.token # None
              /\ request'[k] = NoRequest
              /\ uses'[q.token] = "once"
              => store'[q.tab] = holder[q.token]]_vars

HeardBy(b, kinds) ==
    \E k \in Waiting(b) : request[k].kind \in kinds /\ request'[k] # request[k]

\* A tab stays signed in, or out, as its user left it, until that user signs in
\* or out there or leaves the page.  A bootstrap may end after a sign-in or a
\* sign-out that it overwrites, but only if the sign-in was sent while it was
\* under way, and no page runs a second one (bootstrap, the ref started).
StaysAsLeft ==
    [][\A b \in Tabs :
          \/ store'[b] = store[b]
          \/ store[b] = "closed" \/ store'[b] = "closed" \/ b \in started \ started'
          \/ HeardBy(b, {"login", "logout"})
          \/ HeardBy(b, {"refresh"}) /\ (store[b] = "loading" \/ b \in overtaken)]_vars

\* No page waits for ever to know whether it is signed in, when the refresh is
\* refused, cut short or lost (the catch of bootstrap).
TabSettles == \A b \in Tabs : []<>(b \in started => store[b] # "loading")
=============================================================================
