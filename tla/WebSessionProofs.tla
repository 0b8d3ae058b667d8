--------------------------- MODULE WebSessionProofs ---------------------------
(***************************************************************************)
(* Theorems about WebSession, for any number of tabs, users, requests and  *)
(* tokens: the cookie is good or about to be replaced, a page load that    *)
(* nobody disturbs restores its session, and a tab stays as it was left.   *)
(* The API below takes only steps of AuthAccounts, whose invariants hold of*)
(* it therefore.                                                           *)
(***************************************************************************)
EXTENDS WebSession, TLAPS

\* The API's rows and calls, as far as the dashboard's requests use them.
ApiTypes ==
    /\ email = [u \in Users |-> u] /\ workspaces = Users
    /\ pc \in [Calls -> {"idle", "revoking", "issuing"}]
    /\ call \in [Calls -> [identity : {None}, address : {None},
                           user : Users \cup {None}, token : Tokens \cup {None}]]

\* The stages of a request, and what may be in it at each.
RequestHeld(k) ==
    LET q == request[k]
    IN  /\ q.stage = "idle" => q = NoRequest
        /\ q.kind = "none" => q = NoRequest
        /\ q.stage \in {"answered", "arrived"} => q.tab # None
        /\ q.stage = "arrived" => q.kind # "provider"
        /\ q.stage = "sent" => q.reply = None
        /\ q.token # None => q.kind \in {"refresh", "logout"} /\ holder[q.token] # None
        /\ q.reply \in Tokens => holder[q.reply] # None /\ q.kind # "logout"

\* What the API's call for a request has established.
CallHeld(k) ==
    LET q == request[k]
    IN  /\ pc[k] # "idle" =>
              /\ q.stage = "sent" /\ q.kind \in {"refresh", "login", "provider"}
              /\ call[k].user \in Users
              /\ q.kind = "refresh" =>
                    /\ q.token # None
                    /\ call[k].token = q.token /\ call[k].user = holder[q.token]
        /\ pc[k] = "revoking" => q.kind = "refresh"
        /\ pc[k] = "issuing" /\ q.kind = "refresh" => q.token \notin live

Held == \A k \in Calls : RequestHeld(k) /\ CallHeld(k)

Presents(k, t) == request[k].token = t
Brings(k, t) == request[k].stage = "answered" /\ request[k].reply = t

\* What uses[t] records of the requests that presented t; a request nobody waits
\* for has come to grief; and a token on its way to the browser is new there.
UsesHeld ==
    /\ \A t \in Tokens :
          /\ holder[t] = None => uses[t] = "unused"
          /\ uses[t] = "unused" => \A k \in Calls : ~Presents(k, t)
          /\ uses[t] = "once" => \A j, k \in Calls : Presents(j, t) /\ Presents(k, t) => j = k
    /\ \A k \in Calls :
          LET q == request[k]
          IN  q.stage = "sent" /\ q.tab = None /\ q.token # None => uses[q.token] = "broken"
    /\ \A k \in Calls, t \in Tokens : Brings(k, t) =>
          /\ t \in live /\ uses[t] = "unused" /\ cookie # t
          /\ \A j \in Calls : Brings(j, t) => j = k

\* Request k will replace the token it presented, or clear it.
Replaces(k) ==
    \/ request[k].stage = "answered" /\ request[k].reply # None
    \/ request[k].stage = "sent" /\ pc[k] = "issuing"

CookieHeld ==
    cookie # None =>
        /\ holder[cookie] # None
        /\ cookie \in live \/ uses[cookie] = "broken"
              \/ \E k \in Calls : Presents(k, cookie) /\ Replaces(k)

\* A bootstrap that alone presented its token restores its session.
Restores(k) ==
    LET q == request[k]
    IN  q.kind = "refresh" /\ q.tab # None /\ q.token # None /\ uses[q.token] = "once" =>
            /\ q.stage = "sent" /\ pc[k] = "idle" => q.token \in live
            /\ q.stage \in {"answered", "arrived"} =>
                  q.reply \in Tokens /\ holder[q.reply] = holder[q.token]

RestoreHeld == \A k \in Calls : Restores(k)

\* The page of tab b: what waits before and while it boots.
PageHeld(b) ==
    /\ store[b] # "closed" /\ b \notin started => store[b] = "loading" /\ Waiting(b) = {}
    /\ \A k \in Waiting(b) : store[b] = "closed" => request[k].kind = "provider"
    /\ \A k \in Waiting(b) : request[k].kind = "refresh" =>
          /\ store[b] = "loading" \/ b \in overtaken
          /\ \A j \in Waiting(b) : request[j].kind = "refresh" => j = k
          /\ \A j \in Waiting(b) : j = k \/ b \in overtaken

PagesHeld == \A b \in Tabs : PageHeld(b)

IInv ==
    TypeOK /\ ApiTypes /\ Held /\ UsesHeld /\ CookieHeld /\ RestoreHeld /\ PagesHeld

USE WebConstants, WebNames
-----------------------------------------------------------------------------
(* Facts about the operators of the model.                                 *)

LEMMA AnyOfIn ==
    ASSUME NEW S, NEW x \in AnyOf(S)
    PROVE  x \in S
  BY DEF AnyOf

LEMMA NoRequestFields ==
    /\ NoRequest.tab = None /\ NoRequest.kind = "none" /\ NoRequest.token = None
    /\ NoRequest.stage = "idle" /\ NoRequest.reply = None
    /\ NoRequest = [tab |-> None, kind |-> "none", token |-> None, stage |-> "idle",
                    reply |-> None]
  BY DEF NoRequest, Asking

Requests == [tab : Tabs \cup {None},
             kind : {"none", "refresh", "login", "provider", "logout"},
             token : Tokens \cup {None},
             stage : {"idle", "sent", "answered", "arrived"},
             reply : Tokens \cup {None, "cleared"}]

\* What a reply makes of a request.
LEMMA ReplyFacts ==
    ASSUME TypeOK, NEW k \in Calls, NEW r \in Tokens \cup {None, "cleared"}, Reply(k, r)
    PROVE  /\ request' \in [Calls -> Requests]
           /\ \A j \in Calls : j # k => request'[j] = request[j]
           /\ request[k].tab = None => request'[k] = NoRequest
           /\ request[k].tab # None =>
                 /\ request'[k].tab = request[k].tab /\ request'[k].kind = request[k].kind
                 /\ request'[k].token = request[k].token
                 /\ request'[k].stage = "answered" /\ request'[k].reply = r
  <1>1. request \in [Calls -> Requests] /\ NoRequest \in Requests
    BY NoRequestFields DEF TypeOK, Requests
  <1>2. CASE request[k].tab = None
    <2>1. request' = [request EXCEPT ![k] = NoRequest]
      BY <1>1, <1>2 DEF Reply
    <2> QED
      BY <1>1, <1>2, <2>1
  <1>3. CASE request[k].tab # None
    <2> DEFINE a == [request[k] EXCEPT !.stage = "answered", !.reply = r]
    <2>1. request' = [request EXCEPT ![k] = a]
      BY <1>1, <1>3 DEF Reply
    <2>2. /\ a \in Requests /\ a.tab = request[k].tab /\ a.kind = request[k].kind
          /\ a.token = request[k].token /\ a.stage = "answered" /\ a.reply = r
      BY <1>1 DEF Requests
    <2> HIDE DEF a
    <2> QED
      BY <1>1, <1>3, <2>1, <2>2
  <1> QED
    BY <1>2, <1>3

\* What becomes of a request nobody waits for any more.
LEMMA OrphanFacts ==
    ASSUME NEW q \in Requests
    PROVE  /\ Orphaned(q) \in Requests /\ Orphaned(q).tab = None
           /\ q.stage # "sent" => Orphaned(q) = NoRequest
           /\ q.stage = "sent" =>
                 /\ Orphaned(q).kind = q.kind /\ Orphaned(q).token = q.token
                 /\ Orphaned(q).stage = "sent" /\ Orphaned(q).reply = q.reply
  <1>1. CASE q.stage = "sent"
    <2>1. Orphaned(q) = [q EXCEPT !.tab = None]
      BY <1>1 DEF Orphaned
    <2> QED
      BY <1>1, <2>1 DEF Requests
  <1>2. CASE q.stage # "sent"
    BY <1>2, NoRequestFields DEF Orphaned, Requests
  <1> QED
    BY <1>1, <1>2

\* What a page that is left makes of the requests.
LEMMA LeftFacts ==
    ASSUME TypeOK, NEW b \in Tabs
    PROVE  /\ Left(b) \in [Calls -> Requests]
           /\ \A k \in Calls :
                 /\ request[k].tab # b => Left(b)[k] = request[k]
                 /\ request[k].tab = b => Left(b)[k] = Orphaned(request[k])
  <1>1. request \in [Calls -> Requests]
    BY DEF TypeOK, Requests
  <1>2. \A k \in Calls : request[k] \in Requests /\ Orphaned(request[k]) \in Requests
    BY <1>1, OrphanFacts
  <1> QED
    BY <1>1, <1>2 DEF Left, Waiting

\* A request that is sent takes a place that is free.
LEMMA SendFacts ==
    ASSUME TypeOK, NEW r \in [Calls -> Requests], NEW q \in Requests, Send(r, q)
    PROVE  /\ sent' \in 0..MaxRequests
           /\ \E k \in Calls :
                 /\ request[k] = NoRequest
                 /\ request' \in [Calls -> Requests] /\ request'[k] = q
                 /\ \A j \in Calls : j # k => request'[j] = r[j]
  <1>1. sent < MaxRequests /\ sent' = sent + 1 /\ sent \in 0..MaxRequests
    BY DEF Send, TypeOK
  <1>2. PICK k \in FreeCalls : request' = [r EXCEPT ![k] = q]
    BY DEF Send
  <1>3. k \in Calls /\ request[k] = NoRequest
    BY <1>2, AnyOfIn DEF FreeCalls
  <1>4. request' \in [Calls -> Requests] /\ request'[k] = q
    BY <1>2, <1>3
  <1>5. \A j \in Calls : j # k => request'[j] = r[j]
    BY <1>2, <1>3
  <1> QED
    BY <1>1, <1>3, <1>4, <1>5

LEMMA AskingFacts ==
    ASSUME NEW b \in Tabs, NEW what \in {"refresh", "login", "provider", "logout"},
           NEW t \in Tokens \cup {None}
    PROVE  /\ Asking(b, what, t) \in Requests
           /\ Asking(b, what, t).tab = b /\ Asking(b, what, t).kind = what
           /\ Asking(b, what, t).token = t /\ Asking(b, what, t).stage = "sent"
           /\ Asking(b, what, t).reply = None
  BY DEF Asking, Requests

\* What the history records when a token is presented, and when requests break.
LEMMA PresentedFacts ==
    ASSUME TypeOK, NEW c \in Tokens \cup {None}
    PROVE  /\ Presented(c) \in [Tokens -> {"unused", "once", "contested", "broken"}]
           /\ \A t \in Tokens : t # c => Presented(c)[t] = uses[t]
           /\ \A t \in Tokens : uses[t] = "broken" => Presented(c)[t] = "broken"
           /\ \A t \in Tokens : t = c => Presented(c)[t] # "unused"
           /\ \A t \in Tokens : t = c /\ Presented(c)[t] = "once" => uses[t] = "unused"
  <1> DEFINE p(t) == CASE t = c /\ uses[t] = "unused"   -> "once"
                       [] t = c /\ uses[t] = "once"     -> "contested"
                       [] OTHER                         -> uses[t]
  <1>1. ASSUME NEW t \in Tokens
        PROVE  /\ p(t) \in {"unused", "once", "contested", "broken"}
               /\ t # c => p(t) = uses[t]
               /\ uses[t] = "broken" => p(t) = "broken"
               /\ t = c => p(t) # "unused"
               /\ t = c /\ p(t) = "once" => uses[t] = "unused"
    <2>1. uses[t] \in {"unused", "once", "contested", "broken"}
      BY DEF TypeOK
    <2>2. CASE t # c
      BY <2>1, <2>2
    <2>3. CASE t = c /\ uses[t] = "unused"
      BY <2>3
    <2>4. CASE t = c /\ uses[t] = "once"
      BY <2>4
    <2>5. CASE t = c /\ uses[t] \in {"contested", "broken"}
      BY <2>5
    <2> QED
      BY <2>1, <2>2, <2>3, <2>4, <2>5
  <1>2. Presented(c) = [t \in Tokens |-> p(t)]
    BY DEF Presented
  <1> HIDE DEF p
  <1> QED
    BY <1>1, <1>2

LEMMA BrokenFacts ==
    ASSUME TypeOK, NEW K \in SUBSET Calls
    PROVE  /\ Broken(K) \in [Tokens -> {"unused", "once", "contested", "broken"}]
           /\ \A t \in Tokens : (\E k \in K : Presents(k, t)) => Broken(K)[t] = "broken"
           /\ \A t \in Tokens : (\A k \in K : ~Presents(k, t)) => Broken(K)[t] = uses[t]
  BY DEF TypeOK, Broken, Presents
-----------------------------------------------------------------------------
(* How the parts of the invariant outlive steps of a kind.                 *)

\* A request and its call that a step leaves alone, while tokens come and go.
LEMMA HeldElsewhere ==
    ASSUME TypeOK, ApiTypes, NEW j \in Calls, RequestHeld(j), CallHeld(j),
           request'[j] = request[j], pc'[j] = pc[j], call'[j] = call[j],
           \A t \in Tokens : holder[t] # None => holder'[t] = holder[t],
           \A t \in Tokens : holder[t] # None /\ t \in live' => t \in live
    PROVE  RequestHeld(j)' /\ CallHeld(j)'
  <1>1. request[j].token \in Tokens \cup {None}
    BY DEF TypeOK
  <1>2. RequestHeld(j)'
    BY <1>1 DEF RequestHeld
  <1>3. CallHeld(j)'
    BY <1>1 DEF CallHeld, RequestHeld
  <1> QED
    BY <1>2, <1>3

\* Nothing is presented that was not, and of what is brought to the browser
\* only what is now its cookie.
LEMMA UsesStay ==
    ASSUME TypeOK, UsesHeld, holder' = holder,
           \A t \in Tokens : uses'[t] = uses[t] \/
               (uses'[t] = "broken" /\ \E k \in Calls : Presents(k, t)),
           \A k \in Calls, t \in Tokens : Presents(k, t)' => Presents(k, t),
           \A k \in Calls, t \in Tokens : Brings(k, t)' => Brings(k, t) /\ cookie' # t,
           \A t \in live \ live' : \E k \in Calls : Presents(k, t),
           \A k \in Calls : request'[k].stage = "sent" /\ request'[k].tab = None
                               /\ request'[k].token # None => uses'[request'[k].token] = "broken"
    PROVE  UsesHeld'
  <1>1. \A t \in Tokens : holder'[t] = None => uses'[t] = "unused"
    BY DEF UsesHeld
  <1>2. \A t \in Tokens : uses'[t] = "unused" => \A k \in Calls : ~Presents(k, t)'
    BY DEF UsesHeld
  <1>3. \A t \in Tokens : uses'[t] = "once" =>
            \A j, k \in Calls : Presents(j, t)' /\ Presents(k, t)' => j = k
    BY DEF UsesHeld
  <1>4. ASSUME NEW k \in Calls, NEW t \in Tokens, Brings(k, t)'
        PROVE  /\ t \in live' /\ uses'[t] = "unused" /\ cookie' # t
               /\ \A j \in Calls : Brings(j, t)' => j = k
    BY <1>4 DEF UsesHeld
  <1> QED
    BY <1>1, <1>2, <1>3, <1>4 DEF UsesHeld

\* The cookie stays, and who will replace it stays or has come to grief.
LEMMA CookieStays ==
    ASSUME TypeOK, CookieHeld, cookie' = cookie,
           \A t \in Tokens : holder[t] # None => holder'[t] = holder[t],
           \A t \in Tokens : uses[t] = "broken" => uses'[t] = "broken",
           \A k \in Calls : cookie # None /\ Presents(k, cookie) /\ Replaces(k) =>
               uses'[cookie] = "broken" \/ (Presents(k, cookie) /\ Replaces(k))',
           cookie \in live \ live' =>
               uses'[cookie] = "broken" \/ \E k \in Calls : (Presents(k, cookie) /\ Replaces(k))'
    PROVE  CookieHeld'
  <1> SUFFICES ASSUME cookie # None
               PROVE  /\ holder'[cookie] # None
                      /\ cookie \in live' \/ uses'[cookie] = "broken"
                            \/ \E k \in Calls : (Presents(k, cookie) /\ Replaces(k))'
    BY DEF CookieHeld
  <1>1. cookie \in Tokens /\ holder[cookie] # None
    BY DEF TypeOK, CookieHeld
  <1>2. \/ cookie \in live \/ uses[cookie] = "broken"
        \/ \E k \in Calls : Presents(k, cookie) /\ Replaces(k)
    BY DEF CookieHeld
  <1> QED
    BY <1>1, <1>2

\* A request that goes on presenting a token it alone has presented.
LEMMA RestoreStays ==
    ASSUME TypeOK, UsesHeld, NEW j \in Calls, RequestHeld(j), Restores(j),
           \/ request'[j] = request[j] /\ pc'[j] = pc[j]
           \/ request'[j].tab = None,
           \A t \in Tokens : holder[t] # None => holder'[t] = holder[t],
           \A t \in Tokens : uses'[t] = "once" => uses[t] = "once" \/ ~Presents(j, t),
           \A t \in live \ live' : \E k \in Calls :
               Presents(k, t) /\ ~(request[k].kind = "refresh" /\ pc[k] = "idle")
    PROVE  Restores(j)'
  <1> SUFFICES ASSUME request'[j] = request[j], pc'[j] = pc[j],
                      request[j].kind = "refresh", request[j].tab # None,
                      request[j].token # None, uses'[request[j].token] = "once"
               PROVE  /\ request[j].stage = "sent" /\ pc[j] = "idle" => request[j].token \in live'
                      /\ request[j].stage \in {"answered", "arrived"} =>
                            /\ request[j].reply \in Tokens
                            /\ holder'[request[j].reply] = holder'[request[j].token]
    BY DEF Restores
  <1>1. request[j].token \in Tokens /\ uses[request[j].token] = "once"
    BY DEF TypeOK, Presents
  <1>2. ASSUME request[j].stage = "sent", pc[j] = "idle"
        PROVE  request[j].token \in live'
    <2>1. request[j].token \in live
      BY <1>1, <1>2 DEF Restores
    <2>2. ASSUME NEW k \in Calls, Presents(k, request[j].token)
          PROVE  k = j
      BY <1>1, <2>2 DEF UsesHeld, Presents
    <2> QED
      BY <1>2, <2>1, <2>2
  <1>3. ASSUME request[j].stage \in {"answered", "arrived"}
        PROVE  /\ request[j].reply \in Tokens
               /\ holder'[request[j].reply] = holder'[request[j].token]
    BY <1>1, <1>3 DEF Restores, RequestHeld
  <1> QED
    BY <1>2, <1>3

\* A page whose requests go on, or are no longer waited for.
LEMMA PagesStay ==
    ASSUME PagesHeld, UNCHANGED <<store, started, overtaken>>,
           \A k \in Calls : \/ request'[k].tab = None
                            \/ request'[k].tab = request[k].tab /\ request'[k].kind = request[k].kind
    PROVE  PagesHeld'
  <1> SUFFICES ASSUME NEW b \in Tabs
               PROVE  PageHeld(b)'
    BY DEF PagesHeld
  <1>1. PageHeld(b)
    BY DEF PagesHeld
  <1>2. \A k \in Calls : k \in Waiting(b)' => k \in Waiting(b) /\ request'[k].kind = request[k].kind
    BY DEF Waiting
  <1>3. Waiting(b)' \subseteq Waiting(b) /\ Waiting(b) \subseteq Calls
    BY <1>2 DEF Waiting
  <1> QED
    BY <1>1, <1>2, <1>3 DEF PageHeld
-----------------------------------------------------------------------------
(* The steps of a request's call in the API.                               *)

\* The call for request k is over: nothing is new but its reply, which is none,
\* and a refresh that had begun, or whose token was good, has come to grief.
LEMMA RefusedStep ==
    ASSUME IInv, NEW k \in Calls, request[k].stage = "sent",
           pc' = [pc EXCEPT ![k] = "idle"], call' = [call EXCEPT ![k] = Api!NoCall],
           UNCHANGED <<email, workspaces, sessionVars, cookie, store, started, sent, overtaken>>,
           Reply(k, None),
           \/ uses' = Broken({k})
           \/ /\ uses' = uses /\ pc[k] = "idle"
              /\ request[k].kind = "refresh" /\ request[k].token # None
                    => request[k].token \notin live
    PROVE  IInv'
  <1> USE DEF IInv, sessionVars
  <1>1. /\ request' \in [Calls -> Requests]
        /\ \A j \in Calls : j # k => request'[j] = request[j]
        /\ request[k].tab = None => request'[k] = NoRequest
        /\ request[k].tab # None =>
              /\ request'[k].tab = request[k].tab /\ request'[k].kind = request[k].kind
              /\ request'[k].token = request[k].token
              /\ request'[k].stage = "answered" /\ request'[k].reply = None
    BY ReplyFacts
  <1>2. /\ uses' \in [Tokens -> {"unused", "once", "contested", "broken"}]
        /\ \A t \in Tokens : uses'[t] = uses[t] \/ (uses'[t] = "broken" /\ Presents(k, t))
        /\ uses' = uses \/ \A t \in Tokens : Presents(k, t) => uses'[t] = "broken"
    <2>1. CASE uses' = uses
      BY <2>1 DEF TypeOK
    <2>2. CASE uses' = Broken({k})
      BY <2>2, BrokenFacts
    <2> QED
      BY <2>1, <2>2
  <1>3. /\ \A j \in Calls : j # k => pc'[j] = pc[j] /\ call'[j] = call[j]
        /\ pc'[k] = "idle"
    BY DEF ApiTypes
  <1>4. TypeOK'
    BY <1>1, <1>2 DEF TypeOK, Requests
  <1>5. ApiTypes'
    <2>1. Api!NoCall \in [identity : {None}, address : {None},
                          user : Users \cup {None}, token : Tokens \cup {None}]
      BY DEF Api!NoCall, Api!Holding
    <2> QED
      BY <2>1 DEF ApiTypes
  <1>6. Held'
    <2>1. RequestHeld(k)'
      BY <1>1, NoRequestFields DEF Held, RequestHeld, TypeOK
    <2>2. CallHeld(k)'
      BY <1>3 DEF CallHeld
    <2>3. \A j \in Calls : j # k => RequestHeld(j)' /\ CallHeld(j)'
      BY <1>1, <1>3, HeldElsewhere DEF Held
    <2> QED
      BY <2>1, <2>2, <2>3 DEF Held
  <1>7. \A j \in Calls, t \in Tokens :
            (Presents(j, t)' => Presents(j, t)) /\ (Brings(j, t)' => Brings(j, t))
    BY <1>1, NoRequestFields DEF Presents, Brings
  <1>8. UsesHeld'
    <2>1. ASSUME NEW j \in Calls, request'[j].stage = "sent", request'[j].tab = None,
                 request'[j].token # None
          PROVE  uses'[request'[j].token] = "broken"
      <3>1. j # k
        BY <1>1, <2>1, NoRequestFields
      <3>2. request[j].token \in Tokens /\ uses[request[j].token] = "broken"
        BY <1>1, <2>1, <3>1 DEF UsesHeld, TypeOK
      <3> QED
        BY <1>1, <1>2, <3>1, <3>2
    <2>2. \A j \in Calls, t \in Tokens : Brings(j, t)' => Brings(j, t) /\ cookie' # t
      BY <1>7 DEF UsesHeld
    <2> QED
      BY <1>2, <1>7, <2>1, <2>2, UsesStay
  <1>9. CookieHeld'
    <2>1. ASSUME NEW j \in Calls, cookie # None, Presents(j, cookie), Replaces(j)
          PROVE  uses'[cookie] = "broken" \/ (Presents(j, cookie) /\ Replaces(j))'
      <3>1. CASE j = k
        <4>1. pc[k] = "issuing" /\ cookie \in Tokens
          BY <2>1, <3>1 DEF Replaces, TypeOK
        <4>2. uses' = Broken({k})
          BY <4>1
        <4> QED
          BY <2>1, <3>1, <4>1, <4>2, BrokenFacts
      <3>2. CASE j # k
        BY <1>1, <1>3, <2>1, <3>2 DEF Replaces, Presents
      <3> QED
        BY <3>1, <3>2
    <2> QED
      BY <1>2, <2>1, CookieStays
  <1>10. RestoreHeld'
    <2>1. ASSUME NEW j \in Calls, j # k
          PROVE  Restores(j)'
      BY <1>1, <1>2, <1>3, <2>1, RestoreStays DEF Held, RestoreHeld
    <2>2. Restores(k)'
      <3> SUFFICES ASSUME request[k].tab # None, request[k].kind = "refresh",
                          request[k].token # None, uses'[request[k].token] = "once"
                   PROVE  FALSE
        BY <1>1, NoRequestFields DEF Restores
      <3>1. request[k].token \in Tokens /\ Presents(k, request[k].token)
        BY DEF TypeOK, Presents
      <3>2. uses' # Broken({k})
        BY <3>1, BrokenFacts
      <3> QED
        BY <3>1, <3>2 DEF RestoreHeld, Restores
    <2> QED
      BY <2>1, <2>2 DEF RestoreHeld
  <1>11. PagesHeld'
    BY <1>1, NoRequestFields, PagesStay
  <1> QED
    BY <1>4, <1>5, <1>6, <1>8, <1>9, <1>10, <1>11

\* The call for request k goes on, and so far nothing else is new.
LEMMA BeginStep ==
    ASSUME IInv, NEW k \in Calls, pc[k] = "idle", request[k].stage = "sent",
           NEW u \in Users, NEW t \in Tokens \cup {None}, NEW stage \in {"revoking", "issuing"},
           pc' = [pc EXCEPT ![k] = stage],
           call' = [call EXCEPT ![k] = Api!Holding(None, None, u, t)],
           UNCHANGED <<email, workspaces, sessionVars, webVars, uses, overtaken>>,
           \/ /\ stage = "revoking" /\ request[k].kind = "refresh"
              /\ t # None /\ t = request[k].token /\ u = holder[t]
           \/ stage = "issuing" /\ request[k].kind \in {"login", "provider"}
    PROVE  IInv'
  <1> USE DEF IInv, sessionVars, webVars
  <1>1. /\ \A j \in Calls : j # k => pc'[j] = pc[j] /\ call'[j] = call[j]
        /\ pc'[k] = stage /\ call'[k] = Api!Holding(None, None, u, t)
    BY DEF ApiTypes
  <1>2. /\ call'[k].user = u /\ call'[k].token = t
        /\ call'[k] \in [identity : {None}, address : {None},
                         user : Users \cup {None}, token : Tokens \cup {None}]
    BY <1>1 DEF Api!Holding
  <1>3. TypeOK'
    BY DEF TypeOK
  <1>4. ApiTypes'
    BY <1>1, <1>2 DEF ApiTypes
  <1>5. Held'
    <2>1. RequestHeld(k)'
      BY DEF Held, RequestHeld
    <2>2. CallHeld(k)'
      BY <1>1, <1>2 DEF CallHeld
    <2>3. \A j \in Calls : j # k => RequestHeld(j)' /\ CallHeld(j)'
      BY <1>1, HeldElsewhere DEF Held
    <2> QED
      BY <2>1, <2>2, <2>3 DEF Held
  <1>6. UsesHeld'
    BY DEF UsesHeld, Presents, Brings
  <1>7. CookieHeld'
    BY <1>1 DEF CookieHeld, Presents, Replaces
  <1>8. RestoreHeld'
    BY <1>1 DEF RestoreHeld, Restores
  <1>9. PagesHeld'
    BY DEF PagesHeld, PageHeld, Waiting
  <1> QED
    BY <1>3, <1>4, <1>5, <1>6, <1>7, <1>8, <1>9

\* A refresh is refused, or reads the session of the token it presents.
LEMMA RefreshStep ==
    ASSUME IInv, NEW k \in Calls, Refresh(k),
           UNCHANGED <<cookie, store, started, sent, overtaken>>
    PROVE  IInv'
  <1> DEFINE t == request[k].token
  <1>1. request[k].stage = "sent" /\ request[k].kind = "refresh" /\ pc[k] = "idle"
    BY DEF Refresh, Begins
  <1>2. uses' = uses
    BY DEF Refresh
  <1>3. \/ \E how : Api!Refuse(k, how) /\ (t # None => t \notin live)
        \/ /\ t # None
           /\ Api!Begin(k, "revoking", Api!Holding(None, None, holder[t], t))
           /\ UNCHANGED <<email, workspaces, sessionVars>>
    BY DEF Refresh, Api!ReadSession, Api!GetActiveSessionByHash, Api!ErrorIs, Api!Nil,
           Api!accountVars, Api!sessionVars, sessionVars
  <1>4. CASE \E how : Api!Refuse(k, how) /\ (t # None => t \notin live)
    <2>1. /\ pc' = [pc EXCEPT ![k] = "idle"] /\ call' = [call EXCEPT ![k] = Api!NoCall]
          /\ UNCHANGED <<email, workspaces, sessionVars>>
      BY <1>4 DEF Api!Refuse, Api!End, Api!accountVars, Api!sessionVars, sessionVars
    <2>2. pc'[k] = "idle"
      BY <2>1 DEF IInv, ApiTypes
    <2>3. Reply(k, None)
      BY <2>2 DEF Refresh, ReplyIfRefused
    <2> QED
      BY <1>1, <1>2, <1>4, <2>1, <2>3, RefusedStep
  <1>5. CASE /\ t # None
             /\ Api!Begin(k, "revoking", Api!Holding(None, None, holder[t], t))
             /\ UNCHANGED <<email, workspaces, sessionVars>>
    <2>1. /\ pc' = [pc EXCEPT ![k] = "revoking"]
          /\ call' = [call EXCEPT ![k] = Api!Holding(None, None, holder[t], t)]
      BY <1>5 DEF Api!Begin
    <2>2. pc'[k] # "idle"
      BY <2>1 DEF IInv, ApiTypes
    <2>3. UNCHANGED request
      BY <2>2 DEF Refresh, ReplyIfRefused
    <2>4. t \in Tokens /\ holder[t] \in Users
      BY <1>1, <1>5 DEF IInv, TypeOK, Held, RequestHeld
    <2> QED
      BY <1>1, <1>2, <1>5, <2>1, <2>3, <2>4, BeginStep DEF webVars
  <1> QED
    BY <1>3, <1>4, <1>5

\* A sign-in is refused, or goes on to a session for its user.
LEMMA LoginStep ==
    ASSUME IInv, NEW k \in Calls, Login(k),
           UNCHANGED <<cookie, store, started, sent, overtaken>>
    PROVE  IInv'
  <1>1. request[k].stage = "sent" /\ request[k].kind \in {"login", "provider"} /\ pc[k] = "idle"
    BY DEF Login, Begins
  <1>2. uses' = uses
    BY DEF Login
  <1>3. PICK a \in Users, right \in BOOLEAN : Api!Login(k, a, right)
    BY DEF Login
  <1>4. \/ \E how : Api!Refuse(k, how)
        \/ /\ \E u \in Users : Api!Begin(k, "issuing", Api!Holding(None, None, u, None))
           /\ UNCHANGED <<email, workspaces, sessionVars>>
    BY <1>3 DEF Api!Login, Api!HasEmail, Api!accountVars, Api!sessionVars, sessionVars
  <1>5. CASE \E how : Api!Refuse(k, how)
    <2>1. /\ pc' = [pc EXCEPT ![k] = "idle"] /\ call' = [call EXCEPT ![k] = Api!NoCall]
          /\ UNCHANGED <<email, workspaces, sessionVars>>
      BY <1>5 DEF Api!Refuse, Api!End, Api!accountVars, Api!sessionVars, sessionVars
    <2>2. pc'[k] = "idle"
      BY <2>1 DEF IInv, ApiTypes
    <2>3. Reply(k, None)
      BY <2>2 DEF Login, ReplyIfRefused
    <2> QED
      BY <1>1, <1>2, <2>1, <2>3, RefusedStep
  <1>6. ASSUME NEW u \in Users, Api!Begin(k, "issuing", Api!Holding(None, None, u, None)),
               UNCHANGED <<email, workspaces, sessionVars>>
        PROVE  IInv'
    <2>1. /\ pc' = [pc EXCEPT ![k] = "issuing"]
          /\ call' = [call EXCEPT ![k] = Api!Holding(None, None, u, None)]
      BY <1>6 DEF Api!Begin
    <2>2. pc'[k] # "idle"
      BY <2>1 DEF IInv, ApiTypes
    <2>3. UNCHANGED request
      BY <2>2 DEF Login, ReplyIfRefused
    <2> QED
      BY <1>1, <1>2, <1>6, <2>1, <2>3, BeginStep DEF webVars
  <1> QED
    BY <1>4, <1>5, <1>6

\* A call is cut short.
LEMMA CutStep ==
    ASSUME IInv, NEW k \in Calls, Cut(k),
           UNCHANGED <<cookie, store, started, sent, overtaken>>
    PROVE  IInv'
  <1>1. /\ pc[k] # "idle"
        /\ pc' = [pc EXCEPT ![k] = "idle"] /\ call' = [call EXCEPT ![k] = Api!NoCall]
        /\ UNCHANGED <<email, workspaces, sessionVars>>
    BY DEF Cut, Api!Abort, Api!End, Api!accountVars, Api!sessionVars, sessionVars
  <1>2. request[k].stage = "sent"
    BY <1>1 DEF IInv, Held, CallHeld
  <1> QED
    BY <1>1, <1>2, RefusedStep DEF Cut

\* The presented token is revoked; its request will bring another one.
LEMMA RotateStep ==
    ASSUME IInv, NEW k \in Calls, Rotate(k),
           UNCHANGED <<cookie, store, started, sent, overtaken>>
    PROVE  IInv'
  <1> USE DEF IInv
  <1> DEFINE t == request[k].token
  <1>1. /\ pc[k] = "revoking" /\ pc' = [pc EXCEPT ![k] = "issuing"]
        /\ live' = live \ {call[k].token}
        /\ UNCHANGED <<email, workspaces, holder, parent, call, request, uses>>
    BY DEF Rotate, Api!RevokePresented, Api!Continue, Api!RevokeSessionByHash, Api!accountVars
  <1>2. /\ request[k].stage = "sent" /\ request[k].kind = "refresh"
        /\ t \in Tokens /\ call[k].token = t /\ call[k].user = holder[t]
        /\ call[k].user \in Users
    BY <1>1 DEF Held, CallHeld, TypeOK
  <1> HIDE DEF t
  <1>3. live' = live \ {t} /\ Presents(k, t)
    BY <1>1, <1>2 DEF Presents, t
  <1>4. pc'[k] = "issuing" /\ \A j \in Calls : j # k => pc'[j] = pc[j]
    BY <1>1 DEF ApiTypes
  <1>5. TypeOK'
    BY <1>1, <1>3 DEF TypeOK
  <1>6. ApiTypes'
    BY <1>1 DEF ApiTypes
  <1>7. Held'
    <2>1. RequestHeld(k)'
      BY <1>1 DEF Held, RequestHeld
    <2>2. CallHeld(k)'
      BY <1>1, <1>2, <1>3, <1>4 DEF CallHeld, t
    <2>3. \A j \in Calls : j # k => RequestHeld(j)' /\ CallHeld(j)'
      BY <1>1, <1>3, <1>4, HeldElsewhere DEF Held
    <2> QED
      BY <2>1, <2>2, <2>3 DEF Held
  <1>8. UsesHeld'
    <2>1. \A j \in Calls, s \in Tokens : (Presents(j, s)' <=> Presents(j, s))
                                           /\ (Brings(j, s)' <=> Brings(j, s))
      BY <1>1 DEF Presents, Brings
    <2>2. \A j \in Calls, s \in Tokens : Brings(j, s)' => Brings(j, s) /\ cookie' # s
      BY <2>1 DEF UsesHeld
    <2>3. \A s \in live \ live' : \E j \in Calls : Presents(j, s)
      BY <1>3
    <2>4. \A j \in Calls : request'[j].stage = "sent" /\ request'[j].tab = None
              /\ request'[j].token # None => uses'[request'[j].token] = "broken"
      BY <1>1 DEF UsesHeld
    <2> QED
      BY <1>1, <2>1, <2>2, <2>3, <2>4, UsesStay
  <1>9. CookieHeld'
    <2>1. \A j \in Calls : Presents(j, cookie) /\ Replaces(j) => (Presents(j, cookie) /\ Replaces(j))'
      BY <1>1, <1>4 DEF Presents, Replaces
    <2>2. cookie \in live \ live' => (Presents(k, cookie) /\ Replaces(k))'
      BY <1>1, <1>2, <1>3, <1>4 DEF Presents, Replaces
    <2> QED
      BY <1>1, <2>1, <2>2, CookieStays
  <1>10. RestoreHeld'
    <2>1. \A s \in live \ live' : \E j \in Calls :
              Presents(j, s) /\ ~(request[j].kind = "refresh" /\ pc[j] = "idle")
      BY <1>1, <1>3
    <2>2. ASSUME NEW j \in Calls, j # k
          PROVE  Restores(j)'
      BY <1>1, <1>4, <2>1, <2>2, RestoreStays DEF Held, RestoreHeld
    <2>3. Restores(k)'
      BY <1>1, <1>2, <1>4 DEF Restores
    <2> QED
      BY <2>2, <2>3 DEF RestoreHeld
  <1>11. PagesHeld'
    BY <1>1 DEF PagesHeld, PageHeld, Waiting
  <1> QED
    BY <1>5, <1>6, <1>7, <1>8, <1>9, <1>10, <1>11

\* A session under a fresh token is stored, and the reply brings the token.
LEMMA IssueStep ==
    ASSUME IInv, NEW k \in Calls, Issue(k),
           UNCHANGED <<cookie, store, started, sent, overtaken>>
    PROVE  IInv'
  <1> USE DEF IInv
  <1>1. PICK t \in Tokens : holder[t] = None /\ Api!Issue(k, t) /\ Reply(k, t)
    BY AnyOfIn DEF Issue, FreshTokens, RespondAuth
  <1>2. /\ pc[k] = "issuing" /\ pc' = [pc EXCEPT ![k] = "idle"]
        /\ call' = [call EXCEPT ![k] = Api!NoCall]
        /\ holder' = [holder EXCEPT ![t] = call[k].user] /\ live' = live \cup {t}
        /\ UNCHANGED <<email, workspaces, uses>>
    BY <1>1 DEF Issue, Api!Issue, Api!CreateSession, Api!End, Api!accountVars
  <1>3. /\ request[k].stage = "sent" /\ request[k].kind \in {"refresh", "login", "provider"}
        /\ call[k].user \in Users
        /\ request[k].kind = "refresh" => /\ request[k].token \in Tokens
                                          /\ call[k].user = holder[request[k].token]
    BY <1>2 DEF Held, CallHeld, TypeOK
  <1>4. /\ request' \in [Calls -> Requests]
        /\ \A j \in Calls : j # k => request'[j] = request[j]
        /\ request[k].tab = None => request'[k] = NoRequest
        /\ request[k].tab # None =>
              /\ request'[k].tab = request[k].tab /\ request'[k].kind = request[k].kind
              /\ request'[k].token = request[k].token
              /\ request'[k].stage = "answered" /\ request'[k].reply = t
    BY <1>1, ReplyFacts
  <1>5. /\ \A j \in Calls : j # k => pc'[j] = pc[j] /\ call'[j] = call[j]
        /\ pc'[k] = "idle"
    BY <1>2 DEF ApiTypes
  <1>6. /\ \A s \in Tokens : holder[s] # None => holder'[s] = holder[s] /\ s # t
        /\ holder'[t] = call[k].user /\ holder'[t] # None
        /\ holder' \in [Tokens -> Users \cup {None}]
    BY <1>1, <1>2, <1>3 DEF TypeOK
  <1>7. live' \subseteq {s \in Tokens : holder'[s] # None}
    BY <1>2, <1>6 DEF TypeOK
  <1>8. TypeOK'
    BY <1>2, <1>4, <1>6, <1>7 DEF TypeOK, Requests
  <1>9. ApiTypes'
    <2>1. Api!NoCall \in [identity : {None}, address : {None},
                          user : Users \cup {None}, token : Tokens \cup {None}]
      BY DEF Api!NoCall, Api!Holding
    <2> QED
      BY <1>2, <2>1 DEF ApiTypes
  <1>10. Held'
    <2>1. RequestHeld(k)
      BY DEF Held
    <2>2. RequestHeld(k)'
      <3>1. CASE request[k].tab = None
        BY <1>4, <3>1, NoRequestFields DEF RequestHeld
      <3>2. CASE request[k].tab # None
        <4>1. request[k].token \in Tokens \cup {None}
          BY DEF TypeOK
        <4> QED
          BY <1>3, <1>4, <1>6, <2>1, <3>2, <4>1 DEF RequestHeld
      <3> QED
        BY <3>1, <3>2
    <2>3. CallHeld(k)'
      BY <1>5 DEF CallHeld
    <2>4. \A j \in Calls : j # k => RequestHeld(j)' /\ CallHeld(j)'
      BY <1>2, <1>4, <1>5, <1>6, HeldElsewhere DEF Held
    <2> QED
      BY <2>2, <2>3, <2>4 DEF Held
  <1>11. \A j \in Calls, s \in Tokens : Presents(j, s)' => Presents(j, s)
    BY <1>4, NoRequestFields DEF Presents
  <1>12. UsesHeld'
    <2>1. \A s \in Tokens : holder'[s] = None => uses'[s] = "unused"
      BY <1>1, <1>2, <1>6 DEF UsesHeld
    <2>2. \A s \in Tokens : uses'[s] = "unused" => \A j \in Calls : ~Presents(j, s)'
      BY <1>2, <1>11 DEF UsesHeld
    <2>3. \A s \in Tokens : uses'[s] = "once" =>
              \A i, j \in Calls : Presents(i, s)' /\ Presents(j, s)' => i = j
      BY <1>2, <1>11 DEF UsesHeld
    <2>4. ASSUME NEW j \in Calls, request'[j].stage = "sent", request'[j].tab = None,
                 request'[j].token # None
          PROVE  uses'[request'[j].token] = "broken"
      <3>1. j # k
        BY <1>4, <2>4, NoRequestFields
      <3> QED
        BY <1>2, <1>4, <2>4, <3>1 DEF UsesHeld
    <2>5. \A j \in Calls : ~Brings(j, t)
      BY <1>1 DEF Brings, Held, RequestHeld
    <2>6. ASSUME NEW j \in Calls, NEW s \in Tokens, Brings(j, s)'
          PROVE  IF s = t THEN j = k ELSE j # k /\ Brings(j, s)
      <3>1. CASE j = k
        BY <1>4, <2>6, <3>1, NoRequestFields DEF Brings
      <3>2. CASE j # k
        BY <1>4, <2>5, <2>6, <3>2 DEF Brings
      <3> QED
        BY <3>1, <3>2
    <2>7. cookie # t /\ uses[t] = "unused"
      BY <1>1 DEF CookieHeld, UsesHeld
    <2>8. ASSUME NEW j \in Calls, NEW s \in Tokens, Brings(j, s)'
          PROVE  /\ s \in live' /\ uses'[s] = "unused" /\ cookie' # s
                 /\ \A i \in Calls : Brings(i, s)' => i = j
      <3>1. CASE s = t
        BY <1>2, <2>6, <2>7, <2>8, <3>1
      <3>2. CASE s # t
        BY <1>2, <2>6, <2>8, <3>2 DEF UsesHeld
      <3> QED
        BY <3>1, <3>2
    <2> QED
      BY <2>1, <2>2, <2>3, <2>4, <2>8 DEF UsesHeld
  <1>13. CookieHeld'
    <2>1. ASSUME NEW j \in Calls, cookie # None, Presents(j, cookie), Replaces(j)
          PROVE  uses'[cookie] = "broken" \/ (Presents(j, cookie) /\ Replaces(j))'
      <3>1. CASE j # k
        BY <1>4, <1>5, <2>1, <3>1 DEF Presents, Replaces
      <3>2. CASE j = k /\ request[k].tab = None
        BY <1>2, <1>3, <2>1, <3>2 DEF UsesHeld, Presents
      <3>3. CASE j = k /\ request[k].tab # None
        BY <1>4, <2>1, <3>3 DEF Presents, Replaces
      <3> QED
        BY <3>1, <3>2, <3>3
    <2>2. live \ live' = {}
      BY <1>2
    <2> QED
      BY <1>2, <1>6, <2>1, <2>2, CookieStays
  <1>14. RestoreHeld'
    <2>1. live \ live' = {}
      BY <1>2
    <2>2. ASSUME NEW j \in Calls, j # k
          PROVE  Restores(j)'
      BY <1>2, <1>4, <1>5, <1>6, <2>1, <2>2, RestoreStays DEF Held, RestoreHeld
    <2>3. Restores(k)'
      <3>1. CASE request[k].tab = None
        BY <1>4, <3>1, NoRequestFields DEF Restores
      <3>2. CASE request[k].tab # None
        <4>1. request[k].kind = "refresh" /\ request[k].token # None =>
                  holder[request[k].token] # None
          BY <1>3
        <4> QED
          BY <1>3, <1>4, <1>6, <3>2, <4>1 DEF Restores
      <3> QED
        BY <3>1, <3>2
    <2> QED
      BY <2>2, <2>3 DEF RestoreHeld
  <1>15. PagesHeld'
    BY <1>4, NoRequestFields, PagesStay
  <1> QED
    BY <1>8, <1>9, <1>10, <1>12, <1>13, <1>14, <1>15

\* The cookie will be cleared, and the session of the token is perhaps ended.
LEMMA LogoutStep ==
    ASSUME IInv, NEW k \in Calls, Logout(k),
           UNCHANGED <<cookie, store, started, sent, overtaken>>
    PROVE  IInv'
  <1> USE DEF IInv
  <1>1. /\ request[k].stage = "sent" /\ request[k].kind = "logout" /\ pc[k] = "idle"
        /\ Reply(k, "cleared")
        /\ UNCHANGED <<email, workspaces, holder, pc, call, uses>>
    BY DEF Logout, Begins
  <1>2. live' \subseteq live /\ \A t \in live \ live' : Presents(k, t)
    BY DEF Logout, Revoked, Presents
  <1>3. /\ request' \in [Calls -> Requests]
        /\ \A j \in Calls : j # k => request'[j] = request[j]
        /\ request[k].tab = None => request'[k] = NoRequest
        /\ request[k].tab # None =>
              /\ request'[k].tab = request[k].tab /\ request'[k].kind = request[k].kind
              /\ request'[k].token = request[k].token
              /\ request'[k].stage = "answered" /\ request'[k].reply = "cleared"
    BY <1>1, ReplyFacts
  <1>4. TypeOK'
    BY <1>1, <1>2, <1>3 DEF TypeOK, Requests
  <1>5. ApiTypes'
    BY <1>1 DEF ApiTypes
  <1>6. Held'
    <2>1. RequestHeld(k)'
      BY <1>1, <1>3, NoRequestFields DEF Held, RequestHeld, TypeOK
    <2>2. CallHeld(k)'
      BY <1>1 DEF CallHeld
    <2>3. \A j \in Calls : j # k => RequestHeld(j)' /\ CallHeld(j)'
      BY <1>1, <1>2, <1>3, HeldElsewhere DEF Held
    <2> QED
      BY <2>1, <2>2, <2>3 DEF Held
  <1>7. UsesHeld'
    <2>1. \A j \in Calls, t \in Tokens : Presents(j, t)' => Presents(j, t)
      BY <1>3, NoRequestFields DEF Presents
    <2>2. \A j \in Calls, t \in Tokens : Brings(j, t)' => Brings(j, t) /\ cookie' # t
      BY <1>3, NoRequestFields DEF Brings, UsesHeld
    <2>3. ASSUME NEW j \in Calls, request'[j].stage = "sent", request'[j].tab = None,
                 request'[j].token # None
          PROVE  uses'[request'[j].token] = "broken"
      <3>1. j # k
        BY <1>3, <2>3, NoRequestFields
      <3> QED
        BY <1>1, <1>3, <2>3, <3>1 DEF UsesHeld
    <2> QED
      BY <1>1, <1>2, <2>1, <2>2, <2>3, UsesStay
  <1>8. CookieHeld'
    <2>1. cookie # None /\ Presents(k, cookie) =>
              uses[cookie] = "broken" \/ (Presents(k, cookie) /\ Replaces(k))'
      BY <1>1, <1>3 DEF UsesHeld, Presents, Replaces
    <2>2. ASSUME NEW j \in Calls, cookie # None, Presents(j, cookie), Replaces(j)
          PROVE  uses'[cookie] = "broken" \/ (Presents(j, cookie) /\ Replaces(j))'
      <3>1. CASE j = k
        BY <1>1, <2>1, <2>2, <3>1
      <3>2. CASE j # k
        BY <1>1, <1>3, <2>2, <3>2 DEF Presents, Replaces
      <3> QED
        BY <3>1, <3>2
    <2>3. cookie \in live \ live' =>
              uses'[cookie] = "broken" \/ \E j \in Calls : (Presents(j, cookie) /\ Replaces(j))'
      BY <1>1, <1>2, <2>1 DEF TypeOK
    <2> QED
      BY <1>1, <2>2, <2>3, CookieStays
  <1>9. RestoreHeld'
    <2>1. \A t \in live \ live' : \E j \in Calls :
              Presents(j, t) /\ ~(request[j].kind = "refresh" /\ pc[j] = "idle")
      BY <1>1, <1>2
    <2>2. ASSUME NEW j \in Calls, j # k
          PROVE  Restores(j)'
      BY <1>1, <1>3, <2>1, <2>2, RestoreStays DEF Held, RestoreHeld
    <2>3. Restores(k)'
      BY <1>1, <1>3, NoRequestFields DEF Restores
    <2> QED
      BY <2>2, <2>3 DEF RestoreHeld
  <1>10. PagesHeld'
    BY <1>3, NoRequestFields, PagesStay
  <1> QED
    BY <1>4, <1>5, <1>6, <1>7, <1>8, <1>9, <1>10
-----------------------------------------------------------------------------
(* The browser's steps and the pages'.                                     *)

\* The answer to request k sets the cookie, clears it or leaves it.
LEMMA ArriveStep ==
    ASSUME IInv, NEW k \in Calls, Arrive(k)
    PROVE  IInv'
  <1> USE DEF IInv, apiVars, sessionVars
  <1> DEFINE r == request[k].reply
  <1>1. /\ request[k].stage = "answered"
        /\ UNCHANGED <<apiVars, store, started, sent, uses, overtaken>>
    BY DEF Arrive
  <1>2. r \in Tokens \cup {None, "cleared"} /\ request[k] \in Requests
    BY DEF TypeOK, Requests
  <1>3. \/ r \in Tokens /\ cookie' = r /\ Brings(k, r)
        \/ r = "cleared" /\ cookie' = None
        \/ r = None /\ cookie' = cookie
    BY <1>1, <1>2 DEF Arrive, Brings
  <1> DEFINE q == IF request[k].kind = "provider" THEN NoRequest
                  ELSE [request[k] EXCEPT !.stage = "arrived"]
  <1>4. /\ q \in Requests
        /\ q = NoRequest \/ /\ q.tab = request[k].tab /\ q.kind = request[k].kind
                            /\ q.token = request[k].token /\ q.reply = r
                            /\ q.stage = "arrived" /\ q.kind # "provider"
    BY <1>2, NoRequestFields DEF Requests
  <1>5. request' = [request EXCEPT ![k] = q]
    BY DEF Arrive
  <1> HIDE DEF q
  <1>6. request' \in [Calls -> Requests]
    BY <1>4, <1>5 DEF TypeOK, Requests
  <1>7. request'[k] = q /\ \A j \in Calls : j # k => request'[j] = request[j]
    BY <1>5 DEF TypeOK
  <1>8. cookie' \in Tokens \cup {None}
    BY <1>3 DEF TypeOK
  <1>9. TypeOK'
    BY <1>1, <1>6, <1>8 DEF TypeOK, Requests
  <1>10. ApiTypes'
    BY <1>1 DEF ApiTypes
  <1>11. Held'
    <2>1. RequestHeld(k) /\ CallHeld(k)
      BY DEF Held
    <2>2. RequestHeld(k)'
      <3>1. request'[k] = NoRequest => RequestHeld(k)'
        BY NoRequestFields DEF RequestHeld
      <3>2. request[k].token \in Tokens \cup {None} /\ holder' = holder
        BY <1>1 DEF TypeOK
      <3> QED
        BY <1>1, <1>4, <1>7, <2>1, <3>1, <3>2, NoRequestFields DEF RequestHeld
    <2>3. CallHeld(k)'
      BY <1>1, <2>1 DEF CallHeld
    <2>4. \A j \in Calls : j # k => RequestHeld(j)' /\ CallHeld(j)'
      BY <1>1, <1>7, HeldElsewhere DEF Held
    <2> QED
      BY <2>2, <2>3, <2>4 DEF Held
  <1>12. UsesHeld'
    <2>1. \A j \in Calls, t \in Tokens : Presents(j, t)' => Presents(j, t)
      BY <1>4, <1>7, NoRequestFields DEF Presents
    <2>2. ASSUME NEW j \in Calls, NEW t \in Tokens, Brings(j, t)'
          PROVE  Brings(j, t) /\ cookie' # t
      <3>1. j # k
        BY <1>4, <1>7, <2>2, NoRequestFields DEF Brings
      <3>2. Brings(j, t)
        BY <1>7, <2>2, <3>1 DEF Brings
      <3> QED
        BY <1>3, <3>1, <3>2 DEF UsesHeld
    <2>3. ASSUME NEW j \in Calls, request'[j].stage = "sent", request'[j].tab = None,
                 request'[j].token # None
          PROVE  uses'[request'[j].token] = "broken"
      <3>1. j # k
        BY <1>4, <1>7, <2>3, NoRequestFields
      <3> QED
        BY <1>1, <1>7, <2>3, <3>1 DEF UsesHeld
    <2> QED
      BY <1>1, <2>1, <2>2, <2>3, UsesStay
  <1>13. CookieHeld'
    <2>1. CASE r \in Tokens /\ cookie' = r /\ Brings(k, r)
      BY <1>1, <2>1 DEF CookieHeld, UsesHeld, TypeOK
    <2>2. CASE r = "cleared" /\ cookie' = None
      BY <2>2 DEF CookieHeld
    <2>3. CASE r = None /\ cookie' = cookie
      <3>1. \A j \in Calls : Presents(j, cookie) /\ Replaces(j) => (Presents(j, cookie) /\ Replaces(j))'
        BY <1>1, <1>7, <2>3 DEF Presents, Replaces
      <3> QED
        BY <1>1, <2>3, <3>1, CookieStays
    <2> QED
      BY <1>3, <2>1, <2>2, <2>3
  <1>14. RestoreHeld'
    <2>1. ASSUME NEW j \in Calls, j # k
          PROVE  Restores(j)'
      BY <1>1, <1>7, <2>1, RestoreStays DEF Held, RestoreHeld
    <2>2. Restores(k)'
      BY <1>1, <1>4, <1>7, NoRequestFields DEF RestoreHeld, Restores
    <2> QED
      BY <2>1, <2>2 DEF RestoreHeld
  <1>15. PagesHeld'
    BY <1>1, <1>4, <1>7, NoRequestFields, PagesStay
  <1> QED
    BY <1>9, <1>10, <1>11, <1>12, <1>13, <1>14, <1>15

\* A tab goes on with the answer it waited for, and waits for that no more.
LEMMA HeardPage ==
    ASSUME IInv, NEW k \in Calls, request[k].tab # None,
           NEW r \in Tokens \cup {None, "cleared"}, GoOn(k, r),
           r \in Tokens => holder[r] # None,
           request[k].stage = "arrived" \/ r = None,
           request'[k].tab = None, \A j \in Calls : j # k => request'[j] = request[j],
           UNCHANGED <<started, overtaken>>
    PROVE  store' \in [Tabs -> Shown] /\ PagesHeld'
  <1> USE DEF IInv
  <1>1. PICK b \in Tabs : request[k].tab = b
    BY DEF TypeOK
  <1> DEFINE shown == CASE request[k].kind = "refresh"  -> Bootstrap(store[b], r)
                        [] request[k].kind = "login"    -> OnSubmit(store[b], r)
                        [] request[k].kind = "logout"   -> SignOut(store[b], r)
                        [] request[k].kind = "provider" -> store[b]
  <1>2. request[k].kind \in {"refresh", "login", "provider", "logout"} /\ k \in Waiting(b)
    BY <1>1, NoRequestFields DEF Held, RequestHeld, Waiting, TypeOK
  <1>3. store' = [store EXCEPT ![b] = shown]
    BY <1>1 DEF GoOn
  <1>4. /\ r \in Tokens => holder[r] \in Users
        /\ store[b] \in Shown /\ "unauthenticated" \in Shown /\ Users \subseteq Shown
    BY <1>1 DEF TypeOK, Shown
  <1>5. shown \in {store[b], "unauthenticated"} \cup Users
    <2>1. CASE request[k].kind = "refresh"
      BY <1>4, <2>1 DEF Bootstrap
    <2>2. CASE request[k].kind = "login"
      BY <1>4, <2>2 DEF OnSubmit
    <2>3. CASE request[k].kind = "logout"
      BY <2>3 DEF SignOut
    <2>4. CASE request[k].kind = "provider"
      BY <2>4
    <2> QED
      BY <1>2, <2>1, <2>2, <2>3, <2>4
  <1>6. request[k].kind = "provider" => shown = store[b]
    OBVIOUS
  <1> HIDE DEF shown
  <1>7. store' \in [Tabs -> Shown]
    BY <1>3, <1>4, <1>5 DEF TypeOK
  <1>8. \A a \in Tabs : Waiting(a)' = Waiting(a) \ {k} /\ (a # b => store'[a] = store[a])
    BY <1>1, <1>3 DEF Waiting, TypeOK
  <1>9. \A a \in Tabs : \A j \in Waiting(a)' : j \in Calls /\ request'[j] = request[j]
    BY <1>8 DEF Waiting
  <1>10. ASSUME NEW a \in Tabs, a # b
         PROVE  PageHeld(a)'
    BY <1>8, <1>9, <1>10 DEF PagesHeld, PageHeld
  <1>11. PageHeld(b)'
    <2>1. PageHeld(b)
      BY <1>1 DEF PagesHeld
    <2>2. store'[b] = shown
      BY <1>1, <1>3 DEF TypeOK
    <2>3. CASE request[k].kind = "provider"
      BY <1>1, <1>6, <1>8, <1>9, <2>1, <2>2, <2>3 DEF PageHeld
    <2>4. CASE request[k].kind # "provider"
      <3>1. store[b] # "closed" /\ b \in started
        BY <1>2, <2>1, <2>4 DEF PageHeld
      <3>2. store'[b] # "closed"
        BY <1>5, <2>2, <3>1
      <3>3. \A j \in Waiting(b)' : request'[j].kind = "refresh" =>
                /\ b \in overtaken
                /\ \A i \in Waiting(b)' : request'[i].kind = "refresh" => i = j
        BY <1>1, <1>2, <1>8, <1>9, <2>1 DEF PageHeld
      <3> QED
        BY <3>1, <3>2, <3>3 DEF PageHeld
    <2> QED
      BY <2>3, <2>4
  <1> QED
    BY <1>1, <1>7, <1>10, <1>11 DEF PagesHeld

\* Some requests are no longer waited for, and perhaps a sign-in is sent.
LEMMA AbandonStep ==
    ASSUME IInv, NEW K \in SUBSET Calls, UNCHANGED <<apiVars, cookie>>,
           uses' = uses \/ uses' = Broken(K), request' \in [Calls -> Requests],
           \A j \in K : request'[j] = Orphaned(request[j]) /\ uses' = Broken(K),
           \A j \in Calls \ K :
              \/ request'[j] = request[j]
              \/ request[j].stage = "arrived" /\ request'[j] = NoRequest
              \/ /\ request[j] = NoRequest
                 /\ \E b \in Tabs, what \in {"login", "provider"} :
                       request'[j] = Asking(b, what, None),
           store' \in [Tabs -> Shown], PagesHeld',
           sent' \in 0..MaxRequests, started' \subseteq Tabs, overtaken' \subseteq Tabs
    PROVE  IInv'
  <1> USE DEF IInv, apiVars, sessionVars
  <1>1. \A j \in Calls : request[j] \in Requests
    BY DEF TypeOK, Requests
  <1>2. /\ uses' \in [Tokens -> {"unused", "once", "contested", "broken"}]
        /\ \A j \in K, t \in Tokens : Presents(j, t) => uses'[t] = "broken"
        /\ \A t \in Tokens : uses'[t] = uses[t] \/
               (uses'[t] = "broken" /\ \E j \in Calls : Presents(j, t))
    <2>1. CASE uses' = uses
      <3>1. \A j \in K, t \in Tokens : Presents(j, t) => uses'[t] = "broken"
        BY BrokenFacts
      <3> QED
        BY <2>1, <3>1 DEF TypeOK
    <2>2. CASE uses' = Broken(K)
      BY <2>2, BrokenFacts
    <2> QED
      BY <2>1, <2>2
  <1>3. ASSUME NEW j \in Calls
        PROVE  \/ request'[j] = request[j] /\ j \notin K
               \/ request'[j] = NoRequest
               \/ /\ j \in K /\ request[j].stage = "sent"
                  /\ request'[j].tab = None /\ request'[j].kind = request[j].kind
                  /\ request'[j].token = request[j].token
                  /\ request'[j].stage = "sent" /\ request'[j].reply = request[j].reply
               \/ /\ j \notin K /\ request[j] = NoRequest
                  /\ request'[j].tab \in Tabs /\ request'[j].kind \in {"login", "provider"}
                  /\ request'[j].token = None
                  /\ request'[j].stage = "sent" /\ request'[j].reply = None
    BY <1>1, <1>3, OrphanFacts, AskingFacts
  <1>4. TypeOK'
    BY <1>2 DEF TypeOK, Requests
  <1>5. ApiTypes'
    BY DEF ApiTypes
  <1>6. Held'
    <2> SUFFICES ASSUME NEW j \in Calls
                 PROVE  RequestHeld(j)' /\ CallHeld(j)'
      BY DEF Held
    <2>1. RequestHeld(j) /\ CallHeld(j)
      BY DEF Held
    <2>2. /\ request[j].token \in Tokens \cup {None}
          /\ request[j].reply \in Tokens \cup {None, "cleared"}
      BY DEF TypeOK
    <2>3. CASE request'[j] = request[j]
      BY <2>3, HeldElsewhere DEF Held
    <2>4. CASE request'[j] = NoRequest /\ request'[j] # request[j]
      <3>1. pc[j] = "idle"
        <4>1. CASE j \in K
          <5>1. request[j].stage # "sent"
            BY <1>1, <2>4, <4>1, NoRequestFields, OrphanFacts
          <5> QED
            BY <2>1, <5>1 DEF CallHeld
        <4>2. CASE j \notin K
          BY <2>1, <2>4, <4>2, NoRequestFields DEF CallHeld
        <4> QED
          BY <4>1, <4>2
      <3> QED
        BY <2>4, <3>1, NoRequestFields DEF RequestHeld, CallHeld
    <2>5. CASE /\ j \in K /\ request[j].stage = "sent"
               /\ request'[j].tab = None /\ request'[j].kind = request[j].kind
               /\ request'[j].token = request[j].token
               /\ request'[j].stage = "sent" /\ request'[j].reply = request[j].reply
      BY <2>1, <2>2, <2>5, NoRequestFields DEF RequestHeld, CallHeld
    <2>6. CASE /\ request[j] = NoRequest
               /\ request'[j].tab \in Tabs /\ request'[j].kind \in {"login", "provider"}
               /\ request'[j].token = None
               /\ request'[j].stage = "sent" /\ request'[j].reply = None
      BY <2>1, <2>6, NoRequestFields DEF RequestHeld, CallHeld
    <2> QED
      BY <1>3, <2>3, <2>4, <2>5, <2>6
  <1>7. UsesHeld'
    <2>1. \A j \in Calls, t \in Tokens : Presents(j, t)' => Presents(j, t)
      BY <1>3, NoRequestFields DEF Presents
    <2>2. ASSUME NEW j \in Calls, NEW t \in Tokens, Brings(j, t)'
          PROVE  Brings(j, t) /\ cookie' # t
      <3>1. Brings(j, t)
        BY <1>3, <2>2, NoRequestFields DEF Brings
      <3> QED
        BY <3>1 DEF UsesHeld
    <2>3. ASSUME NEW j \in Calls, request'[j].stage = "sent", request'[j].tab = None,
                 request'[j].token # None
          PROVE  uses'[request'[j].token] = "broken"
      <3>1. request'[j].token = request[j].token /\ request[j].token \in Tokens
        BY <1>3, <2>3, NoRequestFields DEF TypeOK
      <3>2. CASE j \in K
        BY <1>2, <3>1, <3>2 DEF Presents
      <3>3. CASE j \notin K
        BY <1>2, <1>3, <2>3, <3>1, <3>3, NoRequestFields DEF UsesHeld
      <3> QED
        BY <3>2, <3>3
    <2> QED
      BY <1>2, <2>1, <2>2, <2>3, UsesStay
  <1>8. CookieHeld'
    <2>1. ASSUME NEW j \in Calls, cookie # None, Presents(j, cookie), Replaces(j)
          PROVE  uses'[cookie] = "broken" \/ (Presents(j, cookie) /\ Replaces(j))'
      <3>1. cookie \in Tokens /\ request[j] # NoRequest
        BY <2>1, NoRequestFields DEF Presents, TypeOK
      <3>2. CASE j \in K
        BY <1>2, <2>1, <3>1, <3>2
      <3>3. CASE j \notin K
        BY <2>1, <3>1, <3>3 DEF Presents, Replaces
      <3> QED
        BY <3>2, <3>3
    <2> QED
      BY <1>2, <2>1, CookieStays
  <1>9. RestoreHeld'
    <2>1. \A j \in Calls : request[j] = NoRequest => Restores(j)' \/ request'[j] = request[j]
      BY <1>3, NoRequestFields DEF Restores
    <2>2. ASSUME NEW j \in Calls, request[j] # NoRequest
          PROVE  Restores(j)'
      <3>1. request'[j] = request[j] \/ request'[j].tab = None
        BY <1>3, <2>2, NoRequestFields
      <3> QED
        BY <1>2, <3>1, RestoreStays DEF Held, RestoreHeld
    <2>3. \A j \in Calls : request'[j] = NoRequest => Restores(j)'
      BY NoRequestFields DEF Restores
    <2> QED
      BY <2>1, <2>2, <2>3 DEF RestoreHeld
  <1> QED
    BY <1>4, <1>5, <1>6, <1>7, <1>8, <1>9

\* A page presents the cookie in a request of its own.
LEMMA PresentStep ==
    ASSUME IInv, NEW k \in Calls, NEW b \in Tabs, NEW what \in {"refresh", "logout"},
           UNCHANGED <<apiVars, cookie, store, overtaken>>, uses' = Presented(cookie),
           request[k] = NoRequest, request' \in [Calls -> Requests],
           request'[k] = Asking(b, what, cookie),
           \A j \in Calls : j # k => request'[j] = request[j],
           PagesHeld', sent' \in 0..MaxRequests, started' \subseteq Tabs
    PROVE  IInv'
  <1> USE DEF IInv, apiVars, sessionVars
  <1>1. cookie \in Tokens \cup {None} /\ (cookie # None => holder[cookie] # None)
    BY DEF TypeOK, CookieHeld
  <1>2. /\ request'[k].tab = b /\ request'[k].kind = what /\ request'[k].token = cookie
        /\ request'[k].stage = "sent" /\ request'[k].reply = None /\ b # None
    BY <1>1, AskingFacts
  <1>3. /\ uses' \in [Tokens -> {"unused", "once", "contested", "broken"}]
        /\ \A t \in Tokens : t # cookie => uses'[t] = uses[t]
        /\ \A t \in Tokens : uses[t] = "broken" => uses'[t] = "broken"
        /\ \A t \in Tokens : t = cookie => uses'[t] # "unused"
        /\ \A t \in Tokens : t = cookie /\ uses'[t] = "once" => uses[t] = "unused"
    BY <1>1, PresentedFacts
  <1>4. pc[k] = "idle"
    BY NoRequestFields DEF Held, CallHeld
  <1>5. TypeOK'
    BY <1>3 DEF TypeOK, Requests
  <1>6. ApiTypes'
    BY DEF ApiTypes
  <1>7. Held'
    <2>1. RequestHeld(k)' /\ CallHeld(k)'
      BY <1>1, <1>2, <1>4 DEF RequestHeld, CallHeld
    <2>2. \A j \in Calls : j # k => RequestHeld(j)' /\ CallHeld(j)'
      BY HeldElsewhere DEF Held
    <2> QED
      BY <2>1, <2>2 DEF Held
  <1>8. \A j \in Calls, t \in Tokens :
            /\ Presents(j, t)' <=> IF j = k THEN t = cookie ELSE Presents(j, t)
            /\ ~Presents(k, t)
            /\ Brings(j, t)' => j # k /\ Brings(j, t)
    BY <1>2, NoRequestFields DEF Presents, Brings
  <1>9. UsesHeld'
    <2>1. \A t \in Tokens : holder'[t] = None => uses'[t] = "unused"
      BY <1>1, <1>3 DEF UsesHeld
    <2>2. ASSUME NEW t \in Tokens, uses'[t] = "unused", NEW j \in Calls
          PROVE  ~Presents(j, t)'
      BY <1>3, <1>8, <2>2 DEF UsesHeld
    <2>3. ASSUME NEW t \in Tokens, uses'[t] = "once", NEW i \in Calls, NEW j \in Calls,
                 Presents(i, t)', Presents(j, t)'
          PROVE  i = j
      <3>1. CASE t = cookie
        BY <1>3, <1>8, <2>3, <3>1 DEF UsesHeld
      <3>2. CASE t # cookie
        BY <1>3, <1>8, <2>3, <3>2 DEF UsesHeld
      <3> QED
        BY <3>1, <3>2
    <2>4. ASSUME NEW j \in Calls, request'[j].stage = "sent", request'[j].tab = None,
                 request'[j].token # None
          PROVE  uses'[request'[j].token] = "broken"
      <3>1. j # k /\ request[j].token \in Tokens \cup {None}
        BY <1>2, <2>4 DEF TypeOK
      <3> QED
        BY <1>3, <2>4, <3>1 DEF UsesHeld
    <2>5. ASSUME NEW j \in Calls, NEW t \in Tokens, Brings(j, t)'
          PROVE  /\ t \in live' /\ uses'[t] = "unused" /\ cookie' # t
                 /\ \A i \in Calls : Brings(i, t)' => i = j
      BY <1>3, <1>8, <2>5 DEF UsesHeld
    <2> QED
      BY <2>1, <2>2, <2>3, <2>4, <2>5 DEF UsesHeld
  <1>10. CookieHeld'
    <2>1. ASSUME NEW j \in Calls, cookie # None, Presents(j, cookie)
          PROVE  j # k
      BY <1>1, <1>8, <2>1
    <2>2. \A j \in Calls : cookie # None /\ Presents(j, cookie) /\ Replaces(j) =>
              (Presents(j, cookie) /\ Replaces(j))'
      BY <2>1 DEF Presents, Replaces
    <2> QED
      BY <1>3, <2>2, CookieStays
  <1>11. RestoreHeld'
    <2>1. ASSUME NEW j \in Calls, j # k
          PROVE  Restores(j)'
      <3>1. ASSUME NEW t \in Tokens, uses'[t] = "once"
            PROVE  uses[t] = "once" \/ ~Presents(j, t)
        <4>1. CASE t = cookie
          BY <1>3, <3>1, <4>1 DEF UsesHeld
        <4>2. CASE t # cookie
          BY <1>3, <3>1, <4>2
        <4> QED
          BY <4>1, <4>2
      <3> QED
        BY <2>1, <3>1, RestoreStays DEF Held, RestoreHeld
    <2>2. Restores(k)'
      <3>1. ASSUME cookie # None, uses'[cookie] = "once"
            PROVE  cookie \in live
        <4>1. cookie \in Tokens /\ uses[cookie] = "unused"
          BY <1>1, <1>3, <3>1
        <4> QED
          BY <3>1, <4>1 DEF UsesHeld, CookieHeld
      <3> QED
        BY <1>2, <3>1 DEF Restores
    <2> QED
      BY <2>1, <2>2 DEF RestoreHeld
  <1> QED
    BY <1>5, <1>6, <1>7, <1>9, <1>10, <1>11

\* The page's code hears an answer.
LEMMA HearStep ==
    ASSUME IInv, NEW k \in Calls, Hear(k)
    PROVE  IInv'
  <1> USE DEF IInv
  <1>1. /\ request[k].stage = "arrived" /\ request' = [request EXCEPT ![k] = NoRequest]
        /\ GoOn(k, request[k].reply)
        /\ UNCHANGED <<apiVars, cookie, started, sent, uses, overtaken>>
    BY DEF Hear
  <1>2. /\ request' \in [Calls -> Requests] /\ request'[k] = NoRequest
        /\ \A j \in Calls : j # k => request'[j] = request[j]
    BY <1>1, NoRequestFields DEF TypeOK, Requests
  <1>3. /\ request[k].tab # None
        /\ request[k].reply \in Tokens \cup {None, "cleared"}
        /\ request[k].reply \in Tokens => holder[request[k].reply] # None
    BY <1>1 DEF Held, RequestHeld, TypeOK
  <1>4. request'[k].tab = None
    BY <1>2, NoRequestFields
  <1>5. store' \in [Tabs -> Shown] /\ PagesHeld'
    BY <1>1, <1>2, <1>3, <1>4, HeardPage
  <1>6. sent' \in 0..MaxRequests /\ started' \subseteq Tabs /\ overtaken' \subseteq Tabs
    BY <1>1 DEF TypeOK
  <1>7. \A j \in Calls \ {} : \/ request'[j] = request[j]
                              \/ request[j].stage = "arrived" /\ request'[j] = NoRequest
    BY <1>1, <1>2
  <1> QED
    BY <1>1, <1>2, <1>5, <1>6, <1>7, AbandonStep

\* A page hears of a failure.
LEMMA LoseStep ==
    ASSUME IInv, NEW k \in Calls, Lose(k)
    PROVE  IInv'
  <1> USE DEF IInv
  <1>1. /\ request[k].tab # None /\ request' = [request EXCEPT ![k] = Orphaned(request[k])]
        /\ GoOn(k, None) /\ uses' = Broken({k})
        /\ UNCHANGED <<apiVars, cookie, started, sent, overtaken>>
    BY DEF Lose
  <1>2. request[k] \in Requests
    BY DEF TypeOK, Requests
  <1>3. Orphaned(request[k]) \in Requests /\ Orphaned(request[k]).tab = None
    BY <1>2, OrphanFacts
  <1>4. /\ request' \in [Calls -> Requests] /\ request'[k] = Orphaned(request[k])
        /\ request'[k].tab = None
        /\ \A j \in Calls : j # k => request'[j] = request[j]
    BY <1>1, <1>3 DEF TypeOK, Requests
  <1>5. store' \in [Tabs -> Shown] /\ PagesHeld'
    BY <1>1, <1>4, HeardPage
  <1>6. sent' \in 0..MaxRequests /\ started' \subseteq Tabs /\ overtaken' \subseteq Tabs
    BY <1>1 DEF TypeOK
  <1> QED
    BY <1>1, <1>4, <1>5, <1>6, AbandonStep

\* What waits at the pages when page b is left: for b nothing.
LEMMA WaitingLeft ==
    ASSUME TypeOK, NEW b \in Tabs
    PROVE  /\ {k \in Calls : Left(b)[k].tab = b} = {}
           /\ \A a \in Tabs \ {b} : {k \in Calls : Left(b)[k].tab = a} = Waiting(a)
           /\ \A k \in Calls : request[k].tab # b => Left(b)[k] = request[k]
  <1>1. \A k \in Calls : request[k].tab = b => Left(b)[k].tab = None
    BY LeftFacts, OrphanFacts DEF TypeOK, Requests
  <1>2. \A k \in Calls : request[k].tab # b => Left(b)[k] = request[k]
    BY LeftFacts
  <1> QED
    BY <1>1, <1>2 DEF Waiting

\* A page is loaded, for the first time or again.
LEMMA LoadStep ==
    ASSUME IInv, NEW b \in Tabs, Load(b)
    PROVE  IInv'
  <1> USE DEF IInv
  <1>1. /\ store' = [store EXCEPT ![b] = "loading"] /\ started' = started \ {b}
        /\ request' = Left(b) /\ uses' = Broken(Waiting(b))
        /\ overtaken' = overtaken \ {b}
        /\ UNCHANGED <<apiVars, cookie, sent>>
    BY DEF Load
  <1>2. /\ request' \in [Calls -> Requests]
        /\ \A k \in Waiting(b) : k \in Calls /\ request'[k] = Orphaned(request[k])
        /\ \A k \in Calls \ Waiting(b) : request'[k] = request[k]
    BY <1>1, LeftFacts DEF Waiting
  <1>3. Waiting(b)' = {} /\ \A a \in Tabs \ {b} : Waiting(a)' = Waiting(a)
    BY <1>1, WaitingLeft DEF Waiting
  <1>4. /\ store' \in [Tabs -> Shown] /\ store'[b] = "loading"
        /\ \A a \in Tabs \ {b} : store'[a] = store[a]
    BY <1>1 DEF TypeOK, Shown
  <1>5. PagesHeld'
    <2>1. PageHeld(b)'
      BY <1>3, <1>4 DEF PageHeld
    <2>2. ASSUME NEW a \in Tabs \ {b}
          PROVE  PageHeld(a)'
      <3>1. \A k \in Waiting(a) : request'[k] = request[k]
        BY <1>2 DEF Waiting
      <3>2. (a \in started' <=> a \in started) /\ (a \in overtaken' <=> a \in overtaken)
        BY <1>1
      <3> QED
        BY <1>3, <1>4, <3>1, <3>2 DEF PagesHeld, PageHeld
    <2> QED
      BY <2>1, <2>2 DEF PagesHeld
  <1>6. sent' \in 0..MaxRequests /\ started' \subseteq Tabs /\ overtaken' \subseteq Tabs
    BY <1>1 DEF TypeOK
  <1>7. Waiting(b) \in SUBSET Calls
    BY DEF Waiting
  <1> QED
    BY <1>1, <1>2, <1>4, <1>5, <1>6, <1>7, AbandonStep

\* A page is left for the provider.
LEMMA ClickProviderStep ==
    ASSUME IInv, NEW b \in Tabs, ClickProvider(b)
    PROVE  IInv'
  <1> USE DEF IInv
  <1>1. /\ Send(Left(b), Asking(b, "provider", None))
        /\ store' = [store EXCEPT ![b] = "closed"] /\ uses' = Broken(Waiting(b))
        /\ UNCHANGED <<apiVars, cookie, started, overtaken>>
    BY DEF ClickProvider
  <1>2. Left(b) \in [Calls -> Requests] /\ Asking(b, "provider", None) \in Requests
    BY LeftFacts, AskingFacts
  <1>3. PICK k \in Calls :
            /\ request[k] = NoRequest
            /\ request' \in [Calls -> Requests] /\ request'[k] = Asking(b, "provider", None)
            /\ \A j \in Calls : j # k => request'[j] = Left(b)[j]
    BY <1>1, <1>2, SendFacts
  <1>4. sent' \in 0..MaxRequests
    BY <1>1, <1>2, SendFacts
  <1>5. request'[k].tab = b /\ request'[k].kind = "provider" /\ k \notin Waiting(b)
    BY <1>3, AskingFacts, NoRequestFields DEF Waiting
  <1>6. /\ \A j \in Waiting(b) : j \in Calls /\ request'[j] = Orphaned(request[j])
        /\ \A j \in Calls \ Waiting(b) : j # k => request'[j] = request[j]
    BY <1>3, <1>5, LeftFacts DEF Waiting
  <1>7. Waiting(b)' = {k} /\ \A a \in Tabs \ {b} : Waiting(a)' = Waiting(a)
    <2>1. \A j \in Calls : j # k => request'[j].tab # b
      BY <1>3, WaitingLeft
    <2>2. \A a \in Tabs \ {b}, j \in Calls : request'[j].tab = a <=> request[j].tab = a
      <3>1. ASSUME NEW a \in Tabs \ {b}, NEW j \in Calls
            PROVE  request'[j].tab = a <=> request[j].tab = a
        <4>1. CASE j = k
          BY <1>3, <1>5, <4>1, NoRequestFields
        <4>2. CASE j # k
          BY <1>3, <4>2, WaitingLeft DEF Waiting
        <4> QED
          BY <4>1, <4>2
      <3> QED
        BY <3>1
    <2> QED
      BY <1>5, <2>1, <2>2 DEF Waiting
  <1>8. /\ store' \in [Tabs -> Shown] /\ store'[b] = "closed"
        /\ \A a \in Tabs \ {b} : store'[a] = store[a]
    BY <1>1 DEF TypeOK, Shown
  <1>9. PagesHeld'
    <2>1. PageHeld(b)'
      BY <1>5, <1>7, <1>8 DEF PageHeld
    <2>2. ASSUME NEW a \in Tabs \ {b}
          PROVE  PageHeld(a)'
      <3>1. \A j \in Waiting(a) : request'[j] = request[j]
        BY <1>3, <1>6, NoRequestFields DEF Waiting
      <3> QED
        BY <1>1, <1>7, <1>8, <3>1 DEF PagesHeld, PageHeld
    <2> QED
      BY <2>1, <2>2 DEF PagesHeld
  <1>10. started' \subseteq Tabs /\ overtaken' \subseteq Tabs /\ Waiting(b) \in SUBSET Calls
    BY <1>1 DEF TypeOK, Waiting
  <1>11. ASSUME NEW j \in Calls \ Waiting(b)
         PROVE  \/ request'[j] = request[j]
                \/ /\ request[j] = NoRequest
                   /\ \E a \in Tabs, what \in {"login", "provider"} :
                         request'[j] = Asking(a, what, None)
    BY <1>3, <1>6
  <1> QED
    BY <1>1, <1>3, <1>4, <1>6, <1>8, <1>9, <1>10, <1>11, AbandonStep

\* A request that a page sends, beside those it waits for.
LEMMA SentFacts ==
    ASSUME TypeOK, NEW b \in Tabs, NEW what \in {"refresh", "login", "logout"},
           NEW t \in Tokens \cup {None}, Send(request, Asking(b, what, t))
    PROVE  /\ sent' \in 0..MaxRequests
           /\ \E k \in Calls :
                 /\ request[k] = NoRequest /\ k \notin Waiting(b)
                 /\ request' \in [Calls -> Requests] /\ request'[k] = Asking(b, what, t)
                 /\ request'[k].kind = what
                 /\ \A j \in Calls : j # k => request'[j] = request[j]
                 /\ Waiting(b)' = Waiting(b) \cup {k}
                 /\ \A a \in Tabs \ {b} : Waiting(a)' = Waiting(a)
                 /\ \A a \in Tabs : \A j \in Waiting(a) : request'[j] = request[j]
  <1>1. request \in [Calls -> Requests]
    BY DEF TypeOK, Requests
  <1>2. Asking(b, what, t) \in Requests /\ Asking(b, what, t).tab = b /\ Asking(b, what, t).kind = what
    BY AskingFacts
  <1>3. sent' \in 0..MaxRequests
    BY <1>1, <1>2, SendFacts
  <1>4. PICK k \in Calls :
            /\ request[k] = NoRequest
            /\ request' \in [Calls -> Requests] /\ request'[k] = Asking(b, what, t)
            /\ \A j \in Calls : j # k => request'[j] = request[j]
    BY <1>1, <1>2, SendFacts
  <1>5. k \notin Waiting(b)
    BY <1>4, NoRequestFields DEF Waiting
  <1>6. Waiting(b)' = Waiting(b) \cup {k}
    BY <1>2, <1>4 DEF Waiting
  <1>7. ASSUME NEW a \in Tabs \ {b}
        PROVE  Waiting(a)' = Waiting(a)
    BY <1>2, <1>4, NoRequestFields DEF Waiting
  <1>8. \A a \in Tabs : \A j \in Waiting(a) : request'[j] = request[j]
    BY <1>4, NoRequestFields DEF Waiting
  <1> QED
    BY <1>2, <1>3, <1>4, <1>5, <1>6, <1>7, <1>8

\* A page that is there for the first time asks for its session.
LEMMA MountStep ==
    ASSUME IInv, NEW b \in Tabs, Mount(b)
    PROVE  IInv'
  <1> USE DEF IInv
  <1>1. /\ store[b] # "closed" /\ b \notin started /\ started' = started \cup {b}
        /\ Send(request, Asking(b, "refresh", cookie)) /\ uses' = Presented(cookie)
        /\ UNCHANGED <<apiVars, cookie, store, overtaken>>
    BY DEF Mount, FirstMount
  <1>2. cookie \in Tokens \cup {None}
    BY DEF TypeOK
  <1>3. PICK k \in Calls :
            /\ request[k] = NoRequest /\ k \notin Waiting(b)
            /\ request' \in [Calls -> Requests] /\ request'[k] = Asking(b, "refresh", cookie)
            /\ request'[k].kind = "refresh"
            /\ \A j \in Calls : j # k => request'[j] = request[j]
            /\ Waiting(b)' = Waiting(b) \cup {k}
            /\ \A a \in Tabs \ {b} : Waiting(a)' = Waiting(a)
            /\ \A a \in Tabs : \A j \in Waiting(a) : request'[j] = request[j]
    BY <1>1, <1>2, SentFacts
  <1>4. sent' \in 0..MaxRequests
    BY <1>1, <1>2, SentFacts
  <1>5. store[b] = "loading" /\ Waiting(b)' = {k}
    BY <1>1, <1>3 DEF PagesHeld, PageHeld
  <1>6. PageHeld(b)'
    BY <1>1, <1>3, <1>5 DEF PageHeld
  <1>7. ASSUME NEW a \in Tabs \ {b}
        PROVE  PageHeld(a)'
    BY <1>1, <1>3 DEF PagesHeld, PageHeld
  <1>8. PagesHeld' /\ started' \subseteq Tabs
    BY <1>1, <1>6, <1>7 DEF PagesHeld, TypeOK
  <1> QED
    BY <1>1, <1>3, <1>4, <1>8, PresentStep

\* A sign-in is sent, perhaps before the page has its session.
LEMMA ClickSignInStep ==
    ASSUME IInv, NEW b \in Tabs, ClickSignIn(b)
    PROVE  IInv'
  <1> USE DEF IInv
  <1>1. /\ store[b] # "closed" /\ b \in started
        /\ Send(request, Asking(b, "login", None))
        /\ overtaken' = IF \E k \in Waiting(b) : request[k].kind = "refresh"
                        THEN overtaken \cup {b} ELSE overtaken
        /\ UNCHANGED <<apiVars, cookie, store, started, uses>>
    BY DEF ClickSignIn, Usable
  <1>2. PICK k \in Calls :
            /\ request[k] = NoRequest /\ k \notin Waiting(b)
            /\ request' \in [Calls -> Requests] /\ request'[k] = Asking(b, "login", None)
            /\ request'[k].kind = "login"
            /\ \A j \in Calls : j # k => request'[j] = request[j]
            /\ Waiting(b)' = Waiting(b) \cup {k}
            /\ \A a \in Tabs \ {b} : Waiting(a)' = Waiting(a)
            /\ \A a \in Tabs : \A j \in Waiting(a) : request'[j] = request[j]
    BY <1>1, SentFacts
  <1>3. sent' \in 0..MaxRequests
    BY <1>1, SentFacts
  <1>4. /\ \A a \in Tabs \ {b} : a \in overtaken' <=> a \in overtaken
        /\ overtaken \subseteq overtaken' /\ overtaken' \subseteq Tabs
        /\ \A j \in Waiting(b) : request[j].kind = "refresh" => b \in overtaken'
    BY <1>1 DEF TypeOK
  <1>5. PageHeld(b)'
    BY <1>1, <1>2, <1>4 DEF PagesHeld, PageHeld
  <1>6. ASSUME NEW a \in Tabs \ {b}
        PROVE  PageHeld(a)'
    BY <1>1, <1>2, <1>4 DEF PagesHeld, PageHeld
  <1>7. PagesHeld' /\ store' \in [Tabs -> Shown] /\ started' \subseteq Tabs
    BY <1>1, <1>5, <1>6 DEF PagesHeld, TypeOK
  <1>8. \A j \in Calls \ {} :
            \/ request'[j] = request[j]
            \/ /\ request[j] = NoRequest
               /\ \E a \in Tabs, what \in {"login", "provider"} : request'[j] = Asking(a, what, None)
    BY <1>2
  <1> QED
    BY <1>1, <1>2, <1>3, <1>4, <1>7, <1>8, AbandonStep

\* A signed-in page signs out.
LEMMA ClickSignOutStep ==
    ASSUME IInv, NEW b \in Tabs, ClickSignOut(b)
    PROVE  IInv'
  <1> USE DEF IInv
  <1>1. /\ store[b] # "closed" /\ b \in started /\ store[b] \in Users
        /\ Send(request, Asking(b, "logout", cookie)) /\ uses' = Presented(cookie)
        /\ UNCHANGED <<apiVars, cookie, store, started, overtaken>>
    BY DEF ClickSignOut, Usable
  <1>2. cookie \in Tokens \cup {None}
    BY DEF TypeOK
  <1>3. PICK k \in Calls :
            /\ request[k] = NoRequest /\ k \notin Waiting(b)
            /\ request' \in [Calls -> Requests] /\ request'[k] = Asking(b, "logout", cookie)
            /\ request'[k].kind = "logout"
            /\ \A j \in Calls : j # k => request'[j] = request[j]
            /\ Waiting(b)' = Waiting(b) \cup {k}
            /\ \A a \in Tabs \ {b} : Waiting(a)' = Waiting(a)
            /\ \A a \in Tabs : \A j \in Waiting(a) : request'[j] = request[j]
    BY <1>1, <1>2, SentFacts
  <1>4. sent' \in 0..MaxRequests
    BY <1>1, <1>2, SentFacts
  <1>5. store[b] # "loading"
    BY <1>1
  <1>6. PageHeld(b)'
    BY <1>1, <1>3, <1>5 DEF PagesHeld, PageHeld
  <1>7. ASSUME NEW a \in Tabs \ {b}
        PROVE  PageHeld(a)'
    BY <1>1, <1>3 DEF PagesHeld, PageHeld
  <1>8. PagesHeld' /\ started' \subseteq Tabs
    BY <1>1, <1>6, <1>7 DEF PagesHeld, TypeOK
  <1> QED
    BY <1>1, <1>3, <1>4, <1>8, PresentStep
-----------------------------------------------------------------------------
(* The invariant, and what it comes to.                                    *)

LEMMA InitIInv == Init => IInv
  <1> SUFFICES ASSUME Init
               PROVE  IInv
    OBVIOUS
  <1>1. PICK u \in Users, t \in Tokens :
            /\ holder = [s \in Tokens |-> IF s = t THEN u ELSE None]
            /\ live = {t} /\ cookie = t
    BY AnyOfIn DEF Init
  <1>2. \A k \in Calls : request[k] = NoRequest /\ pc[k] = "idle"
    BY DEF Init
  <1>3. NoRequest \in Requests /\ u # None
    BY NoRequestFields DEF Requests
  <1>4. request \in [Calls -> Requests]
    BY <1>3 DEF Init
  <1>5. TypeOK
    BY <1>1, <1>3, <1>4 DEF Init, TypeOK, Requests, Shown
  <1>6. ApiTypes
    BY DEF Init, ApiTypes, Api!NoCall, Api!Holding
  <1>7. Held
    BY <1>2, NoRequestFields DEF Held, RequestHeld, CallHeld
  <1>8. UsesHeld
    BY <1>2, NoRequestFields DEF Init, UsesHeld, Presents, Brings
  <1>9. CookieHeld
    BY <1>1, <1>3 DEF CookieHeld
  <1>10. RestoreHeld
    BY <1>2, NoRequestFields DEF RestoreHeld, Restores
  <1>11. PagesHeld
    BY <1>2, NoRequestFields DEF Init, PagesHeld, PageHeld, Waiting
  <1> QED
    BY <1>5, <1>6, <1>7, <1>8, <1>9, <1>10, <1>11 DEF IInv

\* A step that changes nothing.
LEMMA StutterStep == IInv /\ UNCHANGED vars => IInv'
  BY DEF IInv, vars, apiVars, sessionVars, webVars, TypeOK, ApiTypes, Held, RequestHeld,
         CallHeld, UsesHeld, Presents, Brings, CookieHeld, Replaces, RestoreHeld, Restores,
         PagesHeld, PageHeld, Waiting

LEMMA NextIInv == IInv /\ [Next]_vars => IInv'
  <1> SUFFICES ASSUME IInv, [Next]_vars
               PROVE  IInv'
    OBVIOUS
  <1>1. ASSUME NEW b \in Tabs, TabStep(b)
        PROVE  IInv'
    BY <1>1, LoadStep, MountStep, ClickSignInStep, ClickProviderStep, ClickSignOutStep DEF TabStep
  <1>2. ASSUME NEW k \in Calls, Serve(k)
        PROVE  IInv'
    BY <1>2, RefreshStep, LoginStep, RotateStep, IssueStep, CutStep, LogoutStep DEF Serve
  <1>3. ASSUME NEW k \in Calls, RequestStep(k)
        PROVE  IInv'
    BY <1>2, <1>3, ArriveStep, HearStep, LoseStep DEF RequestStep
  <1> QED
    BY <1>1, <1>3, StutterStep DEF Next

\* In every state that the system reaches the invariant holds.
THEOREM Invariance == Spec => []IInv
  BY InitIInv, NextIInv, PTL DEF Spec

\* The token in the cookie is good, or a request that presented it is under way
\* or came to grief, in whatever order several tabs' answers set it
\* (respondAuth, clearRefreshCookie, and Refresh's exchange of the token).
THEOREM CookieStaysGood == Spec => []CookieGood
  <1>1. IInv => CookieGood
    BY DEF IInv, CookieHeld, CookieGood, Presents, Replaces
  <1> QED
    BY <1>1, Invariance, PTL

\* A page load restores the session of the cookie it sent, unless another
\* request presented that cookie too or the exchange was broken off (bootstrap).
THEOREM LoadsRestore == Spec => RestoredUnlessContested
  <1> DEFINE A == \A k \in Calls :
                     LET q == request[k]
                     IN  /\ q.kind = "refresh" /\ q.tab # None /\ q.token # None
                         /\ request'[k] = NoRequest
                         /\ uses'[q.token] = "once"
                         => store'[q.tab] = holder[q.token]
  <1>1. IInv /\ [Next]_vars => [A]_vars
    <2> SUFFICES ASSUME IInv, Next, NEW k \in Calls, request[k].kind = "refresh",
                        request[k].tab # None, request[k].token # None,
                        request'[k] = NoRequest, uses'[request[k].token] = "once"
                 PROVE  store'[request[k].tab] = holder[request[k].token]
      OBVIOUS
    <2> USE DEF IInv
    <2>1. /\ request[k].tab \in Tabs /\ request[k].token \in Tokens
          /\ request[k] # NoRequest /\ request'[k].stage = "idle" /\ request'[k].tab = None
          /\ request \in [Calls -> Requests] /\ Presents(k, request[k].token)
      BY NoRequestFields DEF TypeOK, Requests, Presents
    <2>2. ASSUME NEW b \in Tabs, TabStep(b)
          PROVE  FALSE
      <3>1. CASE Load(b) \/ ClickProvider(b)
        <4>1. uses' = Broken(Waiting(b)) /\ Waiting(b) \in SUBSET Calls
          BY <3>1 DEF Load, ClickProvider, Waiting
        <4>2. k \notin Waiting(b)
          BY <2>1, <4>1, BrokenFacts
        <4>3. Left(b)[k] = request[k]
          BY <4>2, WaitingLeft DEF Waiting
        <4>4. CASE Load(b)
          BY <2>1, <4>3, <4>4 DEF Load
        <4>5. CASE ClickProvider(b)
          <5>1. Left(b) \in [Calls -> Requests] /\ Asking(b, "provider", None) \in Requests
            BY LeftFacts, AskingFacts
          <5>2. PICK j \in Calls :
                    /\ request[j] = NoRequest
                    /\ \A i \in Calls : i # j => request'[i] = Left(b)[i]
            BY <4>5, <5>1, SendFacts DEF ClickProvider
          <5> QED
            BY <2>1, <4>3, <5>2
        <4> QED
          BY <3>1, <4>4, <4>5
      <3>2. ASSUME NEW what \in {"refresh", "login", "logout"}, NEW t \in Tokens \cup {None},
                   Send(request, Asking(b, what, t))
            PROVE  FALSE
        <4>1. PICK j \in Calls : /\ request[j] = NoRequest
                                 /\ \A i \in Calls : i # j => request'[i] = request[i]
          BY <3>2, SentFacts
        <4> QED
          BY <2>1, <4>1
      <3>3. cookie \in Tokens \cup {None}
        BY DEF TypeOK
      <3> QED
        BY <2>2, <3>1, <3>2, <3>3 DEF TabStep, Mount, ClickSignIn, ClickSignOut
    <2>3. ASSUME NEW j \in Calls, Serve(j)
          PROVE  FALSE
      <3>1. \/ request' = request
            \/ \E r \in Tokens \cup {None, "cleared"} : Reply(j, r)
        BY <2>3, AnyOfIn DEF Serve, Refresh, Login, Rotate, Issue, Cut, Logout,
           ReplyIfRefused, RespondAuth, FreshTokens
      <3> QED
        BY <2>1, <3>1, ReplyFacts
    <2>4. ASSUME NEW j \in Calls, Arrive(j)
          PROVE  FALSE
      <3>1. CASE j = k
        <4>1. request' = [request EXCEPT ![k] = [request[k] EXCEPT !.stage = "arrived"]]
          BY <2>4, <3>1 DEF Arrive
        <4> QED
          BY <2>1, <4>1 DEF Requests
      <3>2. CASE j # k
        BY <2>1, <2>4, <3>2 DEF Arrive
      <3> QED
        BY <3>1, <3>2
    <2>5. ASSUME NEW j \in Calls, Lose(j)
          PROVE  FALSE
      <3>1. CASE j = k
        BY <2>1, <2>5, <3>1, BrokenFacts DEF Lose
      <3>2. CASE j # k
        BY <2>1, <2>5, <3>2 DEF Lose
      <3> QED
        BY <3>1, <3>2
    <2>6. ASSUME NEW j \in Calls, Hear(j)
          PROVE  store'[request[k].tab] = holder[request[k].token]
      <3>1. j = k
        BY <2>1, <2>6 DEF Hear
      <3>2. /\ request[k].stage = "arrived" /\ uses' = uses
            /\ GoOn(k, request[k].reply)
        BY <2>6, <3>1 DEF Hear
      <3>3. /\ request[k].reply \in Tokens
            /\ holder[request[k].reply] = holder[request[k].token]
        BY <3>2 DEF RestoreHeld, Restores
      <3>4. store' = [store EXCEPT ![request[k].tab] =
                         Bootstrap(store[request[k].tab], request[k].reply)]
        BY <3>2 DEF GoOn
      <3> QED
        BY <2>1, <3>3, <3>4 DEF Bootstrap, TypeOK
    <2> QED
      BY <2>2, <2>3, <2>4, <2>5, <2>6 DEF Next, RequestStep
  <1> QED
    BY <1>1, Invariance, PTL DEF Spec, RestoredUnlessContested

\* A tab stays signed in, or out, as its user left it: what changes it is that
\* user's doing, or the one answer to its bootstrap (Providers, the ref started).
THEOREM TabsStayAsLeft == Spec => StaysAsLeft
  <1> DEFINE A == \A b \in Tabs :
                     \/ store'[b] = store[b]
                     \/ store[b] = "closed" \/ store'[b] = "closed" \/ b \in started \ started'
                     \/ HeardBy(b, {"login", "logout"})
                     \/ HeardBy(b, {"refresh"}) /\ (store[b] = "loading" \/ b \in overtaken)
  <1>1. IInv /\ [Next]_vars => [A]_vars
    <2> SUFFICES ASSUME IInv, Next, NEW b \in Tabs, store'[b] # store[b],
                        store[b] # "closed", store'[b] # "closed", b \notin started \ started'
                 PROVE  \/ HeardBy(b, {"login", "logout"})
                        \/ HeardBy(b, {"refresh"}) /\ (store[b] = "loading" \/ b \in overtaken)
      OBVIOUS
    <2> USE DEF IInv
    <2>1. store \in [Tabs -> Shown]
      BY DEF TypeOK
    <2>2. ASSUME NEW a \in Tabs, TabStep(a)
          PROVE  FALSE
      <3>1. CASE Load(a)
        <4>1. a = b /\ store'[b] = "loading" /\ started' = started \ {b}
          BY <2>1, <3>1 DEF Load
        <4> QED
          BY <4>1 DEF PagesHeld, PageHeld
      <3>2. CASE ClickProvider(a)
        BY <2>1, <3>2 DEF ClickProvider
      <3>3. CASE Mount(a) \/ ClickSignIn(a) \/ ClickSignOut(a)
        BY <3>3 DEF Mount, ClickSignIn, ClickSignOut
      <3> QED
        BY <2>2, <3>1, <3>2, <3>3 DEF TabStep
    <2>3. ASSUME NEW k \in Calls, NEW r, GoOn(k, r), request[k].tab # None,
                 request'[k].tab = None
          PROVE  \/ HeardBy(b, {"login", "logout"})
                 \/ HeardBy(b, {"refresh"}) /\ (store[b] = "loading" \/ b \in overtaken)
      <3>1. request[k].tab = b /\ request[k].kind # "provider"
        BY <2>1, <2>3 DEF GoOn, TypeOK
      <3>2. k \in Waiting(b) /\ request'[k] # request[k]
        BY <2>3, <3>1 DEF Waiting
      <3>3. request[k].kind \in {"refresh", "login", "logout"}
        BY <2>3, <3>1, NoRequestFields DEF TypeOK, Held, RequestHeld
      <3>4. request[k].kind = "refresh" => store[b] = "loading" \/ b \in overtaken
        BY <3>2 DEF PagesHeld, PageHeld
      <3> QED
        BY <3>2, <3>3, <3>4 DEF HeardBy
    <2>4. ASSUME NEW k \in Calls, Hear(k)
          PROVE  /\ GoOn(k, request[k].reply) /\ request[k].tab # None
                 /\ request'[k].tab = None
      BY <2>4, NoRequestFields DEF Hear, Held, RequestHeld, TypeOK
    <2>5. ASSUME NEW k \in Calls, Lose(k)
          PROVE  GoOn(k, None) /\ request[k].tab # None /\ request'[k].tab = None
      <3>1. request[k] \in Requests /\ request' = [request EXCEPT ![k] = Orphaned(request[k])]
        BY <2>5 DEF Lose, TypeOK, Requests
      <3> QED
        BY <2>5, <3>1, OrphanFacts DEF Lose, TypeOK
    <2>6. ASSUME NEW k \in Calls, Serve(k) \/ Arrive(k)
          PROVE  FALSE
      BY <2>6 DEF Serve, Arrive
    <2> QED
      BY <2>2, <2>3, <2>4, <2>5, <2>6 DEF Next, RequestStep
  <1> QED
    BY <1>1, Invariance, PTL DEF Spec, StaysAsLeft
-----------------------------------------------------------------------------
(* The dashboard over the API: its requests are requests of AuthAccounts.  *)

\* A request without a cookie is refused like one with a bad token.
LEMMA UnauthorizedStep ==
    ASSUME NEW k \in Calls, Api!Refuse(k, "unauthorized")
    PROVE  Api!Next
  <1>1. Api!WriteError(Api!TokenError(Api!ConsumePasswordReset)) = "unauthorized"
    BY DEF Api!WriteError, Api!TokenError, Api!ConsumePasswordReset, Api!ErrorIs, Api!Panics,
       Api!NilPointer
  <1>2. Api!ResetPassword(k)
    BY <1>1 DEF Api!ResetPassword
  <1> QED
    BY <1>2 DEF Api!Next, Api!RequestStep

\* A sign-out ends a session of the API, if there was one to end.
LEMMA LogoutApi ==
    ASSUME TypeOK, NEW k \in Calls, Logout(k)
    PROVE  Api!Next \/ UNCHANGED Api!vars
  <1>1. /\ UNCHANGED <<email, workspaces, holder, parent, pc, call, answer>>
        /\ live' = live \ {request[k].token} \/ live' = live
    BY DEF Logout, Revoked
  <1>2. request[k].token \in Tokens \cup {None}
    BY DEF TypeOK
  <1>3. CASE live' = live \ {request[k].token} /\ request[k].token \in live
    <2>1. request[k].token \in Tokens
      BY <1>3 DEF TypeOK
    <2>2. Api!EndSession(request[k].token)
      BY <1>1, <1>3 DEF Api!EndSession, Api!RevokeSessionByHash, Api!accountVars, Api!stateVars,
         Api!callVars
    <2> QED
      BY <2>1, <2>2 DEF Api!Next
  <1>4. CASE live' = live
    BY <1>1, <1>4 DEF Api!vars, Api!accountVars, Api!sessionVars, Api!stateVars, Api!callVars
  <1>5. request[k].token \notin live => live \ {request[k].token} = live
    OBVIOUS
  <1> QED
    BY <1>1, <1>3, <1>4, <1>5

\* What the API does for a request.
LEMMA ServeApi ==
    ASSUME TypeOK, NEW k \in Calls, Serve(k)
    PROVE  Api!Next \/ UNCHANGED Api!vars
  <1>1. CASE Refresh(k)
    <2>1. CASE request[k].token = None
      BY <1>1, <2>1, UnauthorizedStep DEF Refresh
    <2>2. CASE request[k].token # None
      <3>1. request[k].token \in Tokens
        BY <2>2 DEF TypeOK
      <3>2. Api!ReadSession(k, request[k].token)
        BY <1>1, <2>2 DEF Refresh
      <3> QED
        BY <3>1, <3>2 DEF Api!Next, Api!SessionStep
    <2> QED
      BY <2>1, <2>2
  <1>2. CASE Login(k)
    BY <1>2 DEF Login, Api!Next, Api!RequestStep
  <1>3. CASE Rotate(k)
    BY <1>3 DEF Rotate, Api!Next, Api!SessionStep
  <1>4. CASE Issue(k)
    <2>1. PICK t \in Tokens : Api!Issue(k, t)
      BY <1>4, AnyOfIn DEF Issue, FreshTokens
    <2> QED
      BY <2>1 DEF Api!Next, Api!SessionStep
  <1>5. CASE Cut(k)
    BY <1>5 DEF Cut, Api!Next, Api!RequestStep
  <1> QED
    BY <1>1, <1>2, <1>3, <1>4, <1>5, LogoutApi DEF Serve

\* The page and the network leave the API alone.
LEMMA PageLeavesApi ==
    ASSUME UNCHANGED apiVars
    PROVE  UNCHANGED Api!vars
  BY DEF apiVars, sessionVars, Api!vars, Api!accountVars, Api!sessionVars, Api!stateVars,
     Api!callVars

\* Whatever the tabs do and the network loses, the API takes only steps that
\* AuthAccounts has: its sign-ins, refreshes and sign-outs, and calls that are
\* cut short.
THEOREM StepsOfAccounts == Spec => [][Api!Next]_(Api!vars)
  <1>1. TypeOK /\ [Next]_vars => [Api!Next]_(Api!vars)
    <2> SUFFICES ASSUME TypeOK, [Next]_vars PROVE Api!Next \/ UNCHANGED Api!vars
      OBVIOUS
    <2>1. ASSUME NEW k \in Calls, Serve(k) PROVE Api!Next \/ UNCHANGED Api!vars
      BY <2>1, ServeApi
    <2>2. UNCHANGED apiVars \/ \E k \in Calls : Serve(k)
      BY DEF Next, TabStep, RequestStep, Load, Mount, ClickSignIn, ClickProvider, ClickSignOut,
         Arrive, Hear, Lose, vars
    <2> QED
      BY <2>1, <2>2, PageLeavesApi
  <1>2. IInv => TypeOK
    BY DEF IInv
  <1> QED
    BY <1>1, <1>2, Invariance, PTL DEF Spec
-----------------------------------------------------------------------------
(* What is proved of AuthAccounts holds of the API that the dashboard uses:*)
(* its accounts are those whose address is their name, all there from the  *)
(* start, and no identity and no state of a sign-in is among them.         *)

Accounts == INSTANCE AuthAccountsProofs
         WITH Existing <- Users, Emails <- Users, NoEmail <- "no address",
              ExistingEmail <- [u \in Users |-> u], Identities <- {},
              ProviderOf <- [i \in {} |-> None], ProfileEmail <- [i \in {} |-> None],
              Private <- {}, States <- {}, linked <- [i \in {} |-> None],
              state <- [s \in {} |-> None], accepted <- [s \in {} |-> 0]

\* The assumption of AuthAccounts, for the accounts of the dashboard.
LEMMA ApiConstants == Accounts!AuthConstants
  <1>1. \A S : [i \in {} |-> None] \in [{} -> S]
    OBVIOUS
  <1>2. {[i \in {} |-> None][j] : j \in {}} = {}
    OBVIOUS
  <1>3. [u \in Users |-> u] \in [Users -> Users]
    OBVIOUS
  <1> QED
    BY <1>1, <1>2, <1>3, NoAddress DEF Accounts!AuthConstants

\* The inductive invariant of AuthAccounts is kept
LEMMA ApiKeeps == Accounts!IInv /\ [Accounts!Next]_(Accounts!vars) => Accounts!IInv'
  BY ApiConstants, Accounts!NextIInv

\* and holds when the tabs are to be opened.
LEMMA ApiInit == Init => Accounts!IInv
  <1> SUFFICES ASSUME Init PROVE Accounts!IInv
    OBVIOUS
  <1>1. /\ email = [u \in Users |-> u] /\ workspaces = Users
        /\ holder \in [Tokens -> Users \cup {None}]
        /\ live \subseteq {t \in Tokens : holder[t] # None}
        /\ parent = [t \in Tokens |-> None]
        /\ pc = [k \in Calls |-> "idle"] /\ call = [k \in Calls |-> Accounts!NoCall]
        /\ answer = "none"
    BY AnyOfIn DEF Init, Api!NoCall, Api!Holding, Accounts!NoCall, Accounts!Holding
  <1>2. Accounts!TypeOK
    BY <1>1 DEF Accounts!TypeOK, Accounts!Holdings, Accounts!NoCall, Accounts!Holding,
       Accounts!Answers, Accounts!Addresses
  <1>3. Accounts!CallsHold
    BY <1>1 DEF Accounts!CallsHold, Accounts!CallHolds
  <1>4. Accounts!OneAccountPerEmail /\ Accounts!NoOrphanAccount
    BY <1>1 DEF Accounts!OneAccountPerEmail, Accounts!NoOrphanAccount
  <1>5. /\ Accounts!StateOnce /\ Accounts!StateUnspent
        /\ Accounts!ChildrenHeld /\ Accounts!ExchangedIsDead
    BY <1>1 DEF Accounts!StateOnce, Accounts!StateUnspent, Accounts!ChildrenHeld,
       Accounts!ExchangedIsDead
  <1> QED
    BY <1>2, <1>3, <1>4, <1>5 DEF Accounts!IInv

\* Of the two instances, an error is answered alike,
LEMMA SameErrors ==
    ASSUME NEW e
    PROVE  /\ Api!MapError(e) = Accounts!MapError(e)
           /\ Api!WriteError(e) = Accounts!WriteError(e)
           /\ Api!TokenError(e) = Accounts!TokenError(e)
  <1>1. Api!MapError(e) = Accounts!MapError(e)
    BY DEF Api!MapError, Accounts!MapError, Api!Panics, Accounts!Panics, Api!NilPointer,
       Accounts!NilPointer
  <1>2. Api!WriteError(e) = Accounts!WriteError(e)
    BY DEF Api!WriteError, Accounts!WriteError, Api!Panics, Accounts!Panics,
       Api!NilPointer, Accounts!NilPointer, Api!ErrorIs, Accounts!ErrorIs
  <1>3. Api!TokenError(e) = Accounts!TokenError(e)
    BY DEF Api!TokenError, Accounts!TokenError, Api!ErrorIs, Accounts!ErrorIs
  <1> QED
    BY <1>1, <1>2, <1>3

\* a request begins alike,
LEMMA SameBegin ==
    ASSUME NEW k, NEW stage, NEW c
    PROVE  Api!Begin(k, stage, c) = Accounts!Begin(k, stage, c)
  BY DEF Api!Begin, Accounts!Begin

\* or is refused alike,
LEMMA SameRefuse ==
    ASSUME NEW k, NEW how
    PROVE  Api!Refuse(k, how) = Accounts!Refuse(k, how)
  BY DEF Api!Refuse, Accounts!Refuse, Api!End, Accounts!End, Api!NoCall, Accounts!NoCall,
     Api!Holding, Accounts!Holding, Api!accountVars, Accounts!accountVars, Api!sessionVars,
     Accounts!sessionVars, Api!stateVars, Accounts!stateVars

\* and the accounts of an address are the same.
LEMMA SameEmails ==
    ASSUME NEW e
    PROVE  /\ Api!HasEmail(e) = Accounts!HasEmail(e)
           /\ Api!GetUserByEmail(e) = Accounts!GetUserByEmail(e)
  <1>1. Api!HasEmail(e) = Accounts!HasEmail(e)
    BY DEF Api!HasEmail, Accounts!HasEmail
  <1>2. Api!GetUserByEmail(e) = Accounts!GetUserByEmail(e)
    BY DEF Api!GetUserByEmail, Accounts!GetUserByEmail, Api!HasEmail, Accounts!HasEmail,
       Api!Nil, Accounts!Nil
  <1> QED
    BY <1>1, <1>2

\* Requests that are not a session's.
LEMMA SameRequests ==
    ASSUME NEW k, NEW e, NEW right
    PROVE  /\ Api!LoginErrors(e, right) = Accounts!LoginErrors(e, right)
           /\ Api!Login(k, e, right) => Accounts!Login(k, e, right)
           /\ Api!Register(k, e) => Accounts!Register(k, e)
           /\ Api!ForgotPassword(k, e) => Accounts!ForgotPassword(k, e)
           /\ Api!VerifyEmail(k) => Accounts!VerifyEmail(k)
           /\ Api!ResetPassword(k) => Accounts!ResetPassword(k)
           /\ Api!Abort(k) => Accounts!Abort(k)
  <1>1. Api!LoginErrors(e, right) = Accounts!LoginErrors(e, right)
    BY SameEmails DEF Api!LoginErrors, Accounts!LoginErrors, Api!GetPasswordHash,
       Accounts!GetPasswordHash, Api!Nil, Accounts!Nil
  <1>2. Api!Login(k, e, right) => Accounts!Login(k, e, right)
    BY <1>1, SameEmails, SameBegin, SameRefuse, SameErrors DEF Api!Login,
       Accounts!Login, Api!Holding, Accounts!Holding, Api!accountVars,
       Accounts!accountVars, Api!sessionVars, Accounts!sessionVars, Api!stateVars,
       Accounts!stateVars, Api!callVars, Accounts!callVars
  <1>3. Api!Register(k, e) => Accounts!Register(k, e)
    BY SameEmails, SameErrors, SameRefuse DEF Api!Register, Accounts!Register, Api!Nil,
       Accounts!Nil, Api!ErrorIs, Accounts!ErrorIs
  <1>4. Api!ForgotPassword(k, e) => Accounts!ForgotPassword(k, e)
    BY SameEmails, SameErrors, SameRefuse DEF Api!ForgotPassword,
       Accounts!ForgotPassword, Api!CreatePasswordReset, Accounts!CreatePasswordReset,
       Api!Nil, Accounts!Nil, Api!ErrorIs, Accounts!ErrorIs, Api!Wrap, Accounts!Wrap,
       Api!NilPointer, Accounts!NilPointer
  <1>5. Api!VerifyEmail(k) => Accounts!VerifyEmail(k)
    BY SameErrors, SameRefuse DEF Api!VerifyEmail, Accounts!VerifyEmail,
       Api!ConsumeEmailVerification, Accounts!ConsumeEmailVerification
  <1>6. Api!ResetPassword(k) => Accounts!ResetPassword(k)
    BY SameErrors, SameRefuse DEF Api!ResetPassword, Accounts!ResetPassword,
       Api!ConsumePasswordReset, Accounts!ConsumePasswordReset
  <1>7. Api!Abort(k) => Accounts!Abort(k)
    BY SameErrors DEF Api!Abort, Accounts!Abort, Api!End, Accounts!End, Api!NoCall,
       Accounts!NoCall, Api!Holding, Accounts!Holding, Api!accountVars,
       Accounts!accountVars, Api!sessionVars, Accounts!sessionVars, Api!stateVars,
       Accounts!stateVars, Api!callVars, Accounts!callVars
  <1> QED
    BY <1>1, <1>2, <1>3, <1>4, <1>5, <1>6, <1>7

\* Steps of a sign-in through a provider.
LEMMA SameSignIns ==
    ASSUME NEW k, NEW e, NEW u
    PROVE  /\ Api!ExchangeFails(k) => Accounts!ExchangeFails(k)
           /\ Api!FindIdentity(k, e) => Accounts!FindIdentity(k, e)
           /\ Api!MatchEmail(k) => Accounts!MatchEmail(k)
           /\ Api!LinkIdentity(k) => Accounts!LinkIdentity(k)
           /\ Api!CreateAccount(k, u) => Accounts!CreateAccount(k, u)
  <1>1. Api!ExchangeFails(k) => Accounts!ExchangeFails(k)
    BY SameErrors DEF Api!ExchangeFails, Accounts!ExchangeFails, Api!End, Accounts!End,
       Api!NoCall, Accounts!NoCall, Api!Holding, Accounts!Holding, Api!accountVars,
       Accounts!accountVars, Api!sessionVars, Accounts!sessionVars, Api!stateVars,
       Accounts!stateVars, Api!callVars, Accounts!callVars
  <1>2. Api!FindIdentity(k, e) => Accounts!FindIdentity(k, e)
    BY SameErrors DEF Api!FindIdentity, Accounts!FindIdentity, Api!GetUserByProvider,
       Accounts!GetUserByProvider, Api!Wrap, Accounts!Wrap, Api!Nil, Accounts!Nil,
       Api!NilPointer, Accounts!NilPointer, Api!Panics, Accounts!Panics, Api!IsNotFound,
       Accounts!IsNotFound, Api!CodeOf, Accounts!CodeOf, Api!AppCodes,
       Accounts!AppCodes, Api!ProfileEmails, Accounts!ProfileEmails, Api!Continue,
       Accounts!Continue, Api!End, Accounts!End, Api!NoCall, Accounts!NoCall,
       Api!Holding, Accounts!Holding, Api!accountVars, Accounts!accountVars,
       Api!sessionVars, Accounts!sessionVars, Api!stateVars, Accounts!stateVars,
       Api!callVars, Accounts!callVars
  <1>3. Api!MatchEmail(k) => Accounts!MatchEmail(k)
    BY SameEmails DEF Api!MatchEmail, Accounts!MatchEmail, Api!Continue,
       Accounts!Continue, Api!Match, Accounts!Match, Api!IsInvalidInput,
       Accounts!IsInvalidInput, Api!CodeOf, Accounts!CodeOf, Api!AppCodes,
       Accounts!AppCodes, Api!Nil, Accounts!Nil, Api!accountVars, Accounts!accountVars,
       Api!sessionVars, Accounts!sessionVars, Api!stateVars, Accounts!stateVars,
       Api!callVars, Accounts!callVars
  <1>4. Api!LinkIdentity(k) => Accounts!LinkIdentity(k)
    BY DEF Api!LinkIdentity, Accounts!LinkIdentity, Api!Continue, Accounts!Continue,
       Api!CreateOAuthProvider, Accounts!CreateOAuthProvider, Api!accountVars,
       Accounts!accountVars, Api!sessionVars, Accounts!sessionVars, Api!stateVars,
       Accounts!stateVars, Api!callVars, Accounts!callVars
  <1>5. Api!CreateAccount(k, u) => Accounts!CreateAccount(k, u)
    BY SameEmails DEF Api!CreateAccount, Accounts!CreateAccount, Api!CreateUser,
       Accounts!CreateUser, Api!EmailFree, Accounts!EmailFree, Api!Provision,
       Accounts!Provision, Api!CreateWorkspace, Accounts!CreateWorkspace, Api!Continue,
       Accounts!Continue, Api!Match, Accounts!Match, Api!CreateOAuthProvider,
       Accounts!CreateOAuthProvider, Api!accountVars, Accounts!accountVars,
       Api!sessionVars, Accounts!sessionVars, Api!stateVars, Accounts!stateVars,
       Api!callVars, Accounts!callVars
  <1> QED
    BY <1>1, <1>2, <1>3, <1>4, <1>5

\* Steps of sessions.
LEMMA SameSessions ==
    ASSUME NEW k, NEW t
    PROVE  /\ Api!Issue(k, t) => Accounts!Issue(k, t)
           /\ Api!ReadSession(k, t) => Accounts!ReadSession(k, t)
           /\ Api!RevokePresented(k) => Accounts!RevokePresented(k)
           /\ Api!EndSession(t) => Accounts!EndSession(t)
  <1>1. Api!Issue(k, t) => Accounts!Issue(k, t)
    BY DEF Api!Issue, Accounts!Issue, Api!End, Accounts!End, Api!CreateSession,
       Accounts!CreateSession, Api!GetPrimaryWorkspace, Accounts!GetPrimaryWorkspace,
       Api!Nil, Accounts!Nil, Api!NoCall, Accounts!NoCall, Api!Holding,
       Accounts!Holding, Api!accountVars, Accounts!accountVars, Api!sessionVars,
       Accounts!sessionVars, Api!stateVars, Accounts!stateVars, Api!callVars,
       Accounts!callVars
  <1>2. Api!ReadSession(k, t) => Accounts!ReadSession(k, t)
    BY SameBegin, SameRefuse, SameErrors DEF Api!ReadSession, Accounts!ReadSession,
       Api!GetActiveSessionByHash, Accounts!GetActiveSessionByHash, Api!ErrorIs,
       Accounts!ErrorIs, Api!Holding, Accounts!Holding, Api!Nil, Accounts!Nil,
       Api!accountVars, Accounts!accountVars, Api!sessionVars, Accounts!sessionVars,
       Api!stateVars, Accounts!stateVars, Api!callVars, Accounts!callVars
  <1>3. Api!RevokePresented(k) => Accounts!RevokePresented(k)
    BY DEF Api!RevokePresented, Accounts!RevokePresented, Api!Continue,
       Accounts!Continue, Api!RevokeSessionByHash, Accounts!RevokeSessionByHash,
       Api!accountVars, Accounts!accountVars, Api!sessionVars, Accounts!sessionVars,
       Api!stateVars, Accounts!stateVars, Api!callVars, Accounts!callVars
  <1>4. Api!EndSession(t) => Accounts!EndSession(t)
    BY DEF Api!EndSession, Accounts!EndSession, Api!RevokeSessionByHash,
       Accounts!RevokeSessionByHash, Api!accountVars, Accounts!accountVars,
       Api!sessionVars, Accounts!sessionVars, Api!stateVars, Accounts!stateVars,
       Api!callVars, Accounts!callVars
  <1> QED
    BY <1>1, <1>2, <1>3, <1>4

\* Api and Accounts are two instances of one module: their steps are the same.
LEMMA SameApi == [Api!Next]_(Api!vars) => [Accounts!Next]_(Accounts!vars)
  <1>1. UNCHANGED Api!vars => UNCHANGED Accounts!vars
    BY DEF Api!vars, Accounts!vars, Api!accountVars, Accounts!accountVars,
       Api!sessionVars, Accounts!sessionVars, Api!stateVars, Accounts!stateVars,
       Api!callVars, Accounts!callVars
  <1>2. ASSUME NEW k \in Calls, Api!RequestStep(k) PROVE Accounts!RequestStep(k)
    BY <1>2, SameRequests DEF Api!RequestStep, Accounts!RequestStep
  <1>3. ASSUME NEW k \in Calls, Api!SignInStep(k) PROVE Accounts!SignInStep(k)
    BY <1>3, SameSignIns DEF Api!SignInStep, Accounts!SignInStep, Api!Addresses,
       Accounts!Addresses
  <1>4. ASSUME NEW k \in Calls, Api!SessionStep(k) PROVE Accounts!SessionStep(k)
    BY <1>4, SameSessions DEF Api!SessionStep, Accounts!SessionStep
  <1>5. Api!Next => Accounts!Next
    BY <1>2, <1>3, <1>4, SameSessions DEF Api!Next, Accounts!Next
  <1> QED
    BY <1>1, <1>5

\* However the tabs race and whatever the network loses, a refresh token that was
\* exchanged is dead, and stays with the user of the one it was exchanged for
\* (Refresh of the API, under the tabs that share one cookie).
THEOREM SessionsOfDashboard == Spec => []Api!ExchangedIsDead
  <1>1. Accounts!IInv /\ [Api!Next]_(Api!vars) => Accounts!IInv'
    BY SameApi, ApiKeeps
  <1>2. Accounts!IInv => Api!ExchangedIsDead
    BY DEF Accounts!IInv, Accounts!ExchangedIsDead, Api!ExchangedIsDead
  <1> QED
    BY <1>1, <1>2, ApiInit, StepsOfAccounts, PTL DEF Spec
=============================================================================
