---------------------------- MODULE ClusterForward ----------------------------
(***************************************************************************)
(* A public request in a cluster of gateway instances: handlePublic on the *)
(* instance the load balancer chose, forwardRemote and deliverReply over   *)
(* Redis pub/sub, runCluster and handleClusterRequest on the instance the  *)
(* route names.                                                            *)
(*                                                                         *)
(* Which instance has the connection, and which one the route names, are   *)
(* read from state that changes at any time (TunnelRegistry), so a lookup  *)
(* may give any answer.  What serveLocally does with a connection is what  *)
(* TunnelForward shows it to do: the application runs the request at most  *)
(* once, and the answer is its response or a failure; an answer the agent  *)
(* gave, a failure of its own included, is saved by a capture goroutine    *)
(* that nobody waits for.  Time is abstract: a timer may fire in any state *)
(* in which it is armed.                                                   *)
(***************************************************************************)
EXTENDS Integers

CONSTANTS
    Requests,   \* the public HTTP requests
    Instances,  \* the gateway processes
    None,
    Failed      \* a 502

ASSUME ClusterConstants ==
    /\ {None, Failed} \cap Requests = {}
    /\ None \notin Instances
    /\ None # Failed

VARIABLES
    pc,         \* pc[r]: where the goroutine serving r's client stands
    at,         \* at[r]: the instance r arrived at
    id,         \* id[r]: the id of r's clusterRequest, 0 before it is minted
    minted,     \* cluster ids minted so far, by all instances
    pending,    \* the Registry.pending maps: [at, id, req]
    chan,       \* chan[r]: r's reply channel (capacity 1)
    result,     \* result[r]: what r's client was answered with
    rpc,        \* published clusterRequests under way: [to, id, origin, req]
    serving,    \* running handleClusterRequest goroutines: [at, id, origin, req]
    replies,    \* published clusterResponses under way: [to, id, body]
    sent,       \* sent[r]: times r was handed to an agent connection
    executed,   \* executed[r]: times the local application ran r
    started,    \* started[r]: captures of r that were started
    saving,     \* running capture goroutines: [at, req, nth]
    stored,     \* stored[r]: rows that record r
    alive,      \* the instances that run
    listening   \* those that have subscribed to their channels

callVars == <<pc, at, id, minted, pending, chan, result>>
netVars  == <<rpc, serving, replies>>
recVars  == <<started, saving, stored>>
appVars  == <<sent, executed, recVars>>
instVars == <<alive, listening>>
vars == <<callVars, netVars, appVars, instVars>>

Bodies == Requests \cup {Failed}
Remote == {"publishing", "waiting"}

Init ==
    /\ pc = [r \in Requests |-> "idle"]
    /\ at = [r \in Requests |-> None]
    /\ id = [r \in Requests |-> 0]
    /\ minted = 0
    /\ pending = {}
    /\ chan = [r \in Requests |-> None]
    /\ result = [r \in Requests |-> None]
    /\ rpc = {}
    /\ serving = {}
    /\ replies = {}
    /\ sent = [r \in Requests |-> 0]
    /\ executed = [r \in Requests |-> 0]
    /\ started = [r \in Requests |-> 0]
    /\ saving = {}
    /\ stored = [r \in Requests |-> 0]
    /\ alive = Instances
    /\ listening = {}
-----------------------------------------------------------------------------
(* The instance the request arrived at                                     *)

\* localLookup finds a connection: serveLocally, its request written.
ServeHere(r, i) ==
    /\ pc[r] = "idle"
    /\ i \in alive
    /\ pc' = [pc EXCEPT ![r] = "local"]
    /\ at' = [at EXCEPT ![r] = i]
    /\ sent' = [sent EXCEPT ![r] = @ + 1]
    /\ UNCHANGED <<id, minted, pending, chan, result, netVars,
                   executed, recVars, instVars>>

\* localLookup finds nothing; ownerInstance has to be asked.
Miss(r, i) ==
    /\ pc[r] = "idle"
    /\ i \in alive
    /\ pc' = [pc EXCEPT ![r] = "routing"]
    /\ at' = [at EXCEPT ![r] = i]
    /\ UNCHANGED <<id, minted, pending, chan, result, netVars, appVars, instVars>>

Answer(r, body) ==
    /\ result' = [result EXCEPT ![r] = body]
    /\ pc' = [pc EXCEPT ![r] = "done"]

\* No route, or Redis does not answer.
NoRoute(r) ==
    /\ pc[r] = "routing"
    /\ Answer(r, Failed)
    /\ UNCHANGED <<at, id, minted, pending, chan, netVars, appVars, instVars>>

\* uuid.NewString: an id no call of any instance ever had.
NewId == minted + 1

\* forwardRemote stores its channel before it publishes.
StoreRemote(r) ==
    /\ pc[r] = "routing"
    /\ minted' = minted + 1
    /\ id' = [id EXCEPT ![r] = NewId]
    /\ pending' = pending \cup {[at |-> at[r], id |-> NewId, req |-> r]}
    /\ pc' = [pc EXCEPT ![r] = "publishing"]
    /\ UNCHANGED <<at, chan, result, netVars, appVars, instVars>>

\* The clusterRequest of r to the owner the route names, itself included.
RpcTo(r, owner) == [to |-> owner, id |-> id[r], origin |-> at[r], req |-> r]

\* PUBLISH succeeds even when nobody has subscribed to the channel.
Publish(r, owner) ==
    /\ pc[r] = "publishing"
    /\ rpc' = IF owner \in listening THEN rpc \cup {RpcTo(r, owner)} ELSE rpc
    /\ pc' = [pc EXCEPT ![r] = "waiting"]
    /\ UNCHANGED <<at, id, minted, pending, chan, result, serving, replies,
                   appVars, instVars>>

\* Mutant of Forget: the deferred Delete is missing.
BugEntryKept(r) == pending

Forget(r) == {e \in pending : e.req # r}

PublishFails(r) ==
    /\ pc[r] = "publishing"
    /\ Answer(r, Failed)
    /\ pending' = Forget(r)
    /\ UNCHANGED <<at, id, minted, chan, netVars, appVars, instVars>>

\* Mutant of TakeReply: the reply's error is not looked at, and its missing
\* response passes for the application's.
BugErrorIgnored(r) ==
    /\ pc[r] = "waiting"
    /\ chan[r] # None
    /\ Answer(r, r)
    /\ pending' = Forget(r)
    /\ UNCHANGED <<at, id, minted, chan, netVars, appVars, instVars>>

\* Mutant of TakeReply: handlePublic captures what a peer has captured already.
BugCapturedAgain(r) ==
    /\ pc[r] = "waiting"
    /\ chan[r] # None
    /\ Answer(r, chan[r])
    /\ pending' = Forget(r)
    /\ started' = [started EXCEPT ![r] = @ + 1]
    /\ saving' = saving \cup {[at |-> at[r], req |-> r, nth |-> started'[r]]}
    /\ UNCHANGED <<at, id, minted, chan, netVars, sent, executed, stored, instVars>>

\* select: the reply is there; its error, if it is one, becomes a 502.
TakeReply(r) ==
    /\ pc[r] = "waiting"
    /\ chan[r] # None
    /\ Answer(r, chan[r])
    /\ pending' = Forget(r)
    /\ UNCHANGED <<at, id, minted, chan, netVars, appVars, instVars>>

\* select: 30s have passed, or the client has gone.
Timeout(r) ==
    /\ pc[r] = "waiting"
    /\ Answer(r, Failed)
    /\ pending' = Forget(r)
    /\ UNCHANGED <<at, id, minted, chan, netVars, appVars, instVars>>

\* capture starts a goroutine of instance i and does not wait for it.
StartCapture(r, i) ==
    /\ started' = [started EXCEPT ![r] = @ + 1]
    /\ saving' = saving \cup {[at |-> i, req |-> r, nth |-> started'[r]]}
    /\ UNCHANGED stored

\* serveLocally returns the application's response and has a capture started.
LocalAnswer(r) ==
    /\ pc[r] = "local"
    /\ executed[r] > 0
    /\ Answer(r, r)
    /\ StartCapture(r, at[r])
    /\ UNCHANGED <<at, id, minted, pending, chan, netVars, sent, executed, instVars>>

\* forward failed, or it was the agent that failed: its 502 is captured.
LocalFails(r) ==
    /\ pc[r] = "local"
    /\ Answer(r, Failed)
    /\ StartCapture(r, at[r]) \/ UNCHANGED recVars
    /\ UNCHANGED <<at, id, minted, pending, chan, netVars, sent, executed, instVars>>
-----------------------------------------------------------------------------
(* The instance the route names                                            *)

\* runCluster starts a goroutine for the clusterRequest, which finds the
\* connection here and hands it the request.
Accept(m) ==
    /\ m \in rpc
    /\ m.to \in listening
    /\ rpc' = rpc \ {m}
    /\ serving' = serving \cup
          {[at |-> m.to, id |-> m.id, origin |-> m.origin, req |-> m.req]}
    /\ sent' = [sent EXCEPT ![m.req] = @ + 1]
    /\ UNCHANGED <<callVars, replies, executed, recVars, instVars>>

\* A clusterResponse reaches nobody when its origin does not listen.
ReplyTo(m, body) ==
    IF m.origin \in listening
    THEN replies \cup {[to |-> m.origin, id |-> m.id, body |-> body]}
    ELSE replies

\* The connection is not here any more: an error, never another hop.
RejectStale(m) ==
    /\ m \in rpc
    /\ m.to \in listening
    /\ rpc' = rpc \ {m}
    /\ replies' = ReplyTo(m, Failed)
    /\ UNCHANGED <<callVars, serving, appVars, instVars>>

\* serveLocally returns with a capture started; then the reply is published, or
\* PUBLISH fails.
ReplyOk(h) ==
    /\ h \in serving
    /\ executed[h.req] > 0
    /\ serving' = serving \ {h}
    /\ StartCapture(h.req, h.at)
    /\ replies' \in {ReplyTo(h, h.req), replies}
    /\ UNCHANGED <<callVars, rpc, sent, executed, instVars>>

ReplyFailed(h) ==
    /\ h \in serving
    /\ serving' = serving \ {h}
    /\ StartCapture(h.req, h.at) \/ UNCHANGED recVars
    /\ replies' \in {ReplyTo(h, Failed), replies}
    /\ UNCHANGED <<callVars, rpc, sent, executed, instVars>>

\* A capture goroutine ends: a row is stored, or only a warning logged (the
\* store is down, 5s have passed).
SaveCapture(g) ==
    /\ g \in saving
    /\ saving' = saving \ {g}
    /\ stored' \in {stored, [stored EXCEPT ![g.req] = @ + 1]}
    /\ UNCHANGED <<callVars, netVars, sent, executed, started, instVars>>

\* The application runs a request it was sent, even after it was given up.
AppRuns(r) ==
    /\ executed[r] < sent[r]
    /\ executed' = [executed EXCEPT ![r] = @ + 1]
    /\ UNCHANGED <<callVars, netVars, sent, recVars, instVars>>
-----------------------------------------------------------------------------
(* Replies, Redis and the instances                                        *)

\* deliverReply: the reply goes to the call that waits for its id here.
DeliverReply(m) ==
    /\ m \in replies
    /\ m.to \in listening
    /\ replies' = replies \ {m}
    /\ chan' = [r \in Requests |->
                   IF chan[r] = None /\ [at |-> m.to, id |-> m.id, req |-> r] \in pending
                   THEN m.body ELSE chan[r]]
    /\ UNCHANGED <<pc, at, id, minted, pending, result, rpc, serving, appVars, instVars>>

\* Pub/sub delivers at most once: a reconnecting subscriber misses messages.
Lose ==
    /\ \/ \E m \in rpc : rpc' = rpc \ {m} /\ UNCHANGED replies
       \/ \E m \in replies : replies' = replies \ {m} /\ UNCHANGED rpc
    /\ UNCHANGED <<callVars, serving, appVars, instVars>>

\* runCluster's subscription is in place; requests are served before it is.
Subscribe(i) ==
    /\ i \in alive
    /\ listening' = listening \cup {i}
    /\ UNCHANGED <<callVars, netVars, appVars, alive>>

\* The process ends with its goroutines, captures included; its clients'
\* connections break.
Stop(i) ==
    LET lost == {r \in Requests : at[r] = i /\ pc[r] # "done"}
    IN  /\ i \in alive
        /\ alive' = alive \ {i}
        /\ listening' = listening \ {i}
        /\ pc' = [r \in Requests |-> IF r \in lost THEN "done" ELSE pc[r]]
        /\ result' = [r \in Requests |-> IF r \in lost THEN Failed ELSE result[r]]
        /\ pending' = {e \in pending : e.at # i}
        /\ serving' = {h \in serving : h.at # i}
        /\ saving' = {g \in saving : g.at # i}
        /\ UNCHANGED <<at, id, minted, chan, rpc, replies, sent, executed, started, stored>>
-----------------------------------------------------------------------------
CallStep(r) ==
    \/ \E i \in Instances : ServeHere(r, i) \/ Miss(r, i) \/ Publish(r, i)
    \/ NoRoute(r) \/ StoreRemote(r) \/ PublishFails(r) \/ TakeReply(r) \/ Timeout(r)
    \/ LocalAnswer(r) \/ LocalFails(r) \/ AppRuns(r)

OwnerStep ==
    \/ \E m \in rpc : Accept(m) \/ RejectStale(m)
    \/ \E h \in serving : ReplyOk(h) \/ ReplyFailed(h)
    \/ \E g \in saving : SaveCapture(g)
    \/ \E m \in replies : DeliverReply(m)

Next ==
    \/ \E r \in Requests : CallStep(r)
    \/ OwnerStep
    \/ Lose
    \/ \E i \in Instances : Subscribe(i) \/ Stop(i)

\* The goroutine of a request goes on, and both its 30s timers fire (the one
\* in forwardRemote, and serveLocally's: LocalFails).  Nothing is assumed of
\* Redis, of peers or of the application.
Fairness ==
    \A r \in Requests :
        /\ WF_vars(NoRoute(r) \/ StoreRemote(r))
        /\ WF_vars(PublishFails(r) \/ \E i \in Instances : Publish(r, i))
        /\ WF_vars(TakeReply(r) \/ Timeout(r))
        /\ WF_vars(LocalAnswer(r) \/ LocalFails(r))

Spec == Init /\ [][Next]_vars /\ Fairness
-----------------------------------------------------------------------------
(* Properties                                                              *)

TypeOK ==
    /\ pc \in [Requests -> {"idle", "local", "routing", "done"} \cup Remote]
    /\ at \in [Requests -> Instances \cup {None}]
    /\ minted \in Nat
    /\ id \in [Requests -> 0..minted]
    /\ pending \subseteq [at : Instances, id : 1..minted, req : Requests]
    /\ chan \in [Requests -> Bodies \cup {None}]
    /\ result \in [Requests -> Bodies \cup {None}]
    /\ rpc \subseteq [to : Instances, id : 1..minted, origin : Instances, req : Requests]
    /\ serving \subseteq [at : Instances, id : 1..minted, origin : Instances, req : Requests]
    /\ replies \subseteq [to : Instances, id : 1..minted, body : Bodies]
    /\ sent \in [Requests -> Nat]
    /\ executed \in [Requests -> Nat]
    /\ started \in [Requests -> Nat]
    /\ saving \subseteq [at : Instances, req : Requests, nth : Nat]
    /\ stored \in [Requests -> Nat]
    /\ listening \subseteq alive
    /\ alive \subseteq Instances

\* Each instance's pending map holds exactly its own calls in forwardRemote,
\* so that a reply finds its call however late or on whichever instance.
PendingExact ==
    /\ TypeOK
    /\ \A e \in pending : pc[e.req] \in Remote /\ e.at = at[e.req] /\ e.id = id[e.req]
    /\ \A r \in Requests : pc[r] \in Remote => \E e \in pending : e.req = r

\* An exchange is captured by one instance only, the one that has the agent: a
\* client that received the application's response had its capture started, and
\* no request leaves two rows, however it was routed, given up or repeated on
\* the way (the row itself may be missing: a capture fails, or dies with its
\* instance, without the client learning of it).
CapturedOnce ==
    \A r \in Requests :
        /\ result[r] = r => started[r] = 1
        /\ stored[r] <= started[r] /\ started[r] <= 1

\* The cluster keeps the promise of a single tunnel: one answer per request,
\* its own or a failure, one execution at most, whatever Redis loses.
Promise == INSTANCE TunnelPromise WITH
    asked <- {r \in Requests : pc[r] # "idle"},
    outcome <- result

KeepsPromise == Promise!Spec
=============================================================================
