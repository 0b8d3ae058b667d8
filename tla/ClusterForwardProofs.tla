------------------------ MODULE ClusterForwardProofs ------------------------
(***************************************************************************)
(* For any number of requests and gateway instances: each pending map      *)
(* holds exactly its instance's own calls, an answer finds only the call   *)
(* it belongs to, an exchange is captured once, and the cluster keeps the  *)
(* promise of a single tunnel step by step, whatever Redis loses and       *)
(* whoever stops.                                                          *)
(***************************************************************************)
EXTENDS ClusterForward, TLAPS

\* A request arrives at one instance, and has its outcome when its goroutine
\* is done.
Arrived ==
    \A r \in Requests :
        /\ pc[r] = "idle" <=> at[r] = None
        /\ pc[r] = "done" <=> result[r] # None

\* A cluster id names one call: 0 until forwardRemote mints it, then unique.
IdsUnique ==
    /\ \A r \in Requests : pc[r] \in {"idle", "local", "routing"} => id[r] = 0
    /\ \A q, r \in Requests : id[q] = id[r] => q = r \/ id[q] = 0

\* The request may have been handed to an agent connection, or may still be.
Handed(r) == pc[r] \in {"local", "waiting", "done"}

\* A request is handed over once: by the one message that asks for it, or by
\* the instance it arrived at.
HandedOnce ==
    /\ \A r \in Requests :
          /\ sent[r] \in {0, 1} /\ (sent[r] = 1 => Handed(r))
          /\ executed[r] <= sent[r]
    /\ \A m \in rpc : /\ m.id = id[m.req]
                      /\ Handed(m.req) /\ sent[m.req] = 0
                      /\ \A n \in rpc : n.req = m.req => n = m
    /\ \A h \in serving : h.id = id[h.req]

\* A handed request has one goroutine that serves it, here or at the peer, and
\* that goroutine starts its one capture, as the last thing it does before it
\* answers.
CapturesOwned ==
    /\ \A r \in Requests :
          /\ started[r] \in {0, 1} /\ stored[r] <= started[r]
          /\ started[r] = 1 => sent[r] = 1 /\ pc[r] # "local"
          /\ pc[r] = "local" => sent[r] = 1
    /\ \A h \in serving : /\ sent[h.req] = 1 /\ pc[h.req] # "local"
                           /\ started[h.req] = 0
                           /\ \A k \in serving : k.req = h.req => k = h
    /\ \A g \in saving : /\ started[g.req] = 1 /\ stored[g.req] = 0
                          /\ \A k \in saving : k.req = g.req => k = g

\* The application ran r and its capture was started.
Served(r) == executed[r] = 1 /\ started[r] > 0

\* An application's answer travels under the id of its own request, and only
\* once that request is served.
AnswersServed ==
    /\ \A m \in replies : m.body \in Requests => m.id = id[m.body] /\ Served(m.body)
    /\ \A r \in Requests : chan[r] \in {None, Failed} \/ (chan[r] = r /\ Served(r))
    /\ \A r \in Requests : result[r] \in {None, Failed} \/ (result[r] = r /\ Served(r))

IInv ==
    /\ PendingExact
    /\ Arrived
    /\ IdsUnique
    /\ HandedOnce
    /\ CapturesOwned
    /\ AnswersServed
-----------------------------------------------------------------------------
\* The initial state has it all.
LEMMA IInvInit == Init => IInv
  <1> SUFFICES ASSUME Init
               PROVE  IInv
    OBVIOUS
  <1> USE ClusterConstants DEF Init
  <1>1. TypeOK
    BY DEF TypeOK, Remote
  <1>2. PendingExact
    BY <1>1 DEF PendingExact, Remote
  <1>3. Arrived /\ IdsUnique /\ HandedOnce /\ CapturesOwned /\ AnswersServed
    BY DEF Arrived, IdsUnique, HandedOnce, CapturesOwned, AnswersServed
  <1> QED
    BY <1>2, <1>3 DEF IInv

\* A call inside forwardRemote has its id and its instance.
LEMMA RemoteHasId ==
    ASSUME PendingExact, NEW r \in Requests, pc[r] \in Remote
    PROVE  /\ id[r] \in 1..minted /\ at[r] \in Instances
           /\ [at |-> at[r], id |-> id[r], req |-> r] \in pending
  <1>1. PICK e \in pending : e.req = r
    BY DEF PendingExact
  <1>2. /\ e \in [at : Instances, id : 1..minted, req : Requests]
        /\ e.at = at[r] /\ e.id = id[r]
    BY <1>1 DEF PendingExact, TypeOK
  <1>3. e = [at |-> at[r], id |-> id[r], req |-> r]
    BY <1>1, <1>2
  <1> QED
    BY <1>2, <1>3

\* A capture that is started keeps the types of what records captures.
LEMMA CaptureTypes ==
    ASSUME TypeOK, NEW r \in Requests, NEW i \in Instances,
           StartCapture(r, i) \/ UNCHANGED recVars
    PROVE  /\ started' \in [Requests -> Nat]
           /\ saving' \subseteq [at : Instances, req : Requests, nth : Nat]
           /\ stored' \in [Requests -> Nat]
  <1>1. CASE StartCapture(r, i)
    <2>1. /\ started' = [started EXCEPT ![r] = started[r] + 1]
          /\ started' \in [Requests -> Nat]
      BY <1>1 DEF StartCapture, TypeOK
    <2>2. [at |-> i, req |-> r, nth |-> started'[r]] \in [at : Instances, req : Requests, nth : Nat]
      BY <2>1
    <2> QED
      BY <1>1, <2>1, <2>2 DEF StartCapture, TypeOK
  <1>2. CASE UNCHANGED recVars
    BY <1>2 DEF recVars, TypeOK
  <1> QED
    BY <1>1, <1>2

\* The goroutine of a request keeps the types.
LEMMA CallTypeStep ==
    ASSUME PendingExact, Arrived, NEW r \in Requests, CallStep(r)
    PROVE  TypeOK'
  <1> USE ClusterConstants DEF TypeOK, Bodies, Remote, netVars, appVars, recVars, instVars, callVars
  <1>0. TypeOK
    BY DEF PendingExact
  <1>1. ASSUME NEW i \in Instances, ServeHere(r, i) \/ Miss(r, i)
        PROVE  TypeOK'
    BY <1>0, <1>1 DEF ServeHere, Miss
  <1>2. ASSUME NEW i \in Instances, Publish(r, i)
        PROVE  TypeOK'
    <2>1. RpcTo(r, i) \in [to : Instances, id : 1..minted, origin : Instances, req : Requests]
      BY <1>2, RemoteHasId DEF Publish, RpcTo
    <2> QED
      BY <1>0, <1>2, <2>1 DEF Publish
  <1>3. CASE StoreRemote(r)
    <2>1. minted' = minted + 1 /\ minted' \in Nat /\ 1..minted \subseteq 1..minted'
      BY <1>0, <1>3 DEF StoreRemote
    <2>2. id' \in [Requests -> 0..minted']
      BY <1>0, <1>3, <2>1 DEF StoreRemote, NewId
    <2>3. pending' \subseteq [at : Instances, id : 1..minted', req : Requests]
      <3>1. at[r] \in Instances
        BY <1>0, <1>3 DEF StoreRemote, Arrived
      <3>2. [at |-> at[r], id |-> minted + 1, req |-> r]
               \in [at : Instances, id : 1..minted', req : Requests]
        BY <1>0, <2>1, <3>1
      <3> QED
        BY <1>0, <1>3, <2>1, <3>2 DEF StoreRemote, NewId
    <2>4. /\ rpc' \subseteq [to : Instances, id : 1..minted', origin : Instances, req : Requests]
          /\ serving' \subseteq [at : Instances, id : 1..minted', origin : Instances, req : Requests]
          /\ replies' \subseteq [to : Instances, id : 1..minted', body : Bodies]
      BY <1>0, <1>3, <2>1 DEF StoreRemote
    <2> QED
      BY <1>0, <1>3, <2>1, <2>2, <2>3, <2>4 DEF StoreRemote
  <1>4. CASE NoRoute(r)
    BY <1>0, <1>4 DEF NoRoute, Answer
  <1>5. CASE PublishFails(r) \/ TakeReply(r) \/ Timeout(r)
    BY <1>0, <1>5 DEF PublishFails, TakeReply, Timeout, Answer, Forget
  <1>6. CASE LocalAnswer(r) \/ LocalFails(r)
    <2>1. at[r] \in Instances
      BY <1>0, <1>6 DEF LocalAnswer, LocalFails, Arrived
    <2>2. \/ StartCapture(r, at[r])
          \/ UNCHANGED recVars
      BY <1>6 DEF LocalAnswer, LocalFails
    <2>3. /\ started' \in [Requests -> Nat]
          /\ saving' \subseteq [at : Instances, req : Requests, nth : Nat]
          /\ stored' \in [Requests -> Nat]
      BY <1>0, <2>1, <2>2, CaptureTypes
    <2> QED
      BY <1>0, <1>6, <2>3 DEF LocalAnswer, LocalFails, Answer
  <1>7. CASE AppRuns(r)
    BY <1>0, <1>7 DEF AppRuns
  <1> QED
    BY <1>1, <1>2, <1>3, <1>4, <1>5, <1>6, <1>7 DEF CallStep

\* Messages, peers and processes keep the types.
LEMMA WorldTypeStep ==
    ASSUME TypeOK, OwnerStep \/ Lose \/ \E i \in Instances : Subscribe(i) \/ Stop(i)
    PROVE  TypeOK'
  <1> USE ClusterConstants DEF TypeOK, Bodies, Remote, netVars, appVars, recVars, instVars, callVars
  <1>1. ASSUME NEW m \in rpc, Accept(m)
        PROVE  TypeOK'
    <2>1. m \in [to : Instances, id : 1..minted, origin : Instances, req : Requests]
      OBVIOUS
    <2> QED
      BY <1>1, <2>1 DEF Accept
  <1>2. ASSUME NEW m \in rpc, RejectStale(m)
        PROVE  TypeOK'
    <2>1. ReplyTo(m, Failed) \subseteq [to : Instances, id : 1..minted, body : Bodies]
      BY DEF ReplyTo
    <2> QED
      BY <1>2, <2>1 DEF RejectStale
  <1>3. ASSUME NEW h \in serving, ReplyOk(h) \/ ReplyFailed(h)
        PROVE  TypeOK'
    <2>1. h.req \in Requests
      OBVIOUS
    <2>2. \A body \in Bodies :
             ReplyTo(h, body) \subseteq [to : Instances, id : 1..minted, body : Bodies]
      BY DEF ReplyTo
    <2>3. h.at \in Instances /\ (StartCapture(h.req, h.at) \/ UNCHANGED recVars)
      BY <1>3 DEF ReplyOk, ReplyFailed
    <2>4. /\ started' \in [Requests -> Nat]
          /\ saving' \subseteq [at : Instances, req : Requests, nth : Nat]
          /\ stored' \in [Requests -> Nat]
      BY <2>1, <2>3, CaptureTypes
    <2> QED
      BY <1>3, <2>1, <2>2, <2>4 DEF ReplyOk, ReplyFailed
  <1>4. ASSUME NEW m \in replies, DeliverReply(m)
        PROVE  TypeOK'
    <2>1. m.body \in Bodies
      OBVIOUS
    <2> QED
      BY <1>4, <2>1 DEF DeliverReply
  <1>5. CASE Lose
    BY <1>5 DEF Lose
  <1>6. ASSUME NEW i \in Instances, Subscribe(i) \/ Stop(i)
        PROVE  TypeOK'
    BY <1>6 DEF Subscribe, Stop
  <1>7. ASSUME NEW g \in saving, SaveCapture(g)
        PROVE  TypeOK'
    BY <1>7 DEF SaveCapture
  <1> QED
    BY <1>1, <1>2, <1>3, <1>4, <1>5, <1>6, <1>7 DEF OwnerStep
-----------------------------------------------------------------------------
(* Calls and their entries.                                                *)

\* The goroutine of a request changes the state of no other request.
LEMMA CallFrame ==
    ASSUME TypeOK, NEW r \in Requests, CallStep(r)
    PROVE  /\ \A q \in Requests \ {r} : /\ pc'[q] = pc[q] /\ at'[q] = at[q] /\ id'[q] = id[q]
                                        /\ result'[q] = result[q]
                                        /\ sent'[q] = sent[q] /\ executed'[q] = executed[q]
           /\ chan' = chan /\ replies' = replies /\ serving' = serving
           /\ UNCHANGED instVars
           /\ stored' = stored
           /\ LocalAnswer(r) \/ LocalFails(r) \/ UNCHANGED <<started, saving>>
           /\ ~StoreRemote(r) => id' = id
           /\ (\A i \in Instances : ~Publish(r, i)) => rpc' = rpc
  BY DEF CallStep, ServeHere, Miss, Publish, NoRoute, StoreRemote, PublishFails, TakeReply,
     Timeout, LocalAnswer, LocalFails, StartCapture, AppRuns, Answer, TypeOK, netVars, appVars,
     recVars, instVars, callVars

\* A call enters its instance's pending map under a new id and leaves it with
\* forwardRemote.
LEMMA CallPendingStep ==
    ASSUME PendingExact, Arrived, IdsUnique, NEW r \in Requests, CallStep(r)
    PROVE  PendingExact' /\ Arrived' /\ IdsUnique'
  <1> USE ClusterConstants DEF Remote, callVars, netVars, appVars, recVars, instVars
  <1>0. TypeOK /\ TypeOK'
    BY CallTypeStep DEF PendingExact
  <1>1. /\ \A q \in Requests \ {r} : /\ pc'[q] = pc[q] /\ at'[q] = at[q] /\ id'[q] = id[q]
                                     /\ result'[q] = result[q]
        /\ ~StoreRemote(r) => id' = id
    BY <1>0, CallFrame
  <1>2. Arrived'
    <2>1. /\ pc'[r] = "idle" <=> at'[r] = None
          /\ pc'[r] = "done" <=> result'[r] # None
      BY <1>0 DEF CallStep, ServeHere, Miss, Publish, NoRoute, StoreRemote, PublishFails,
         TakeReply, Timeout, LocalAnswer, LocalFails, AppRuns, Answer, TypeOK, Arrived, Bodies
    <2> QED
      BY <1>1, <2>1 DEF Arrived
  <1>3. CASE StoreRemote(r)
    <2> DEFINE entry == [at |-> at[r], id |-> minted + 1, req |-> r]
    <2>1. /\ pc[r] = "routing" /\ pc'[r] = "publishing"
          /\ id'[r] = minted + 1 /\ at' = at
          /\ pending' = pending \cup {entry}
      BY <1>0, <1>3 DEF StoreRemote, NewId, TypeOK
    <2>2. \A q \in Requests : id[q] # minted + 1
      BY <1>0 DEF TypeOK
    <2>3. \A e \in pending : e.req \in Requests /\ e.req # r
      BY <1>0, <2>1 DEF PendingExact, TypeOK
    <2>4. entry.at = at[r] /\ entry.id = minted + 1 /\ entry.req = r
      OBVIOUS
    <2> HIDE DEF entry
    <2>5. PendingExact'
      BY <1>0, <1>1, <2>1, <2>3, <2>4 DEF PendingExact
    <2>6. IdsUnique'
      BY <1>0, <1>1, <2>1, <2>2 DEF IdsUnique
    <2> QED
      BY <1>2, <2>5, <2>6
  <1>4. CASE PublishFails(r) \/ TakeReply(r) \/ Timeout(r)
    <2>1. /\ pc'[r] = "done" /\ UNCHANGED <<at, id>>
          /\ pending' = {e \in pending : e.req # r}
      BY <1>0, <1>4 DEF PublishFails, TakeReply, Timeout, Answer, Forget, TypeOK
    <2>2. PendingExact'
      BY <1>0, <1>1, <2>1 DEF PendingExact, TypeOK
    <2>3. IdsUnique'
      BY <1>1, <2>1 DEF IdsUnique
    <2> QED
      BY <1>2, <2>2, <2>3
  <1>5. CASE ~StoreRemote(r) /\ ~(PublishFails(r) \/ TakeReply(r) \/ Timeout(r))
    <2>1. /\ UNCHANGED <<pending, id>>
          /\ pc'[r] \in Remote <=> pc[r] \in Remote
          /\ pc[r] \in Remote => at'[r] = at[r]
          /\ pc'[r] \in {"idle", "local", "routing"} => pc[r] \in {"idle", "local", "routing"}
      BY <1>0, <1>5 DEF CallStep, ServeHere, Miss, Publish, NoRoute, LocalAnswer, LocalFails,
         AppRuns, Answer, TypeOK
    <2>2. PendingExact'
      BY <1>0, <1>1, <2>1 DEF PendingExact, TypeOK
    <2>3. IdsUnique'
      BY <1>1, <2>1 DEF IdsUnique
    <2> QED
      BY <1>2, <2>2, <2>3
  <1> QED
    BY <1>3, <1>4, <1>5

\* What a stopping process does to requests and entries.
LEMMA StopFrame ==
    ASSUME TypeOK, NEW i \in Instances, Stop(i)
    PROVE  /\ UNCHANGED <<at, id, minted, chan, rpc, replies, sent, executed, started,
                          stored>>
           /\ \A r \in Requests :
                 \/ at[r] = i /\ pc[r] # "done" /\ pc'[r] = "done" /\ result'[r] = Failed
                 \/ ~(at[r] = i /\ pc[r] # "done") /\ pc'[r] = pc[r] /\ result'[r] = result[r]
           /\ pending' = {e \in pending : e.at # i}
           /\ serving' \subseteq serving /\ saving' \subseteq saving
  BY DEF Stop, TypeOK

\* Only a stopping process disturbs calls and entries from outside.
LEMMA WorldPendingStep ==
    ASSUME PendingExact, Arrived, IdsUnique,
           OwnerStep \/ Lose \/ \E i \in Instances : Subscribe(i) \/ Stop(i)
    PROVE  PendingExact' /\ Arrived' /\ IdsUnique'
  <1> USE ClusterConstants DEF Remote, callVars, netVars, appVars, recVars, instVars
  <1>0. TypeOK /\ TypeOK'
    BY WorldTypeStep DEF PendingExact
  <1>1. ASSUME NEW i \in Instances, Stop(i)
        PROVE  PendingExact' /\ Arrived' /\ IdsUnique'
    <2>1. Arrived' /\ IdsUnique'
      BY <1>0, <1>1, StopFrame DEF Arrived, IdsUnique
    <2>2. PendingExact'
      BY <1>0, <1>1, StopFrame DEF PendingExact, TypeOK
    <2> QED
      BY <2>1, <2>2
  <1>2. CASE OwnerStep \/ Lose \/ \E i \in Instances : Subscribe(i)
    <2>1. UNCHANGED <<pc, at, id, pending, result>>
      BY <1>2 DEF OwnerStep, Accept, RejectStale, ReplyOk, ReplyFailed, SaveCapture,
         DeliverReply, Lose, Subscribe
    <2> QED
      BY <1>0, <2>1 DEF PendingExact, Arrived, IdsUnique
  <1> QED
    BY <1>1, <1>2
-----------------------------------------------------------------------------
(* Messages, executions and answers.                                       *)

\* The instance a request arrived at starts its capture only while it serves
\* the request itself, and then nobody else does.
LEMMA CallCaptureStep ==
    ASSUME PendingExact, Arrived, HandedOnce, CapturesOwned, NEW r \in Requests, CallStep(r)
    PROVE  (\A q \in Requests : started'[q] >= started[q]) /\ CapturesOwned'
  <1> USE ClusterConstants DEF Remote, callVars, netVars, appVars, recVars, instVars
  <1>0. /\ TypeOK
        /\ \A h \in serving : h.req \in Requests
        /\ \A g \in saving : g.req \in Requests
    BY DEF PendingExact, TypeOK
  <1>1. /\ \A q \in Requests \ {r} : pc'[q] = pc[q] /\ sent'[q] = sent[q]
        /\ serving' = serving /\ stored' = stored
        /\ LocalAnswer(r) \/ LocalFails(r) \/ UNCHANGED <<started, saving>>
    BY <1>0, CallFrame
  <1>2. CASE UNCHANGED <<started, saving>>
    <2>1. /\ sent'[r] = sent[r] \/ (sent[r] = 0 /\ sent'[r] = 1 /\ pc'[r] = "local")
          /\ sent'[r] = sent[r] => (pc'[r] = "local" => pc[r] = "local")
      BY <1>0 DEF CallStep, ServeHere, Miss, Publish, NoRoute, StoreRemote, PublishFails,
         TakeReply, Timeout, LocalAnswer, LocalFails, AppRuns, Answer, TypeOK, HandedOnce, Handed
    <2> QED
      BY <1>0, <1>1, <1>2, <2>1 DEF CapturesOwned, TypeOK
  <1>3. ASSUME StartCapture(r, at[r]), LocalAnswer(r) \/ LocalFails(r)
        PROVE  (\A q \in Requests : started'[q] >= started[q]) /\ CapturesOwned'
    <2> DEFINE g == [at |-> at[r], req |-> r, nth |-> started'[r]]
    <2>1. /\ pc[r] = "local" /\ pc'[r] = "done" /\ sent' = sent
          /\ \A q \in Requests : started'[q] = IF q = r THEN started[r] + 1 ELSE started[q]
          /\ saving' = saving \cup {g}
      BY <1>0, <1>3 DEF LocalAnswer, LocalFails, Answer, StartCapture, TypeOK
    <2>2. g.req = r
      OBVIOUS
    <2> HIDE DEF g
    <2>3. /\ started[r] = 0 /\ sent[r] = 1 /\ stored[r] = 0
          /\ \A h \in serving : h.req # r
          /\ \A f \in saving : f.req # r
      BY <1>0, <2>1 DEF CapturesOwned, TypeOK
    <2> QED
      BY <1>0, <1>1, <2>1, <2>2, <2>3 DEF CapturesOwned, TypeOK
  <1> QED
    BY <1>1, <1>2, <1>3 DEF LocalFails, LocalAnswer

\* A request is handed over as its goroutine says, and answered by its own.
LEMMA CallOnceStep ==
    ASSUME PendingExact, Arrived, IdsUnique, HandedOnce, CapturesOwned, AnswersServed,
           NEW r \in Requests, CallStep(r)
    PROVE  HandedOnce' /\ CapturesOwned' /\ AnswersServed'
  <1> USE ClusterConstants DEF Remote, callVars, netVars, appVars, recVars, instVars
  <1>0. /\ TypeOK /\ TypeOK'
        /\ \A m \in rpc : m.id \in 1..minted /\ m.req \in Requests
        /\ \A h \in serving : h.id \in 1..minted /\ h.req \in Requests
        /\ \A m \in replies : m.id \in 1..minted
    BY CallTypeStep DEF PendingExact, TypeOK
  <1>1. /\ \A q \in Requests \ {r} : /\ pc'[q] = pc[q] /\ id'[q] = id[q] /\ result'[q] = result[q]
                                     /\ sent'[q] = sent[q] /\ executed'[q] = executed[q]
        /\ chan' = chan /\ replies' = replies /\ serving' = serving
        /\ id[r] # 0 => id'[r] = id[r]
    BY <1>0, CallFrame DEF StoreRemote, IdsUnique
  <1>2. /\ \A q \in Requests : started'[q] >= started[q]
         /\ CapturesOwned'
    BY <1>0, CallCaptureStep
  <1>3. \A q \in Requests : id[q] # 0 => id'[q] = id[q]
    BY <1>1
  <1>4. /\ sent'[r] \in {0, 1} /\ (sent'[r] = 1 => Handed(r)')
        /\ executed'[r] <= sent'[r] /\ executed'[r] >= executed[r]
    BY <1>0 DEF CallStep, ServeHere, Miss, Publish, NoRoute, StoreRemote, PublishFails,
       TakeReply, Timeout, LocalAnswer, LocalFails, AppRuns, Answer, TypeOK, Handed, HandedOnce
  <1>5. \A q \in Requests : Served(q) => Served(q)'
    <2>1. \A q \in Requests : executed[q] = 1 => executed'[q] = 1
      BY <1>0, <1>1, <1>4 DEF TypeOK
    <2> QED
      BY <1>0, <1>2, <2>1 DEF Served, TypeOK
  <1>6. result'[r] \in {None, Failed} \/ (result'[r] = r /\ Served(r)')
    <2>1. CASE LocalAnswer(r)
      <3>1. result'[r] = r /\ started'[r] = started[r] + 1 /\ executed'[r] = 1
        BY <1>0, <2>1 DEF LocalAnswer, StartCapture, Answer, TypeOK, HandedOnce
      <3> QED
        BY <1>0, <3>1 DEF Served, TypeOK
    <2>2. CASE TakeReply(r)
      BY <1>0, <1>5, <2>2 DEF TakeReply, Answer, TypeOK, AnswersServed
    <2>3. CASE ~LocalAnswer(r) /\ ~TakeReply(r)
      <3>1. result'[r] = result[r] \/ result'[r] = Failed
        BY <1>0, <2>3 DEF CallStep, ServeHere, Miss, Publish, NoRoute, StoreRemote,
           PublishFails, Timeout, LocalFails, AppRuns, Answer, TypeOK
      <3> QED
        BY <1>5, <3>1 DEF AnswersServed
    <2> QED
      BY <2>1, <2>2, <2>3
  <1>7. AnswersServed'
    BY <1>0, <1>1, <1>3, <1>5, <1>6 DEF AnswersServed
  <1>8. \A h \in serving' : h.id = id'[h.req]
    BY <1>0, <1>1, <1>3 DEF HandedOnce
  <1>9. \A q \in Requests : Handed(q) => Handed(q)'
    <2>1. Handed(r) => Handed(r)'
      BY <1>0 DEF CallStep, ServeHere, Miss, Publish, NoRoute, StoreRemote, PublishFails,
         TakeReply, Timeout, LocalAnswer, LocalFails, AppRuns, Answer, TypeOK, Handed
    <2> QED
      BY <1>1, <2>1 DEF Handed
  <1>10. \A m \in rpc' : /\ m.id = id'[m.req]
                        /\ Handed(m.req)' /\ sent'[m.req] = 0
                        /\ \A n \in rpc' : n.req = m.req => n = m
    <2>1. CASE \E i \in Instances : Publish(r, i)
      <3>1. PICK i \in Instances : Publish(r, i)
        BY <2>1
      <3>2. /\ rpc' \subseteq rpc \cup {RpcTo(r, i)}
            /\ UNCHANGED <<id, sent>>
            /\ pc[r] = "publishing" /\ Handed(r)'
        BY <1>0, <3>1 DEF Publish, Handed, TypeOK
      <3>3. RpcTo(r, i).id = id[r] /\ RpcTo(r, i).req = r
        BY DEF RpcTo
      <3>4. sent[r] = 0 /\ \A m \in rpc : m.req # r
        BY <1>0, <3>2 DEF HandedOnce, Handed
      <3> QED
        BY <1>0, <1>9, <3>2, <3>3, <3>4 DEF HandedOnce
    <2>2. CASE \A i \in Instances : ~Publish(r, i)
      <3>1. rpc' = rpc
        BY <1>0, <2>2, CallFrame
      <3>2. \A m \in rpc : m.req = r => sent'[r] = 0
        BY <1>0 DEF HandedOnce, Handed, CallStep, ServeHere, Miss, Publish, NoRoute,
           StoreRemote, PublishFails, TakeReply, Timeout, LocalAnswer, LocalFails, AppRuns,
           Answer, TypeOK
      <3> QED
        BY <1>0, <1>1, <1>3, <1>9, <3>1, <3>2 DEF HandedOnce
    <2> QED
      BY <2>1, <2>2
  <1>11. HandedOnce'
    BY <1>1, <1>4, <1>8, <1>10 DEF HandedOnce, Handed
  <1> QED
    BY <1>7, <1>11, <1>2

\* The instance that has the agent starts the capture of a request it accepted;
\* a capture goroutine stores one row at most, and may end with its instance.
LEMMA WorldCaptureStep ==
    ASSUME PendingExact, HandedOnce, CapturesOwned,
           OwnerStep \/ Lose \/ \E i \in Instances : Subscribe(i) \/ Stop(i)
    PROVE  (\A q \in Requests : started'[q] >= started[q]) /\ CapturesOwned'
  <1> USE DEF callVars, netVars, appVars, recVars, instVars
  <1>0. /\ TypeOK
        /\ \A m \in rpc : m.req \in Requests
        /\ \A h \in serving : h.req \in Requests
        /\ \A g \in saving : g.req \in Requests
    BY DEF PendingExact, TypeOK
  <1>1. ASSUME NEW m \in rpc, Accept(m)
        PROVE  (\A q \in Requests : started'[q] >= started[q]) /\ CapturesOwned'
    <2> DEFINE handler == [at |-> m.to, id |-> m.id, origin |-> m.origin, req |-> m.req]
    <2>1. /\ UNCHANGED <<pc, started, saving, stored>>
          /\ serving' = serving \cup {handler}
          /\ \A r \in Requests : sent'[r] = IF r = m.req THEN sent[r] + 1 ELSE sent[r]
      BY <1>0, <1>1 DEF Accept, TypeOK
    <2>2. handler.req = m.req
      OBVIOUS
    <2> HIDE DEF handler
    <2>3. sent[m.req] = 0 /\ m.req \in Requests
      BY <1>0 DEF HandedOnce
    <2>4. /\ started[m.req] = 0 /\ pc[m.req] # "local"
          /\ \A h \in serving : h.req # m.req
      BY <1>0, <2>3 DEF CapturesOwned
    <2> QED
      BY <1>0, <2>1, <2>2, <2>3, <2>4 DEF CapturesOwned, TypeOK
  <1>2. ASSUME NEW h \in serving, ReplyOk(h) \/ ReplyFailed(h)
        PROVE  (\A q \in Requests : started'[q] >= started[q]) /\ CapturesOwned'
    <2>1. /\ UNCHANGED <<pc, sent>>
          /\ serving' = serving \ {h}
          /\ StartCapture(h.req, h.at) \/ UNCHANGED <<started, saving, stored>>
      BY <1>2 DEF ReplyOk, ReplyFailed
    <2>2. CASE UNCHANGED <<started, saving, stored>>
      BY <1>0, <2>1, <2>2 DEF CapturesOwned, TypeOK
    <2>3. CASE StartCapture(h.req, h.at)
      <3> DEFINE g == [at |-> h.at, req |-> h.req, nth |-> started'[h.req]]
      <3>1. /\ \A q \in Requests :
                  started'[q] = IF q = h.req THEN started[q] + 1 ELSE started[q]
            /\ saving' = saving \cup {g} /\ stored' = stored
        BY <1>0, <2>3 DEF StartCapture, TypeOK
      <3>2. g.req = h.req
        OBVIOUS
      <3> HIDE DEF g
      <3>3. /\ h.req \in Requests /\ started[h.req] = 0 /\ stored[h.req] = 0
            /\ sent[h.req] = 1 /\ pc[h.req] # "local"
            /\ \A k \in serving' : k.req # h.req
            /\ \A f \in saving : f.req # h.req
        BY <1>0, <2>1 DEF CapturesOwned, TypeOK
      <3> QED
        BY <1>0, <2>1, <3>1, <3>2, <3>3 DEF CapturesOwned, TypeOK
    <2> QED
      BY <2>1, <2>2, <2>3
  <1>3. ASSUME NEW g \in saving, SaveCapture(g)
        PROVE  (\A q \in Requests : started'[q] >= started[q]) /\ CapturesOwned'
    <2>1. /\ UNCHANGED <<pc, sent, serving, started>>
          /\ saving' = saving \ {g}
          /\ \A q \in Requests : stored'[q] = stored[q]
                                   \/ (q = g.req /\ stored'[q] = stored[q] + 1)
      BY <1>0, <1>3 DEF SaveCapture, TypeOK
    <2>2. /\ started[g.req] = 1 /\ stored[g.req] = 0
          /\ \A k \in saving' : k.req # g.req
      BY <1>0, <2>1 DEF CapturesOwned
    <2> QED
      BY <1>0, <2>1, <2>2 DEF CapturesOwned, TypeOK
  <1>4. ASSUME NEW i \in Instances, Stop(i)
        PROVE  (\A q \in Requests : started'[q] >= started[q]) /\ CapturesOwned'
    BY <1>0, <1>4, StopFrame DEF CapturesOwned, TypeOK
  <1>5. CASE \/ \E m \in rpc : RejectStale(m)
             \/ \E m \in replies : DeliverReply(m)
             \/ Lose
             \/ \E i \in Instances : Subscribe(i)
    <2>1. UNCHANGED <<pc, sent, serving, started, saving, stored>>
      BY <1>5 DEF RejectStale, DeliverReply, Lose, Subscribe
    <2> QED
      BY <1>0, <2>1 DEF CapturesOwned, TypeOK
  <1> QED
    BY <1>1, <1>2, <1>3, <1>4, <1>5 DEF OwnerStep

\* A message is accepted once, and a reply goes to the call with its id.
LEMMA WorldOnceStep ==
    ASSUME PendingExact, IdsUnique, HandedOnce, CapturesOwned, AnswersServed,
           OwnerStep \/ Lose \/ \E i \in Instances : Subscribe(i) \/ Stop(i)
    PROVE  HandedOnce' /\ AnswersServed'
  <1> USE ClusterConstants DEF callVars, netVars, appVars, recVars, instVars
  <1>0. /\ TypeOK
        /\ \A m \in rpc : m.id \in 1..minted /\ m.req \in Requests
        /\ \A h \in serving : h.id \in 1..minted /\ h.req \in Requests
        /\ \A m \in replies : m.id \in 1..minted /\ m.body \in Bodies
    BY DEF PendingExact, TypeOK
  <1>1. \A q \in Requests : started'[q] >= started[q] /\ started[q] \in Nat
    BY <1>0, WorldCaptureStep DEF TypeOK
  <1>2. /\ started' \in [Requests -> Nat]
        /\ \A r \in Requests : executed'[r] = executed[r] /\ Served(r) => Served(r)'
    <2>1. TypeOK'
      BY <1>0, WorldTypeStep
    <2> QED
      BY <1>1, <2>1 DEF Served, TypeOK
  <1>3. ASSUME NEW m \in rpc, Accept(m)
        PROVE  HandedOnce' /\ AnswersServed'
    <2> DEFINE handler == [at |-> m.to, id |-> m.id, origin |-> m.origin, req |-> m.req]
    <2>1. /\ UNCHANGED <<pc, id, chan, result, replies, executed, started>>
          /\ rpc' = rpc \ {m}
          /\ serving' = serving \cup {handler}
          /\ \A r \in Requests : sent'[r] = IF r = m.req THEN sent[r] + 1 ELSE sent[r]
      BY <1>0, <1>3 DEF Accept, TypeOK
    <2>2. handler.id = id[m.req] /\ handler.req = m.req
      BY DEF HandedOnce
    <2>3. sent[m.req] = 0 /\ Handed(m.req) /\ executed[m.req] <= 0
      BY <1>0 DEF HandedOnce
    <2> HIDE DEF handler
    <2>4. AnswersServed'
      BY <2>1 DEF AnswersServed, Served
    <2>5. \A r \in Requests : /\ sent'[r] \in {0, 1} /\ (sent'[r] = 1 => Handed(r))
                             /\ executed[r] <= sent'[r]
      BY <1>0, <2>1, <2>3 DEF HandedOnce, TypeOK
    <2>6. /\ \A n \in rpc' : sent'[n.req] = 0
          /\ \A h \in serving' : h.id = id[h.req]
      BY <1>0, <2>1, <2>2 DEF HandedOnce
    <2>7. HandedOnce'
      BY <2>1, <2>5, <2>6 DEF HandedOnce, Handed
    <2> QED
      BY <2>4, <2>7
  <1>4. ASSUME NEW m \in rpc, RejectStale(m)
        PROVE  HandedOnce' /\ AnswersServed'
    <2>1. /\ UNCHANGED <<pc, id, chan, result, serving, sent, executed, started>>
          /\ rpc' \subseteq rpc
          /\ \A n \in replies' : n \in replies \/ n.body = Failed
      BY <1>4 DEF RejectStale, ReplyTo
    <2> QED
      BY <2>1 DEF HandedOnce, Handed, AnswersServed, Served
  <1>5. ASSUME NEW h \in serving, ReplyOk(h) \/ ReplyFailed(h)
        PROVE  HandedOnce' /\ AnswersServed'
    <2>1. /\ UNCHANGED <<pc, id, chan, result, rpc, sent, executed>>
          /\ serving' \subseteq serving
      BY <1>5 DEF ReplyOk, ReplyFailed
    <2>2. \A n \in replies' :
             \/ n \in replies \/ n.body = Failed
             \/ n.body = h.req /\ n.id = h.id /\ Served(h.req)'
      <3>1. executed[h.req] > 0 => executed[h.req] = 1
        BY <1>0 DEF HandedOnce, TypeOK
      <3>2. StartCapture(h.req, h.at) => started'[h.req] > 0
        BY <1>0, <1>1 DEF StartCapture, TypeOK
      <3>3. ReplyOk(h) => Served(h.req)'
        BY <2>1, <3>1, <3>2 DEF ReplyOk, Served
      <3> QED
        BY <1>5, <3>3 DEF ReplyOk, ReplyFailed, ReplyTo
    <2>3. h.id = id[h.req]
      BY DEF HandedOnce
    <2>4. HandedOnce'
      BY <2>1 DEF HandedOnce, Handed
    <2>5. AnswersServed'
      BY <1>0, <1>2, <2>1, <2>2, <2>3 DEF AnswersServed, Bodies
    <2> QED
      BY <2>4, <2>5
  <1>6. ASSUME NEW m \in replies, DeliverReply(m)
        PROVE  HandedOnce' /\ AnswersServed'
    <2>1. /\ UNCHANGED <<pc, id, result, rpc, serving, sent, executed, started>>
          /\ replies' \subseteq replies
          /\ \A r \in Requests :
                chan'[r] = IF chan[r] = None /\ [at |-> m.to, id |-> m.id, req |-> r] \in pending
                           THEN m.body ELSE chan[r]
      BY <1>6 DEF DeliverReply
    <2>2. \A r \in Requests : [at |-> m.to, id |-> m.id, req |-> r] \in pending => m.id = id[r]
      BY DEF PendingExact
    <2>3. \A r \in Requests : m.body \in Requests /\ m.id = id[r] => m.body = r /\ Served(r)
      BY <1>0 DEF AnswersServed, IdsUnique
    <2>4. HandedOnce'
      BY <2>1 DEF HandedOnce, Handed
    <2>5. \A r \in Requests : chan'[r] \in {None, Failed} \/ (chan'[r] = r /\ Served(r))
      BY <1>0, <2>1, <2>2, <2>3 DEF AnswersServed, Bodies
    <2>6. AnswersServed'
      BY <2>1, <2>5 DEF AnswersServed, Served
    <2> QED
      BY <2>4, <2>6
  <1>7. CASE Lose \/ \E i \in Instances : Subscribe(i)
    <2>1. /\ UNCHANGED <<pc, id, chan, result, serving, sent, executed, started>>
          /\ rpc' \subseteq rpc /\ replies' \subseteq replies
      BY <1>7 DEF Lose, Subscribe
    <2> QED
      BY <2>1 DEF HandedOnce, Handed, AnswersServed, Served
  <1>8. ASSUME NEW g \in saving, SaveCapture(g)
        PROVE  HandedOnce' /\ AnswersServed'
    <2>1. UNCHANGED <<pc, id, chan, result, rpc, serving, replies, sent, executed, started>>
      BY <1>8 DEF SaveCapture
    <2> QED
      BY <2>1 DEF HandedOnce, Handed, AnswersServed, Served
  <1>9. ASSUME NEW i \in Instances, Stop(i)
        PROVE  HandedOnce' /\ AnswersServed'
    <2>1. HandedOnce'
      <3>1. \A r \in Requests : Handed(r) => Handed(r)'
        BY <1>0, <1>9, StopFrame DEF Handed
      <3> QED
        BY <1>0, <1>9, <3>1, StopFrame DEF HandedOnce
    <2>2. AnswersServed'
      BY <1>0, <1>9, StopFrame DEF AnswersServed, Served
    <2> QED
      BY <2>1, <2>2
  <1> QED
    BY <1>3, <1>4, <1>5, <1>6, <1>7, <1>9, <1>8 DEF OwnerStep

\* Every step keeps the invariant.
LEMMA IInvStep == IInv /\ [Next]_vars => IInv'
  <1> SUFFICES ASSUME IInv, [Next]_vars
               PROVE  IInv'
    OBVIOUS
  <1> USE DEF IInv
  <1>1. ASSUME NEW r \in Requests, CallStep(r)
        PROVE  IInv'
    BY <1>1, CallPendingStep, CallOnceStep
  <1>2. CASE OwnerStep \/ Lose \/ \E i \in Instances : Subscribe(i) \/ Stop(i)
    BY <1>2, WorldPendingStep, WorldCaptureStep, WorldOnceStep
  <1>3. CASE UNCHANGED vars
    BY <1>3 DEF vars, callVars, netVars, appVars, recVars, instVars, PendingExact, TypeOK, Arrived,
       IdsUnique, HandedOnce, Handed, CapturesOwned, AnswersServed, Served
  <1> QED
    BY <1>1, <1>2, <1>3 DEF Next
-----------------------------------------------------------------------------
(* The cluster's promise, step by step.                                    *)

\* A step of a request's goroutine asks, runs, answers or fails it, or none.
LEMMA CallPromiseStep ==
    ASSUME IInv, NEW r \in Requests, CallStep(r)
    PROVE  [Promise!Next]_Promise!vars
  <1> USE DEF IInv, callVars, netVars, appVars, recVars, instVars
  <1>0. TypeOK
    BY DEF PendingExact
  <1> DEFINE asked == {q \in Requests : pc[q] # "idle"}
  <1>1. ASSUME NEW i \in Instances, ServeHere(r, i) \/ Miss(r, i)
        PROVE  Promise!Next
    <2>1. /\ r \notin asked /\ asked' = asked \cup {r}
          /\ UNCHANGED <<result, executed>>
      BY <1>0, <1>1 DEF ServeHere, Miss, TypeOK
    <2>2. Promise!Ask(r)
      BY <2>1 DEF Promise!Ask
    <2> QED
      BY <2>2 DEF Promise!Next
  <1>2. ASSUME pc[r] \notin {"idle", "done"}, pc' = [pc EXCEPT ![r] = "done"],
               result' = [result EXCEPT ![r] = Failed], executed' = executed
        PROVE  Promise!Next
    <2>1. /\ asked' = asked
          /\ {r} \subseteq {q \in asked : result[q] = None}
          /\ result' = [q \in Requests |-> IF q \in {r} THEN Failed ELSE result[q]]
      BY <1>0, <1>2 DEF TypeOK, Arrived
    <2>2. Promise!Fail({r})
      BY <1>2, <2>1 DEF Promise!Fail, Promise!Open
    <2> QED
      BY <2>2 DEF Promise!Next
  <1>3. ASSUME pc[r] \notin {"idle", "done"}, pc' = [pc EXCEPT ![r] = "done"],
               result' = [result EXCEPT ![r] = r], executed' = executed, executed[r] = 1
        PROVE  Promise!Next
    <2>1. asked' = asked /\ result[r] = None
      BY <1>0, <1>3 DEF TypeOK, Arrived
    <2>2. Promise!Answer(r)
      BY <1>3, <2>1 DEF Promise!Answer
    <2> QED
      BY <2>2 DEF Promise!Next
  <1>4. CASE NoRoute(r) \/ PublishFails(r) \/ Timeout(r) \/ LocalFails(r)
    BY <1>2, <1>4 DEF NoRoute, PublishFails, Timeout, LocalFails, Answer
  <1>5. CASE TakeReply(r)
    <2>1. /\ pc[r] = "waiting" /\ pc' = [pc EXCEPT ![r] = "done"] /\ executed' = executed
          /\ result' = [result EXCEPT ![r] = chan[r]]
          /\ chan[r] = Failed \/ (chan[r] = r /\ executed[r] = 1)
      BY <1>5 DEF TakeReply, Answer, AnswersServed, Served
    <2> QED
      BY <1>2, <1>3, <2>1
  <1>6. CASE LocalAnswer(r)
    <2>1. executed[r] = 1
      BY <1>0, <1>6 DEF LocalAnswer, HandedOnce, TypeOK
    <2> QED
      BY <1>3, <1>6, <2>1 DEF LocalAnswer, Answer
  <1>7. CASE AppRuns(r)
    <2>1. executed[r] = 0 /\ r \in asked
      BY <1>0, <1>7 DEF AppRuns, HandedOnce, Handed, TypeOK
    <2>2. /\ executed' = [executed EXCEPT ![r] = 1]
          /\ UNCHANGED <<pc, result>>
      BY <1>7, <2>1 DEF AppRuns
    <2>3. Promise!Execute(r)
      BY <2>1, <2>2 DEF Promise!Execute
    <2> QED
      BY <2>3 DEF Promise!Next
  <1>8. CASE StoreRemote(r) \/ \E i \in Instances : Publish(r, i)
    <2>1. asked' = asked /\ UNCHANGED <<result, executed>>
      BY <1>0, <1>8 DEF StoreRemote, Publish, TypeOK
    <2> QED
      BY <2>1 DEF Promise!vars
  <1> QED
    BY <1>1, <1>4, <1>5, <1>6, <1>7, <1>8 DEF CallStep

\* Of the rest only a stopping process is seen: it fails its open requests.
LEMMA WorldPromiseStep ==
    ASSUME IInv, OwnerStep \/ Lose \/ (\E i \in Instances : Subscribe(i) \/ Stop(i))
                   \/ UNCHANGED vars
    PROVE  [Promise!Next]_Promise!vars
  <1> USE DEF IInv, callVars, netVars, appVars, recVars, instVars
  <1>0. TypeOK
    BY DEF PendingExact
  <1>1. ASSUME NEW i \in Instances, Stop(i)
        PROVE  Promise!Next
    <2> DEFINE asked == {q \in Requests : pc[q] # "idle"}
               lost == {r \in Requests : at[r] = i /\ pc[r] # "done"}
    <2>1. lost \subseteq {q \in asked : result[q] = None}
      BY <1>0, ClusterConstants DEF Arrived
    <2>2. result' = [r \in Requests |-> IF r \in lost THEN Failed ELSE result[r]]
      BY <1>1 DEF Stop
    <2>3. asked' = asked /\ executed' = executed
      BY <1>0, <1>1, <2>1 DEF Stop, TypeOK
    <2>4. Promise!Fail(lost)
      BY <2>1, <2>2, <2>3 DEF Promise!Fail, Promise!Open
    <2>5. lost \in SUBSET Requests
      OBVIOUS
    <2> QED
      BY <2>4, <2>5 DEF Promise!Next
  <1>2. CASE OwnerStep \/ Lose \/ (\E i \in Instances : Subscribe(i)) \/ UNCHANGED vars
    <2>1. UNCHANGED <<pc, result, executed>>
      BY <1>2 DEF OwnerStep, Accept, RejectStale, ReplyOk, ReplyFailed, SaveCapture,
         DeliverReply, Lose, Subscribe, vars
    <2> QED
      BY <2>1 DEF Promise!vars
  <1> QED
    BY <1>1, <1>2
-----------------------------------------------------------------------------
\* The invariant holds in every reachable state.
THEOREM Invariance == Spec => []IInv
  BY IInvInit, IInvStep, PTL DEF Spec

\* A reply finds its call, and no call leaves an entry behind, on any instance
\* (Registry.pending in forwardRemote and deliverReply).
THEOREM PendingIsExact == Spec => []PendingExact
  BY Invariance, PTL DEF IInv

\* A response that reached a client had its capture started, and no request
\* leaves two rows, on whichever instances the client and the agent are
\* (serveLocally under handlePublic and handleClusterRequest).
THEOREM CapturesAreSingle == Spec => []CapturedOnce
  <1>1. IInv => CapturedOnce
    <2> SUFFICES ASSUME IInv, NEW r \in Requests
                 PROVE  /\ result[r] = r => started[r] = 1
                        /\ stored[r] <= started[r] /\ started[r] <= 1
      BY DEF CapturedOnce
    <2>1. started[r] \in {0, 1} /\ stored[r] <= started[r]
      BY DEF IInv, CapturesOwned
    <2>2. result[r] = r => started[r] > 0
      BY ClusterConstants DEF IInv, AnswersServed, Served
    <2> QED
      BY <2>1, <2>2
  <1> QED
    BY <1>1, Invariance, PTL

\* Every step of the cluster is a step the promise of one tunnel allows, or
\* none: one execution at most, and one answer, its own or a failure (the
\* safety half of KeepsPromise).
THEOREM RefinesPromise == Spec => Promise!Init /\ [][Promise!Next]_Promise!vars
  <1>1. Init => Promise!Init
    BY DEF Init, Promise!Init
  <1>2. IInv /\ [Next]_vars => [Promise!Next]_Promise!vars
    BY CallPromiseStep, WorldPromiseStep DEF Next
  <1> QED
    BY <1>1, <1>2, Invariance, PTL DEF Spec
=============================================================================
