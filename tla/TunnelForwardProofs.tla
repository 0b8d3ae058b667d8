------------------------- MODULE TunnelForwardProofs -------------------------
(***************************************************************************)
(* For any number of requests and any socket capacity: the state of a      *)
(* tunnel connection is well typed, its pending map holds exactly the      *)
(* calls in progress, no client gets another client's response, no answer  *)
(* is lost while both sides are up, what is captured is what was answered, *)
(* and every step is one the tunnel's promise allows.  At the agent's end  *)
(* at most one connection is open, with one writer at a time.              *)
(***************************************************************************)
EXTENDS TunnelForward, AgentClient, TLAPS

\* A correlation id names one call: 0 until forward mints it, then unique.
IdsUnique ==
    /\ \A r \in Requests : pc[r] \in {"idle", "found"} => id[r] = 0
    /\ \A q, r \in Requests : id[q] = id[r] => q = r \/ id[q] = 0

\* Every frame and every handler carries the id of the request it belongs to,
\* and a response has the body of that request or Failed.
FramesOwned ==
    /\ \A k \in 1..Len(down) : down[k].id = id[down[k].req]
    /\ \A h \in handlers : h.id = id[h.req] /\ h.body \in {None, Failed, h.req}
    /\ \A k \in 1..Len(up) : up[k] # Disconnect =>
          \E r \in Requests : up[k].id = id[r] /\ up[k].body \in {r, Failed}

\* Answers in a channel are as good as those already given.
ChannelsOwned == \A r \in Requests : chan[r] \in {None, Failed, r}

IInv ==
    /\ TypeOK
    /\ PendingExact
    /\ IdsUnique
    /\ FramesOwned
    /\ ChannelsOwned
    /\ NoCrossTalk
-----------------------------------------------------------------------------
\* Sequences: what Head, Tail and Append do to a typed sequence.
LEMMA SeqFacts ==
    ASSUME NEW S, NEW s \in Seq(S)
    PROVE  /\ \A e \in S : /\ Append(s, e) \in Seq(S)
                           /\ Len(Append(s, e)) = Len(s) + 1
                           /\ \A k \in 1..Len(s) : Append(s, e)[k] = s[k]
                           /\ Append(s, e)[Len(s) + 1] = e
           /\ s # << >> => /\ Head(s) \in S
                           /\ Head(s) = s[1]
                           /\ 1 \in 1..Len(s)
                           /\ Tail(s) \in Seq(S)
                           /\ Len(Tail(s)) = Len(s) - 1
                           /\ \A k \in 1..Len(Tail(s)) :
                                 Tail(s)[k] = s[k + 1] /\ k + 1 \in 1..Len(s)
  OBVIOUS

\* The elements of a sequence have its type.
LEMMA SeqElement ==
    ASSUME NEW S, NEW s \in Seq(S), NEW k \in 1..Len(s)
    PROVE  s[k] \in S
  OBVIOUS

\* A sequence keeps its type when the type grows.
LEMMA SeqGrows ==
    ASSUME NEW S, NEW T, S \subseteq T, NEW s \in Seq(S)
    PROVE  s \in Seq(T)
  OBVIOUS

\* A sequence is a function from its positions.
LEMMA SeqDomain ==
    ASSUME NEW S, NEW s \in Seq(S)
    PROVE  DOMAIN s = 1..Len(s) /\ Len(s) \in Nat
  OBVIOUS

\* Taking the first element moves the others up by one place.
LEMMA SeqTail ==
    ASSUME NEW S, NEW s \in Seq(S), s # << >>
    PROVE  /\ Head(s) = s[1] /\ 1 \in DOMAIN s
           /\ \A k \in DOMAIN Tail(s) : k + 1 \in DOMAIN s /\ Tail(s)[k] = s[k + 1]
           /\ \A k \in DOMAIN s : k # 1 => k - 1 \in DOMAIN Tail(s) /\ Tail(s)[k - 1] = s[k]
  <1>1. /\ DOMAIN s = 1..Len(s) /\ Len(s) \in Nat
        /\ DOMAIN Tail(s) = 1..(Len(s) - 1)
    BY SeqDomain, SeqFacts
  <1>2. \A k \in DOMAIN s : k # 1 => k - 1 \in DOMAIN Tail(s)
    BY <1>1
  <1>3. \A k \in DOMAIN Tail(s) : k + 1 \in DOMAIN s /\ Tail(s)[k] = s[k + 1]
    BY <1>1, SeqFacts
  <1>4. \A k \in DOMAIN s : k # 1 => Tail(s)[k - 1] = s[k]
    BY <1>1, <1>2, <1>3
  <1> QED
    BY <1>1, <1>2, <1>3, <1>4, SeqFacts

\* An element is appended at a place of its own.
LEMMA SeqAppend ==
    ASSUME NEW S, NEW s \in Seq(S), NEW e \in S
    PROVE  /\ DOMAIN Append(s, e) = DOMAIN s \cup {Len(s) + 1}
           /\ Len(s) + 1 \notin DOMAIN s
           /\ \A k \in DOMAIN s : Append(s, e)[k] = s[k]
           /\ Append(s, e)[Len(s) + 1] = e
  <1>1. /\ DOMAIN s = 1..Len(s) /\ Len(s) \in Nat
        /\ DOMAIN Append(s, e) = 1..(Len(s) + 1)
    BY SeqDomain, SeqFacts
  <1> QED
    BY <1>1, SeqFacts

\* The initial state is well typed.
LEMMA TypeInit == Init => TypeOK
  <1> SUFFICES ASSUME Init
               PROVE  TypeOK
    OBVIOUS
  <1>1. /\ DOMAIN pending \subseteq 1..minted
        /\ pending \in [DOMAIN pending -> Requests]
    BY DEF Init
  <1>2. /\ down \in Seq([id : 1..minted, req : Requests])
        /\ Len(down) <= SocketBuf
        /\ up \in Seq([id : 1..minted, body : Bodies] \cup {Disconnect})
    BY ForwardConstants DEF Init
  <1>3. /\ minted \in Nat
        /\ id \in [Requests -> 0..minted]
        /\ executed \in [Requests -> Nat]
        /\ handlers = {}
    BY DEF Init
  <1>4. /\ pc \in [Requests -> {"idle", "found", "done"} \cup Waiting]
        /\ chan \in [Requests -> Bodies \cup {None}]
        /\ result \in [Requests -> Bodies \cup {None}]
        /\ writer \in Requests \cup {None}
    BY DEF Init
  <1>5. capture \in [Requests -> Captures]
    BY DEF Init, Captures
  <1>6. /\ peer = "serving" /\ reader = "reading" /\ row = "active"
        /\ closed \in BOOLEAN /\ registered \in BOOLEAN
    BY DEF Init
  <1> QED
    BY <1>1, <1>2, <1>3, <1>4, <1>6, <1>5 DEF TypeOK

\* A call inside forward has been given an id.
LEMMA WaitingHasId ==
    ASSUME TypeOK, PendingExact, NEW r \in Requests, pc[r] \in Waiting
    PROVE  id[r] \in 1..minted /\ id[r] \in DOMAIN pending /\ pending[id[r]] = r
  <1>1. PICK i \in DOMAIN pending : pending[i] = r
    BY DEF PendingExact
  <1> QED
    BY <1>1 DEF PendingExact, TypeOK

\* Captures are counted when they start and when they end.
LEMMA CapturesCounted ==
    ASSUME TypeOK, NEW r \in Requests, StartCapture(r) \/ SaveCapture(r)
    PROVE  capture' \in [Requests -> Captures]
  <1>1. /\ capture \in [Requests -> Captures]
        /\ capture[r].started \in Nat
        /\ capture[r].saving \in Nat
        /\ capture[r].stored \in Nat
    BY DEF TypeOK, Captures
  <1>2. CASE StartCapture(r)
    BY <1>1, <1>2 DEF StartCapture, Captures
  <1>3. CASE SaveCapture(r)
    BY <1>1, <1>3 DEF SaveCapture, Captures
  <1> QED
    BY <1>2, <1>3

\* handlePublic and forward keep the types.
LEMMA CallTypeStep ==
    ASSUME TypeOK, PendingExact, NEW r \in Requests, CallStep(r)
    PROVE  TypeOK'
  <1> USE ForwardConstants DEF TypeOK, Bodies, Waiting, Sent, connVars, agentVars
  <1>1. CASE Lookup(r)
    BY <1>1 DEF Lookup
  <1>2. CASE Refuse(r)
    BY <1>2 DEF Refuse
  <1>3. CASE Store(r)
    <2>1. /\ minted' \in Nat
          /\ 1..minted \subseteq 1..minted'
          /\ id' \in [Requests -> 0..minted']
      BY <1>3 DEF Store, NewId
    <2>2. /\ DOMAIN pending' \subseteq 1..minted'
          /\ pending' \in [DOMAIN pending' -> Requests]
      BY <1>3 DEF Store, NewId
    <2>3. down' \in Seq([id : 1..minted', req : Requests])
      <3>1. [id : 1..minted, req : Requests] \subseteq [id : 1..minted', req : Requests]
        BY <2>1
      <3>2. down \in Seq([id : 1..minted, req : Requests])
        OBVIOUS
      <3>3. down \in Seq([id : 1..minted', req : Requests])
        BY ONLY <3>1, <3>2, SeqGrows
      <3> QED
        BY <1>3, <3>3 DEF Store
    <2>4. up' \in Seq([id : 1..minted', body : Bodies] \cup {Disconnect})
      <3>1. [id : 1..minted, body : Bodies] \cup {Disconnect}
              \subseteq [id : 1..minted', body : Bodies] \cup {Disconnect}
        BY <2>1
      <3> QED
        BY <1>3, <3>1, SeqGrows DEF Store
    <2>5. handlers' \subseteq
            [id : 1..minted', req : Requests, body : Bodies \cup {None}]
      BY <1>3, <2>1 DEF Store
    <2> QED
      BY <1>3, <2>1, <2>2, <2>3, <2>4, <2>5 DEF Store
  <1>4. CASE LockWriter(r)
    BY <1>4 DEF LockWriter
  <1>5. CASE Write(r)
    <2>1. [id |-> id[r], req |-> r] \in [id : 1..minted, req : Requests]
      BY <1>5, WaitingHasId DEF Write
    <2> QED
      BY <1>5, <2>1, SeqFacts DEF Write
  <1>6. CASE Select(r)
    BY <1>6 DEF Select
  <1>7. CASE WriteFails(r)
    BY <1>7 DEF WriteFails, GiveUp, Forget
  <1>8. CASE TakeResponse(r)
    <2>1. capture' \in [Requests -> Captures]
      BY <1>8, CapturesCounted DEF TakeResponse
    <2> QED
      BY <1>8, <2>1 DEF TakeResponse, Forget
  <1>9. CASE Timeout(r)
    BY <1>9 DEF Timeout, GiveUp, Forget
  <1>10. CASE SeeClosed(r)
    BY <1>10 DEF SeeClosed, GiveUp, Forget
  <1>11. CASE SaveCapture(r)
    <2>1. capture' \in [Requests -> Captures]
      BY <1>11, CapturesCounted
    <2> QED
      BY <1>11, <2>1 DEF SaveCapture
  <1> QED
    BY <1>1, <1>2, <1>3, <1>4, <1>5, <1>6, <1>7, <1>8, <1>9, <1>10, <1>11
    DEF CallStep

\* The gateway's read loop and its deferred clean-up keep the types.
LEMMA ReaderTypeStep ==
    ASSUME TypeOK, ReaderStep
    PROVE  TypeOK'
  <1> USE ForwardConstants DEF TypeOK, Bodies, Waiting, Sent, callVars, agentVars, connVars
  <1>1. CASE Deliver
    <2>1. /\ up' \in Seq([id : 1..minted, body : Bodies] \cup {Disconnect})
          /\ Head(up) \in [id : 1..minted, body : Bodies]
      BY <1>1, SeqFacts DEF Deliver
    <2>2. chan' \in [Requests -> Bodies \cup {None}]
      BY <1>1, <2>1 DEF Deliver, Send
    <2> QED
      BY <1>1, <2>1, <2>2 DEF Deliver
  <1>2. CASE ReadDisconnect
    <2>1. up' \in Seq([id : 1..minted, body : Bodies] \cup {Disconnect})
      BY <1>2, SeqFacts DEF ReadDisconnect
    <2> QED
      BY <1>2, <2>1 DEF ReadDisconnect
  <1>3. CASE ReadFails
    BY <1>3 DEF ReadFails
  <1>4. CASE Close
    BY <1>4 DEF Close
  <1>5. CASE Remove
    BY <1>5 DEF Remove
  <1>6. CASE MarkRow
    BY <1>6 DEF MarkRow
  <1> QED
    BY <1>1, <1>2, <1>3, <1>4, <1>5, <1>6 DEF ReaderStep

\* The agent's side keeps the types.
LEMMA AgentTypeStep ==
    ASSUME TypeOK, AgentStep
    PROVE  TypeOK'
  <1> USE ForwardConstants DEF TypeOK, Bodies, Waiting, Sent, callVars, connVars
  <1>1. CASE AgentRead
    <2>1. /\ Tail(down) \in Seq([id : 1..minted, req : Requests])
          /\ Len(Tail(down)) = Len(down) - 1
          /\ Head(down) \in [id : 1..minted, req : Requests]
      BY <1>1, SeqFacts DEF AgentRead
    <2>2. /\ down' = Tail(down)
          /\ Len(down) \in Nat
      BY <1>1 DEF AgentRead
    <2>3. handlers' \subseteq
            [id : 1..minted, req : Requests, body : Bodies \cup {None}]
      BY <1>1, <2>1 DEF AgentRead
    <2>4. down' \in Seq([id : 1..minted, req : Requests]) /\ Len(down') <= SocketBuf
      BY <2>1, <2>2
    <2>5. UNCHANGED <<callVars, executed, up, peer, connVars>>
      BY <1>1 DEF AgentRead
    <2> QED
      BY <2>3, <2>4, <2>5
  <1>2. CASE Leave
    <2>1. up' \in Seq([id : 1..minted, body : Bodies] \cup {Disconnect})
      BY <1>2, SeqFacts DEF Leave
    <2> QED
      BY <1>2, <2>1 DEF Leave
  <1>3. CASE CloseSocket
    BY <1>3 DEF CloseSocket
  <1>4. CASE AgentReadFails
    BY <1>4 DEF AgentReadFails
  <1>5. CASE Cut
    BY <1>5 DEF Cut
  <1>6. ASSUME NEW h \in handlers, HandlerStep(h)
        PROVE  TypeOK'
    <2>1. CASE AppRuns(h)
      <3>1. PICK body \in {h.req, Failed} :
              handlers' = (handlers \ {h}) \cup {[h EXCEPT !.body = body]}
        BY <2>1 DEF AppRuns
      <3>2. [h EXCEPT !.body = body] \in
              [id : 1..minted, req : Requests, body : Bodies \cup {None}]
        <4> HIDE DEF TypeOK, Bodies
        <4>1. h \in [id : 1..minted, req : Requests, body : Bodies \cup {None}]
          BY DEF TypeOK
        <4>2. body \in Bodies
          BY <4>1 DEF Bodies
        <4> QED
          BY <4>1, <4>2
      <3>3. executed' \in [Requests -> Nat]
        BY <2>1 DEF AppRuns
      <3> QED
        BY <2>1, <3>1, <3>2, <3>3 DEF AppRuns
    <2>2. CASE AppUnreachable(h)
      BY <2>2 DEF AppUnreachable
    <2>3. CASE Reply(h)
      <3>1. [id |-> h.id, body |-> h.body] \in [id : 1..minted, body : Bodies]
        BY <2>3 DEF Reply
      <3>2. up' \in Seq([id : 1..minted, body : Bodies] \cup {Disconnect})
        BY <2>3, <3>1, SeqFacts DEF Reply
      <3> QED
        BY <2>3, <3>2 DEF Reply
    <2> QED
      BY <1>6, <2>1, <2>2, <2>3 DEF HandlerStep
  <1> QED
    BY <1>1, <1>2, <1>3, <1>4, <1>5, <1>6 DEF AgentStep
-----------------------------------------------------------------------------
(* Ownership: ids, frames, channels and answers.                           *)

\* PendingExact, one request and one entry at a time.
LEMMA PendingExactPointwise ==
    ASSUME pending \in [DOMAIN pending -> Requests]
    PROVE  PendingExact <=>
              /\ \A r \in Requests : pc[r] \in Waiting =>
                    \E i \in DOMAIN pending : pending[i] = r
              /\ \A i \in DOMAIN pending :
                    pc[pending[i]] \in Waiting /\ id[pending[i]] = i
  BY DEF PendingExact

\* A call enters the pending map under a new id and leaves it with forward.
LEMMA CallPendingStep ==
    ASSUME IInv, NEW r \in Requests, CallStep(r)
    PROVE  PendingExact' /\ IdsUnique'
  <1> USE DEF IInv, IdsUnique, Waiting, Sent
  <1>0. TypeOK /\ TypeOK'
    BY CallTypeStep
  <1>1. CASE Store(r)
    <2>1. /\ id' = [id EXCEPT ![r] = minted + 1]
          /\ pc' = [pc EXCEPT ![r] = "stored"]
          /\ DOMAIN pending' = DOMAIN pending \cup {minted + 1}
          /\ pending'[minted + 1] = r
          /\ \A i \in DOMAIN pending : pending'[i] = pending[i]
      BY <1>0, <1>1 DEF Store, NewId, TypeOK
    <2>2. \A q \in Requests : id[q] # minted + 1
      BY <1>0 DEF TypeOK
    <2>3. \A i \in DOMAIN pending : pending[i] # r
      BY <1>0, <1>1, PendingExactPointwise DEF Store, TypeOK
    <2>4. PendingExact'
      BY <1>0, <1>1, <2>1, <2>3 DEF PendingExact, TypeOK
    <2>5. IdsUnique'
      <3>1. \A q \in Requests : id'[q] = IF q = r THEN minted + 1 ELSE id[q]
        BY <1>0, <2>1 DEF TypeOK
      <3>2. \A q \in Requests \ {r} : pc'[q] = pc[q]
        BY <1>0, <2>1 DEF TypeOK
      <3>3. pc'[r] = "stored"
        BY <1>0, <2>1 DEF TypeOK
      <3> QED
        BY <2>2, <3>1, <3>2, <3>3
    <2> QED
      BY <2>4, <2>5
  <1>2. CASE Lookup(r) \/ Refuse(r) \/ LockWriter(r) \/ Write(r) \/ Select(r) \/ SaveCapture(r)
    <2>0. pc \in [Requests -> {"idle", "found", "done"} \cup Waiting]
      BY <1>0 DEF TypeOK
    <2>1. /\ UNCHANGED <<id, pending>>
          /\ \A q \in Requests \ {r} : pc'[q] = pc[q]
          /\ pc'[r] \in Waiting <=> pc[r] \in Waiting
          /\ pc'[r] \in {"idle", "found"} => pc[r] \in {"idle", "found"}
      BY <1>2, <2>0 DEF Lookup, Refuse, LockWriter, Write, Select, SaveCapture
    <2>2. \A q \in Requests : pc'[q] \in Waiting <=> pc[q] \in Waiting
      BY <2>1
    <2>3. PendingExact'
      BY <2>1, <2>2 DEF PendingExact
    <2>4. IdsUnique'
      BY <2>1
    <2> QED
      BY <2>3, <2>4
  <1>3. CASE WriteFails(r) \/ TakeResponse(r) \/ Timeout(r) \/ SeeClosed(r)
    <2>1. /\ UNCHANGED id
          /\ pending' = Forget(r)
          /\ pc' = [pc EXCEPT ![r] = "done"]
          /\ pc[r] \in Waiting
      BY <1>3 DEF WriteFails, TakeResponse, Timeout, SeeClosed, GiveUp
    <2>2. /\ DOMAIN pending' = DOMAIN pending \ {id[r]}
          /\ \A i \in DOMAIN pending' : pending'[i] = pending[i]
      BY <2>1 DEF Forget
    <2>3. \A q \in Requests : pc'[q] \in Waiting <=> q # r /\ pc[q] \in Waiting
      BY <1>0, <2>1 DEF TypeOK
    <2>4. id[r] \in DOMAIN pending /\ pending[id[r]] = r
      BY <1>0, <2>1, WaitingHasId
    <2>5. \A i \in DOMAIN pending : id[pending[i]] = i /\ pending[i] \in Requests
      BY <1>0 DEF PendingExact, TypeOK
    <2>6. {pending'[i] : i \in DOMAIN pending'} = {pending[i] : i \in DOMAIN pending} \ {r}
      BY <2>2, <2>4, <2>5
    <2>7. {q \in Requests : pc'[q] \in Waiting} = {q \in Requests : pc[q] \in Waiting} \ {r}
      BY <2>3
    <2>8. PendingExact'
      BY <2>1, <2>2, <2>5, <2>6, <2>7 DEF PendingExact
    <2>9. IdsUnique'
      BY <1>0, <2>1 DEF TypeOK
    <2> QED
      BY <2>8, <2>9
  <1> QED
    BY <1>1, <1>2, <1>3 DEF CallStep

\* A call sends a frame with its own id, and takes what is in its own channel.
LEMMA CallFramesStep ==
    ASSUME IInv, NEW r \in Requests, CallStep(r)
    PROVE  FramesOwned' /\ ChannelsOwned' /\ NoCrossTalk'
  <1> USE DEF IInv, callVars, agentVars, connVars
  <1>0. TypeOK /\ TypeOK'
    BY CallTypeStep
  <1>1. ChannelsOwned' /\ NoCrossTalk'
    BY <1>0 DEF CallStep, Lookup, Refuse, Store, LockWriter, Write, Select, WriteFails,
       TakeResponse, Timeout, SeeClosed, SaveCapture, GiveUp, ChannelsOwned, NoCrossTalk, TypeOK
  <1>2. CASE Store(r)
    <2>1. /\ UNCHANGED <<down, handlers, up>>
          /\ id' = [id EXCEPT ![r] = minted + 1]
          /\ id[r] = 0
      BY <1>0, <1>2 DEF Store, NewId, IdsUnique
    <2>2. \A q \in Requests : id[q] # 0 => id'[q] = id[q]
      BY <1>0, <2>1 DEF TypeOK
    <2>3. \A k \in 1..Len(down) : down[k].req \in Requests /\ down[k].id # 0
      <3>1. \A k \in 1..Len(down) : down[k] \in [id : 1..minted, req : Requests]
        BY <1>0, SeqElement DEF TypeOK
      <3> QED
        BY <1>0, <3>1
    <2>4. \A k \in 1..Len(up) : up[k] # Disconnect => up[k].id # 0
      <3>1. \A k \in 1..Len(up) :
               up[k] \in [id : 1..minted, body : Bodies] \cup {Disconnect}
        BY <1>0, SeqElement DEF TypeOK
      <3> QED
        BY <1>0, <3>1
    <2>5. \A h \in handlers : h.req \in Requests /\ h.id # 0
      <3>1. \A h \in handlers : h \in [id : 1..minted, req : Requests, body : Bodies \cup {None}]
        BY <1>0 DEF TypeOK
      <3> QED
        BY <3>1
    <2> QED
      BY <1>1, <2>1, <2>2, <2>3, <2>4, <2>5 DEF FramesOwned
  <1>3. CASE Write(r)
    <2> DEFINE frame == [id |-> id[r], req |-> r]
    <2>1. /\ UNCHANGED <<id, handlers, up>>
          /\ down' = Append(down, frame)
          /\ frame \in [id : 1..minted, req : Requests]
      BY <1>0, <1>3, WaitingHasId DEF Write, Waiting
    <2>2. /\ Len(down') = Len(down) + 1
          /\ \A k \in 1..Len(down) : down'[k] = down[k]
          /\ down'[Len(down) + 1] = frame
          /\ Len(down) \in Nat
      BY <1>0, <2>1, SeqFacts DEF TypeOK
    <2>3. \A k \in 1..Len(down') : k \in 1..Len(down) \/ k = Len(down) + 1
      BY <2>2
    <2> QED
      BY <1>1, <2>1, <2>2, <2>3 DEF FramesOwned
  <1>4. CASE ~ Store(r) /\ ~ Write(r)
    <2>1. UNCHANGED <<id, down, handlers, up>>
      BY <1>4 DEF CallStep, Lookup, Refuse, LockWriter, Select, WriteFails,
         TakeResponse, Timeout, SeeClosed, SaveCapture, GiveUp
    <2> QED
      BY <1>1, <2>1 DEF FramesOwned
  <1> QED
    BY <1>2, <1>3, <1>4

\* deliver hands a response to the call that its id stands for.
LEMMA ReaderOwnedStep ==
    ASSUME IInv, ReaderStep
    PROVE  PendingExact' /\ IdsUnique' /\ FramesOwned' /\ ChannelsOwned' /\ NoCrossTalk'
  <1> USE DEF IInv, callVars, agentVars, connVars
  <1>0. TypeOK /\ TypeOK'
    BY ReaderTypeStep
  <1>1. UNCHANGED <<pc, id, pending, result, down, handlers>>
    BY DEF ReaderStep, Deliver, ReadDisconnect, ReadFails, Close, Remove, MarkRow
  <1>2. PendingExact' /\ IdsUnique' /\ NoCrossTalk'
    BY <1>1 DEF PendingExact, IdsUnique, NoCrossTalk
  <1>3. up' = up \/ (up # << >> /\ up' = Tail(up))
    BY DEF ReaderStep, Deliver, ReadDisconnect, ReadFails, Close, Remove, MarkRow
  <1>4. FramesOwned'
    <2>1. \A k \in 1..Len(up') : \E j \in 1..Len(up) : up'[k] = up[j]
      <3>1. CASE up' = up
        BY <3>1
      <3>2. CASE up # << >> /\ up' = Tail(up)
        <4>1. \A k \in 1..Len(up') : up'[k] = up[k + 1] /\ k + 1 \in 1..Len(up)
          BY <1>0, <3>2, SeqFacts DEF TypeOK
        <4> QED
          BY <4>1
      <3> QED
        BY <1>3, <3>1, <3>2
    <2>2. \A k \in 1..Len(up') : up'[k] # Disconnect =>
             \E r \in Requests : up'[k].id = id[r] /\ up'[k].body \in {r, Failed}
      <3> SUFFICES ASSUME NEW k \in 1..Len(up'), up'[k] # Disconnect
                   PROVE  \E r \in Requests : up'[k].id = id[r] /\ up'[k].body \in {r, Failed}
        OBVIOUS
      <3>1. PICK j \in 1..Len(up) : up'[k] = up[j]
        BY <2>1
      <3> QED
        BY <3>1 DEF FramesOwned
    <2> QED
      BY <1>1, <2>2 DEF FramesOwned
  <1>5. ChannelsOwned'
    <2>1. CASE Deliver
      <3>1. Head(up) = up[1] /\ 1 \in 1..Len(up)
        BY <1>0, <2>1, SeqFacts DEF TypeOK, Deliver
      <3>2. PICK q \in Requests : Head(up).id = id[q] /\ Head(up).body \in {q, Failed}
        BY <2>1, <3>1 DEF FramesOwned, Deliver
      <3>3. CASE Head(up).id \in DOMAIN pending
        <4>1. pending[Head(up).id] = q
          BY <1>0, <3>2, <3>3 DEF PendingExact, IdsUnique, TypeOK
        <4>2. chan' = Send(q, Head(up).body)
          BY <2>1, <3>3, <4>1 DEF Deliver
        <4> QED
          BY <1>0, <3>2, <4>2 DEF Send, ChannelsOwned, TypeOK
      <3>4. CASE Head(up).id \notin DOMAIN pending
        BY <2>1, <3>4 DEF Deliver, ChannelsOwned
      <3> QED
        BY <3>3, <3>4
    <2>2. CASE ~ Deliver
      BY <2>2 DEF ReaderStep, ReadDisconnect, ReadFails, Close, Remove, MarkRow, ChannelsOwned
    <2> QED
      BY <2>1, <2>2
  <1> QED
    BY <1>2, <1>4, <1>5

\* The agent answers a frame with the id that came with it.
LEMMA AgentOwnedStep ==
    ASSUME IInv, AgentStep
    PROVE  PendingExact' /\ IdsUnique' /\ FramesOwned' /\ ChannelsOwned' /\ NoCrossTalk'
  <1> USE DEF IInv, callVars, agentVars, connVars
  <1>0. TypeOK /\ TypeOK'
    BY AgentTypeStep
  <1>1. UNCHANGED <<pc, id, pending, result, chan>>
    BY DEF AgentStep, HandlerStep, AgentRead, Leave, CloseSocket, AgentReadFails, Cut,
       AppRuns, AppUnreachable, Reply
  <1>2. PendingExact' /\ IdsUnique' /\ NoCrossTalk' /\ ChannelsOwned'
    BY <1>1 DEF PendingExact, IdsUnique, NoCrossTalk, ChannelsOwned
  <1>3. CASE AgentRead
    <2>1. /\ Head(down) = down[1] /\ 1 \in 1..Len(down)
          /\ \A k \in 1..Len(down') : down'[k] = down[k + 1] /\ k + 1 \in 1..Len(down)
      BY <1>0, <1>3, SeqFacts DEF TypeOK, AgentRead
    <2>2. \A h \in handlers' : h \in handlers \/
             h = [id |-> down[1].id, req |-> down[1].req, body |-> None]
      BY <1>3, <2>1 DEF AgentRead
    <2>3. up' = up
      BY <1>3 DEF AgentRead
    <2> QED
      BY <1>1, <1>2, <2>1, <2>2, <2>3 DEF FramesOwned
  <1>4. CASE Leave
    <2>1. /\ UNCHANGED <<down, handlers>>
          /\ \A k \in 1..Len(up') : (k \in 1..Len(up) /\ up'[k] = up[k]) \/ up'[k] = Disconnect
      BY <1>0, <1>4, SeqFacts DEF TypeOK, Leave
    <2> QED
      BY <1>1, <1>2, <2>1 DEF FramesOwned
  <1>5. CASE CloseSocket \/ AgentReadFails \/ Cut
    <2>1. UNCHANGED <<down, handlers, up>>
      BY <1>5 DEF CloseSocket, AgentReadFails, Cut
    <2> QED
      BY <1>1, <1>2, <2>1 DEF FramesOwned
  <1>6. ASSUME NEW h \in handlers, AppRuns(h) \/ AppUnreachable(h)
        PROVE  FramesOwned'
    <2>1. PICK body \in {h.req, Failed} :
             handlers' = (handlers \ {h}) \cup {[h EXCEPT !.body = body]}
      BY <1>6 DEF AppRuns, AppUnreachable
    <2>2. LET g == [h EXCEPT !.body = body]
          IN  g.id = h.id /\ g.req = h.req /\ g.body = body
      BY <1>0 DEF TypeOK
    <2>3. UNCHANGED <<down, up>>
      BY <1>6 DEF AppRuns, AppUnreachable
    <2> QED
      BY <1>1, <2>1, <2>2, <2>3 DEF FramesOwned
  <1>7. ASSUME NEW h \in handlers, Reply(h)
        PROVE  FramesOwned'
    <2> DEFINE frame == [id |-> h.id, body |-> h.body]
    <2>1. /\ h.req \in Requests
          /\ frame.id = id[h.req]
          /\ frame.body \in {h.req, Failed}
          /\ frame \in [id : 1..minted, body : Bodies]
      BY <1>0, <1>7 DEF TypeOK, FramesOwned, Reply
    <2>2. \A k \in 1..Len(up') : (k \in 1..Len(up) /\ up'[k] = up[k]) \/ up'[k] = frame
      BY <1>0, <1>7, <2>1, SeqFacts DEF TypeOK, Reply
    <2>3. down' = down /\ handlers' \subseteq handlers
      BY <1>7 DEF Reply
    <2> QED
      BY <1>1, <2>1, <2>2, <2>3 DEF FramesOwned
  <1> QED
    BY <1>2, <1>3, <1>4, <1>5, <1>6, <1>7 DEF AgentStep, HandlerStep
-----------------------------------------------------------------------------
\* The invariant holds in the initial state.
LEMMA IInvInit == Init => IInv
  <1> SUFFICES ASSUME Init
               PROVE  IInv
    OBVIOUS
  <1>1. TypeOK
    BY TypeInit
  <1>2. PendingExact
    BY DEF Init, PendingExact, Waiting, Sent
  <1>3. /\ IdsUnique
        /\ ChannelsOwned
        /\ NoCrossTalk
    BY DEF Init, IdsUnique, ChannelsOwned, NoCrossTalk
  <1>4. FramesOwned
    BY DEF Init, FramesOwned
  <1> QED
    BY <1>1, <1>2, <1>3, <1>4 DEF IInv

\* Every step keeps the invariant.
LEMMA IInvStep == IInv /\ [Next]_vars => IInv'
  <1> SUFFICES ASSUME IInv, [Next]_vars
               PROVE  IInv'
    OBVIOUS
  <1> USE DEF IInv
  <1>1. ASSUME NEW r \in Requests, CallStep(r)
        PROVE  IInv'
    BY <1>1, CallTypeStep, CallPendingStep, CallFramesStep
  <1>2. CASE ReaderStep
    BY <1>2, ReaderTypeStep, ReaderOwnedStep
  <1>3. CASE AgentStep
    BY <1>3, AgentTypeStep, AgentOwnedStep
  <1>4. CASE UNCHANGED vars
    BY <1>4 DEF vars, callVars, agentVars, connVars, TypeOK, PendingExact, IdsUnique,
       FramesOwned, ChannelsOwned, NoCrossTalk
  <1> QED
    BY <1>1, <1>2, <1>3, <1>4 DEF Next

\* The inductive invariant holds in every reachable state.
THEOREM Invariance == Spec => []IInv
  BY IInvInit, IInvStep, PTL DEF Spec

\* Every reachable state of a tunnel connection is well typed; in particular
\* at most SocketBuf frames wait for the agent (AgentConn, agent.conn).
THEOREM TypeCorrect == Spec => []TypeOK
  BY Invariance, PTL DEF IInv

\* No client is ever answered with the response to another client's request
\* (AgentConn.forward and deliver on one shared WebSocket).
THEOREM NeverCrossed == Spec => []NoCrossTalk
  BY Invariance, PTL DEF IInv

\* The pending map never leaks an entry and never misses a waiting call
\* (the deferred pending.Delete of AgentConn.forward).
THEOREM PendingIsExact == Spec => []PendingExact
  BY Invariance, PTL DEF IInv
-----------------------------------------------------------------------------
(* Where answers are, and what is captured.                                *)

\* The captures of a request: its goroutine starts one with the answer, and
\* none before; what is saving or stored was started.
Captured(r) ==
    /\ capture[r].started \in {0, 1}
    /\ capture[r].saving + capture[r].stored <= capture[r].started

\* An exchange is captured from the answer on, and once; and a call has its
\* outcome exactly when its goroutine is done.
CaptureInv ==
    \A r \in Requests :
        /\ result[r] = None <=> pc[r] # "done"
        /\ Captured(r)
        /\ capture[r].started = 1 =>
              pc[r] = "done" /\ chan[r] # None /\ result[r] = chan[r]
        /\ pc[r] = "done" /\ capture[r].started = 0 => result[r] = Failed

\* The captures of a request are counted by natural numbers.
LEMMA CaptureTypes ==
    ASSUME TypeOK, NEW r \in Requests
    PROVE  /\ capture \in [Requests -> Captures]
           /\ capture[r] \in Captures
           /\ capture[r].started \in Nat
           /\ capture[r].saving \in Nat
           /\ capture[r].stored \in Nat
  BY DEF TypeOK, Captures

\* Every step keeps the captures in step with the answers.
LEMMA CaptureStep ==
    ASSUME IInv, CaptureInv, [Next]_vars
    PROVE  CaptureInv'
  <1> USE ForwardConstants DEF IInv, callVars, agentVars, connVars
  <1>0. TypeOK
    OBVIOUS
  <1>1. ASSUME NEW r \in Requests, CallStep(r)
        PROVE  CaptureInv'
    <2>1. \A q \in Requests \ {r} :
             /\ pc'[q] = pc[q] /\ result'[q] = result[q]
             /\ chan'[q] = chan[q] /\ capture'[q] = capture[q]
      BY <1>0, <1>1 DEF CallStep, Lookup, Refuse, Store, LockWriter, Write, Select,
         WriteFails, TakeResponse, Timeout, SeeClosed, SaveCapture, GiveUp, StartCapture,
         TypeOK
    <2>2. chan' = chan
      BY <1>1 DEF CallStep, Lookup, Refuse, Store, LockWriter, Write, Select,
         WriteFails, TakeResponse, Timeout, SeeClosed, SaveCapture, GiveUp
    <2>3. CASE Lookup(r) \/ Store(r) \/ LockWriter(r) \/ Write(r) \/ Select(r)
      <3>1. /\ UNCHANGED <<result, capture>>
            /\ pc[r] # "done" /\ pc'[r] # "done"
        BY <1>0, <2>3 DEF Lookup, Store, LockWriter, Write, Select, TypeOK
      <3> QED
        BY <2>1, <2>2, <3>1 DEF CaptureInv, Captured
    <2>4. CASE Refuse(r) \/ WriteFails(r) \/ Timeout(r) \/ SeeClosed(r)
      <3>1. /\ UNCHANGED capture
            /\ pc[r] # "done" /\ pc'[r] = "done"
            /\ result'[r] = Failed
        BY <1>0, <2>4 DEF Refuse, WriteFails, Timeout, SeeClosed, GiveUp, TypeOK
      <3> QED
        BY <2>1, <2>2, <3>1 DEF CaptureInv, Captured
    <2>5. CASE TakeResponse(r)
      <3>1. /\ pc[r] # "done" /\ pc'[r] = "done"
            /\ result'[r] = chan[r] /\ result'[r] # None /\ chan'[r] # None
        BY <1>0, <2>2, <2>5 DEF TakeResponse, TypeOK
      <3>2. /\ capture'[r].started = capture[r].started + 1
            /\ capture'[r].saving = capture[r].saving + 1
            /\ capture'[r].stored = capture[r].stored
        BY <1>0, <2>5, CaptureTypes DEF TakeResponse, StartCapture, Captures
      <3>3. /\ capture[r].started = 0 /\ capture[r].saving \in Nat
            /\ capture[r].stored \in Nat
            /\ capture[r].saving + capture[r].stored <= 0
        BY <3>1, CaptureTypes DEF CaptureInv, Captured
      <3>4. Captured(r)' /\ capture'[r].started = 1
        BY <3>2, <3>3 DEF Captured
      <3> QED
        BY <2>1, <2>2, <3>1, <3>4 DEF CaptureInv, Captured
    <2>6. CASE SaveCapture(r)
      <3>1. /\ UNCHANGED <<pc, result>>
            /\ capture'[r].started = capture[r].started
        BY <1>0, <2>6, CaptureTypes DEF SaveCapture, Captures
      <3>2. PICK rows \in {0, 1} :
               /\ capture'[r].saving = capture[r].saving - 1
               /\ capture'[r].stored = capture[r].stored + rows
        BY <1>0, <2>6, CaptureTypes DEF SaveCapture, Captures
      <3>3. /\ capture[r].started \in Nat /\ capture[r].saving \in Nat
            /\ capture[r].stored \in Nat
        BY <1>0, CaptureTypes
      <3>4. Captured(r)'
        BY <3>1, <3>2, <3>3 DEF CaptureInv, Captured
      <3> QED
        BY <2>1, <2>2, <3>1, <3>4 DEF CaptureInv, Captured
    <2> QED
      BY <1>1, <2>3, <2>4, <2>5, <2>6 DEF CallStep
  <1>2. ASSUME Deliver
        PROVE  CaptureInv'
    <2>1. UNCHANGED <<pc, result, capture>>
      BY <1>2 DEF Deliver
    <2>2. \A r \in Requests : chan[r] # None => chan'[r] = chan[r]
      BY <1>0, <1>2 DEF Deliver, Send, TypeOK
    <2> QED
      BY <2>1, <2>2 DEF CaptureInv, Captured
  <1>3. ASSUME (ReaderStep /\ ~Deliver) \/ AgentStep \/ UNCHANGED vars
        PROVE  CaptureInv'
    <2>1. UNCHANGED <<pc, result, capture, chan>>
      BY <1>3 DEF ReaderStep, ReadDisconnect, ReadFails, Close, Remove, MarkRow, AgentStep,
         HandlerStep, AgentRead, Leave, CloseSocket, AgentReadFails, Cut, AppRuns,
         AppUnreachable, Reply, vars
    <2> QED
      BY <2>1 DEF CaptureInv, Captured
  <1> QED
    BY <1>1, <1>2, <1>3 DEF Next

\* A waiting call's answer moves on, and gets lost only with the connection.
LEMMA UnderWayStep ==
    ASSUME IInv, IInv', AnswerUnderWay, [Next]_vars
    PROVE  AnswerUnderWay'
  <1> USE ForwardConstants DEF IInv, callVars, agentVars, connVars
  <1>0. /\ TypeOK /\ TypeOK'
        /\ DOMAIN down = 1..Len(down) /\ DOMAIN up = 1..Len(up)
        /\ DOMAIN down' = 1..Len(down') /\ DOMAIN up' = 1..Len(up')
    BY SeqDomain DEF TypeOK
  <1>1. SUFFICES ASSUME peer' = "serving", NEW q \in Requests, pc'[q] \in Sent
                 PROVE  UnderWay(q)'
    BY DEF AnswerUnderWay
  <1>2. peer = "serving"
    BY <1>0, <1>1 DEF Next, CallStep, Lookup, Refuse, Store, LockWriter, Write, Select,
       WriteFails, TakeResponse, Timeout, SeeClosed, SaveCapture, GiveUp, ReaderStep,
       Deliver, ReadDisconnect, ReadFails, Close, Remove, MarkRow, AgentStep,
       HandlerStep, AgentRead, Leave, CloseSocket, AgentReadFails, Cut, AppRuns,
       AppUnreachable, Reply, vars
  <1>3. \A r \in Requests : pc[r] \in Sent => UnderWay(r)
    BY <1>2 DEF AnswerUnderWay
  <1>4. ASSUME NEW r \in Requests, CallStep(r)
        PROVE  UnderWay(q)'
    <2>1. CASE Write(r)
      <3> DEFINE frame == [id |-> id[r], req |-> r]
      <3>1. /\ UNCHANGED <<id, chan, handlers, up>>
            /\ down' = Append(down, frame)
            /\ pc' = [pc EXCEPT ![r] = "written"]
            /\ frame \in [id : 1..minted, req : Requests]
        BY <1>0, <2>1, WaitingHasId DEF Write, Waiting
      <3>2. /\ Len(down') = Len(down) + 1
            /\ \A k \in 1..Len(down) : down'[k] = down[k]
            /\ down'[Len(down) + 1] = frame
            /\ Len(down) \in Nat
        BY <1>0, <3>1, SeqFacts DEF TypeOK
      <3>3. CASE q = r
        <4>1. Len(down) + 1 \in DOMAIN down' /\ down'[Len(down) + 1].id = id'[q]
          BY <1>0, <3>1, <3>2, <3>3
        <4> QED
          BY <4>1 DEF UnderWay
      <3>4. CASE q # r
        <4>1. UnderWay(q)
          BY <1>0, <1>1, <1>3, <3>1, <3>4 DEF TypeOK
        <4>2. \A k \in DOMAIN down : k \in DOMAIN down' /\ down'[k] = down[k]
          BY <1>0, <3>2
        <4> QED
          BY <3>1, <4>1, <4>2 DEF UnderWay
      <3> QED
        BY <3>3, <3>4
    <2>2. CASE ~Write(r)
      <3>1. /\ UNCHANGED <<chan, down, handlers, up>>
            /\ pc[q] \in Sent
            /\ id'[q] = id[q]
        BY <1>0, <1>1, <1>4, <2>2 DEF CallStep, Lookup, Refuse, Store, LockWriter, Select,
           WriteFails, TakeResponse, Timeout, SeeClosed, SaveCapture, GiveUp, TypeOK, Sent, Waiting
      <3> QED
        BY <1>3, <3>1 DEF UnderWay
    <2> QED
      BY <2>1, <2>2
  <1>5. ASSUME Deliver
        PROVE  UnderWay(q)'
    <2>1. /\ UNCHANGED <<pc, id, pending, down, handlers>>
          /\ up # << >> /\ up' = Tail(up)
      BY <1>5 DEF Deliver
    <2>2. /\ Head(up) = up[1] /\ 1 \in DOMAIN up
          /\ \A k \in DOMAIN up : k # 1 => k - 1 \in DOMAIN up' /\ up'[k - 1] = up[k]
      <3> DEFINE Frames == [id : 1..minted, body : Bodies] \cup {Disconnect}
      <3>1. up \in Seq(Frames)
        BY <1>0 DEF TypeOK
      <3> HIDE DEF Frames
      <3> QED
        BY <2>1, <3>1, SeqTail
    <2>3. UnderWay(q)
      BY <1>1, <1>3, <2>1
    <2>4. CASE chan[q] # None
      BY <1>0, <1>5, <2>4 DEF UnderWay, Deliver, Send, TypeOK
    <2>5. CASE up[1] # Disconnect /\ up[1].id = id[q]
      <3>1. id[q] \in DOMAIN pending /\ pending[id[q]] = q
        BY <1>0, <1>1, <2>1, WaitingHasId DEF Waiting
      <3>2. chan' = Send(q, up[1].body)
        BY <1>5, <2>1, <2>5, <2>2, <3>1 DEF Deliver
      <3>3. up[1].body \in Bodies
        <4>1. up[1] \in [id : 1..minted, body : Bodies] \cup {Disconnect}
          BY <1>0, <2>1, <2>2, SeqElement DEF TypeOK
        <4> QED
          BY <2>5, <4>1
      <3>4. chan'[q] # None
        BY <1>0, <3>2, <3>3 DEF Send, TypeOK, Bodies
      <3> QED
        BY <3>4 DEF UnderWay
    <2>6. CASE \E k \in DOMAIN up : k # 1 /\ up[k] # Disconnect /\ up[k].id = id[q]
      BY <2>1, <2>6, <2>2 DEF UnderWay
    <2>7. CASE \/ \E k \in DOMAIN down : down[k].id = id[q]
               \/ \E h \in handlers : h.id = id[q]
      BY <2>1, <2>7 DEF UnderWay
    <2> QED
      BY <2>3, <2>4, <2>5, <2>6, <2>7 DEF UnderWay
  <1>6. ASSUME ReadDisconnect
        PROVE  UnderWay(q)'
    <2>1. /\ UNCHANGED <<pc, id, chan, down, handlers>>
          /\ up # << >> /\ up' = Tail(up) /\ Head(up) = Disconnect
      BY <1>6 DEF ReadDisconnect
    <2>2. up \in Seq([id : 1..minted, body : Bodies] \cup {Disconnect})
      BY <1>0 DEF TypeOK
    <2>3. /\ up[1] = Disconnect
          /\ \A k \in DOMAIN up : k # 1 => k - 1 \in DOMAIN up' /\ up'[k - 1] = up[k]
      BY <2>2, <2>1, SeqTail
    <2>4. UnderWay(q)
      BY <1>1, <1>3, <2>1
    <2> QED
      BY <2>1, <2>4, <2>3 DEF UnderWay
  <1>7. ASSUME AgentRead
        PROVE  UnderWay(q)'
    <2>1. /\ UNCHANGED <<pc, id, chan, up>>
          /\ down # << >> /\ down' = Tail(down)
          /\ handlers' = handlers \cup
                {[id |-> Head(down).id, req |-> Head(down).req, body |-> None]}
      BY <1>7 DEF AgentRead
    <2>2. /\ Head(down) = down[1]
          /\ \A k \in DOMAIN down : k # 1 => k - 1 \in DOMAIN down' /\ down'[k - 1] = down[k]
      <3> DEFINE Frames == [id : 1..minted, req : Requests]
      <3>1. down \in Seq(Frames)
        BY <1>0 DEF TypeOK
      <3> HIDE DEF Frames
      <3> QED
        BY <2>1, <3>1, SeqTail
    <2>3. /\ UNCHANGED <<pc, id, chan, up>>
          /\ handlers' = handlers \cup
                {[id |-> down[1].id, req |-> down[1].req, body |-> None]}
      BY <2>2, <2>1
    <2>4. UnderWay(q)
      BY <1>1, <1>3, <2>3
    <2>5. CASE \E k \in DOMAIN down : down[k].id = id[q]
      <3>1. PICK k \in DOMAIN down : down[k].id = id[q]
        BY <2>5
      <3>2. CASE k = 1
        <4>1. [id |-> down[1].id, req |-> down[1].req, body |-> None].id = id'[q]
          BY <2>3, <3>1, <3>2
        <4> QED
          BY <2>3, <4>1 DEF UnderWay
      <3>3. CASE k # 1
        BY <2>3, <2>2, <3>1, <3>3 DEF UnderWay
      <3> QED
        BY <3>2, <3>3
    <2> QED
      BY <2>3, <2>4, <2>5 DEF UnderWay
  <1>8. ASSUME NEW h \in handlers, AppRuns(h) \/ AppUnreachable(h)
        PROVE  UnderWay(q)'
    <2>1. PICK body \in {h.req, Failed} :
             handlers' = (handlers \ {h}) \cup {[h EXCEPT !.body = body]}
      BY <1>8 DEF AppRuns, AppUnreachable
    <2>2. [h EXCEPT !.body = body].id = h.id
      BY <1>0 DEF TypeOK
    <2>3. UNCHANGED <<pc, id, chan, down, up>>
      BY <1>8 DEF AppRuns, AppUnreachable
    <2>4. UnderWay(q)
      BY <1>1, <1>3, <2>3
    <2> QED
      BY <2>1, <2>2, <2>3, <2>4 DEF UnderWay
  <1>9. ASSUME NEW h \in handlers, Reply(h)
        PROVE  UnderWay(q)'
    <2> DEFINE frame == [id |-> h.id, body |-> h.body]
    <2>1. /\ UNCHANGED <<pc, id, chan, down>>
          /\ handlers' = handlers \ {h}
          /\ up' = Append(up, frame)
      BY <1>2, <1>9 DEF Reply, Running
    <2>2. frame \in [id : 1..minted, body : Bodies]
      BY <1>0, <1>9 DEF TypeOK, Reply
    <2>3. /\ \A k \in DOMAIN up : k \in DOMAIN up' /\ up'[k] = up[k]
          /\ Len(up) + 1 \in DOMAIN up' /\ up'[Len(up) + 1] = frame
      <3> DEFINE Frames == [id : 1..minted, body : Bodies] \cup {Disconnect}
      <3>1. up \in Seq(Frames) /\ frame \in Frames
        BY <1>0, <2>2 DEF TypeOK
      <3> HIDE DEF Frames, frame
      <3>2. /\ DOMAIN Append(up, frame) = DOMAIN up \cup {Len(up) + 1}
            /\ \A k \in DOMAIN up : Append(up, frame)[k] = up[k]
            /\ Append(up, frame)[Len(up) + 1] = frame
        BY <3>1, SeqAppend
      <3> QED
        BY <2>1, <3>2
    <2>4. frame # Disconnect
      <3>1. frame \in [id : Nat, body : Requests \cup {Failed}]
        BY <2>2 DEF Bodies
      <3> QED
        BY <3>1, FrameKinds
    <2>5. UnderWay(q)
      BY <1>1, <1>3, <2>1
    <2> QED
      BY <2>1, <2>3, <2>4, <2>5 DEF UnderWay
  <1>10. CASE ReadFails \/ Close \/ Remove \/ MarkRow \/ UNCHANGED vars
    <2>1. UNCHANGED <<pc, id, chan, down, handlers, up>>
      BY <1>10 DEF ReadFails, Close, Remove, MarkRow, vars
    <2> QED
      BY <1>1, <1>3, <2>1 DEF UnderWay
  <1>11. ~ (Leave \/ CloseSocket \/ AgentReadFails \/ Cut)
    BY <1>1 DEF Leave, CloseSocket, AgentReadFails, Cut
  <1> QED
    BY <1>4, <1>5, <1>6, <1>7, <1>8, <1>9, <1>10, <1>11
    DEF Next, ReaderStep, AgentStep, HandlerStep
-----------------------------------------------------------------------------
(* No request runs twice.                                                  *)

\* The request has been written to the agent, if it ever will be.
Answering(r) == pc[r] \in Sent \cup {"done"}

\* Of one request there is at most one frame or one handler, which has not run
\* it yet, and a body that answers it exists only once it ran.
RanInv ==
    \A r \in Requests : executed[r] \in {0, 1} /\ (executed[r] = 1 => Answering(r))

FramesInv ==
    /\ \A k \in DOMAIN down : Answering(down[k].req) /\ executed[down[k].req] = 0
    /\ \A j, k \in DOMAIN down : down[j].req = down[k].req => j = k

HandlersInv ==
    \A h \in handlers :
        /\ Answering(h.req)
        /\ \A k \in DOMAIN down : down[k].req # h.req
        /\ \A g \in handlers : g.req = h.req => g = h
        /\ h.body = None => executed[h.req] = 0

AnswersInv ==
    \A r \in Requests :
        \/ executed[r] = 1
        \/ /\ chan[r] # r
           /\ \A h \in handlers : h.body # r
           /\ \A k \in DOMAIN up : up[k] # Disconnect => up[k].body # r

OnceInv == RanInv /\ FramesInv /\ HandlersInv /\ AnswersInv

\* What the frames and handlers of one agent are about.
LEMMA FrameTypes ==
    ASSUME TypeOK
    PROVE  /\ \A h \in handlers : h.req \in Requests /\ h.body \in Bodies \cup {None}
           /\ \A k \in DOMAIN down : down[k].req \in Requests
  <1>1. DOMAIN down = 1..Len(down)
    BY SeqDomain DEF TypeOK
  <1>2. \A k \in DOMAIN down : down[k] \in [id : 1..minted, req : Requests]
    BY <1>1, SeqElement DEF TypeOK
  <1> QED
    BY <1>2 DEF TypeOK

\* A call puts one frame into the socket, and never when it is done.
LEMMA CallOnceStep ==
    ASSUME TypeOK, PendingExact, OnceInv, NEW r \in Requests, CallStep(r)
    PROVE  OnceInv'
  <1> USE DEF OnceInv, callVars, agentVars, connVars
  <1>0. \A q \in Requests : Answering(q) => Answering(q)'
    BY DEF CallStep, Lookup, Refuse, Store, LockWriter, Write, Select, WriteFails,
       TakeResponse, Timeout, SeeClosed, SaveCapture, GiveUp, TypeOK, Answering, Sent
  <1>1. UNCHANGED <<executed, handlers, up, chan>>
    BY DEF CallStep, Lookup, Refuse, Store, LockWriter, Write, Select, WriteFails,
       TakeResponse, Timeout, SeeClosed, SaveCapture, GiveUp
  <1>2. RanInv' /\ AnswersInv'
    BY <1>0, <1>1 DEF RanInv, AnswersInv
  <1>3. /\ \A h \in handlers : h.req \in Requests
        /\ \A k \in DOMAIN down : down[k].req \in Requests
    BY FrameTypes
  <1>4. CASE Write(r)
    <2> DEFINE frame == [id |-> id[r], req |-> r]
               Frames == [id : 1..minted, req : Requests]
    <2>1. /\ down' = Append(down, frame)
          /\ down \in Seq(Frames) /\ frame \in Frames
          /\ frame.req = r
      BY <1>4, WaitingHasId DEF Write, Waiting, TypeOK
    <2>2. ~Answering(r) /\ Answering(r)'
      BY <1>4 DEF Write, Answering, Sent, TypeOK
    <2>3. executed[r] = 0
      BY <2>2 DEF RanInv
    <2>4. /\ \A k \in DOMAIN down : down[k].req # r
          /\ \A h \in handlers : h.req # r
      BY <2>2 DEF FramesInv, HandlersInv
    <2> HIDE DEF frame, Frames
    <2>5. /\ DOMAIN down' = DOMAIN down \cup {Len(down) + 1}
          /\ \A k \in DOMAIN down : down'[k] = down[k]
          /\ down'[Len(down) + 1] = frame
      BY <2>1, SeqAppend
    <2>6. FramesInv'
      BY <1>0, <1>1, <1>3, <2>1, <2>2, <2>3, <2>4, <2>5 DEF FramesInv
    <2>7. HandlersInv'
      BY <1>0, <1>1, <1>3, <2>1, <2>4, <2>5 DEF HandlersInv
    <2> QED
      BY <1>2, <2>6, <2>7
  <1>5. CASE ~Write(r)
    <2>1. down' = down
      BY <1>5 DEF CallStep, Lookup, Refuse, Store, LockWriter, Select, WriteFails,
         TakeResponse, Timeout, SeeClosed, SaveCapture, GiveUp
    <2> QED
      BY <1>0, <1>1, <1>2, <1>3, <2>1 DEF FramesInv, HandlersInv
  <1> QED
    BY <1>4, <1>5

\* The gateway's read loop moves answers, and makes none.
LEMMA ReaderOnceStep ==
    ASSUME TypeOK, OnceInv, ReaderStep
    PROVE  OnceInv'
  <1> USE DEF OnceInv, callVars, agentVars, connVars
  <1>1. UNCHANGED <<pc, executed, down, handlers>>
    BY DEF ReaderStep, Deliver, ReadDisconnect, ReadFails, Close, Remove, MarkRow
  <1>2. RanInv' /\ FramesInv' /\ HandlersInv'
    BY <1>1 DEF RanInv, FramesInv, HandlersInv, Answering
  <1>3. CASE up # << >> /\ up' = Tail(up)
    <2> DEFINE Frames == [id : 1..minted, body : Bodies] \cup {Disconnect}
    <2>1. up \in Seq(Frames)
      BY DEF TypeOK
    <2> HIDE DEF Frames
    <2>2. /\ Head(up) = up[1] /\ 1 \in DOMAIN up
          /\ \A k \in DOMAIN up' : k + 1 \in DOMAIN up /\ up'[k] = up[k + 1]
      BY <1>3, <2>1, SeqTail
    <2>3. \A r \in Requests : chan'[r] # r \/ chan[r] = r \/ (up[1] # Disconnect /\ up[1].body = r)
      BY <2>2 DEF ReaderStep, Deliver, Send, ReadDisconnect, ReadFails, Close, Remove,
         MarkRow, TypeOK
    <2> QED
      BY <1>1, <1>2, <2>2, <2>3 DEF AnswersInv
  <1>4. CASE ~(up # << >> /\ up' = Tail(up))
    <2>1. UNCHANGED <<up, chan>>
      BY <1>4 DEF ReaderStep, Deliver, ReadDisconnect, ReadFails, Close, Remove, MarkRow
    <2> QED
      BY <1>1, <1>2, <2>1 DEF AnswersInv
  <1> QED
    BY <1>3, <1>4

\* The agent turns a frame into one handler, which runs the request once.
LEMMA AgentOnceStep ==
    ASSUME TypeOK, OnceInv, AgentStep
    PROVE  OnceInv'
  <1> USE ForwardConstants DEF OnceInv, callVars, agentVars, connVars
  <1>1. UNCHANGED <<pc, chan>> /\ \A r \in Requests : Answering(r) => Answering(r)'
    BY DEF AgentStep, HandlerStep, AgentRead, Leave, CloseSocket, AgentReadFails, Cut,
       AppRuns, AppUnreachable, Reply, Answering
  <1>2. /\ \A h \in handlers : h.req \in Requests /\ h.body \in Bodies \cup {None}
        /\ \A k \in DOMAIN down : down[k].req \in Requests
    BY FrameTypes
  <1>3. CASE AgentRead
    <2> DEFINE Frames == [id : 1..minted, req : Requests]
               new == [id |-> down[1].id, req |-> down[1].req, body |-> None]
    <2>1. /\ down \in Seq(Frames)
          /\ down # << >> /\ down' = Tail(down)
      BY <1>3 DEF AgentRead, TypeOK
    <2>2. /\ new.req = down[1].req /\ new.body = None
          /\ \A r \in Requests : new.body # r
      OBVIOUS
    <2> HIDE DEF Frames
    <2>3. /\ Head(down) = down[1] /\ 1 \in DOMAIN down
          /\ \A k \in DOMAIN down' : k + 1 \in DOMAIN down /\ down'[k] = down[k + 1]
      BY <2>1, SeqTail
    <2>4. UNCHANGED <<executed, up>> /\ handlers' = handlers \cup {new}
      BY <1>3, <2>3 DEF AgentRead
    <2>5. DOMAIN down' \subseteq Nat \ {0}
      BY <2>1, SeqDomain, SeqFacts
    <2> HIDE DEF new
    <2>6. \A k \in DOMAIN down' : down'[k].req # down[1].req
      BY <2>3, <2>5 DEF FramesInv
    <2>7. RanInv' /\ AnswersInv'
      BY <1>1, <2>2, <2>4 DEF RanInv, AnswersInv
    <2>8. FramesInv'
      <3>1. \A k \in DOMAIN down' : Answering(down[k].req)' /\ executed'[down'[k].req] = 0
        BY <1>1, <1>2, <2>3, <2>4 DEF FramesInv
      <3>2. \A j, k \in DOMAIN down' : down'[j].req = down'[k].req => j = k
        BY <2>3, <2>5 DEF FramesInv
      <3> QED
        BY <3>1, <3>2 DEF FramesInv
    <2>9. HandlersInv'
      <3> SUFFICES ASSUME NEW h \in handlers'
                   PROVE  /\ Answering(h.req)'
                          /\ \A k \in DOMAIN down' : down'[k].req # h.req
                          /\ \A g \in handlers' : g.req = h.req => g = h
                          /\ h.body = None => executed'[h.req] = 0
        BY DEF HandlersInv
      <3>1. CASE h \in handlers
        BY <1>1, <1>2, <2>2, <2>3, <2>4, <3>1 DEF HandlersInv
      <3>2. CASE h = new
        <4>1. \A g \in handlers : g.req # h.req
          BY <2>2, <2>3, <3>2 DEF HandlersInv
        <4> QED
          BY <1>1, <1>2, <2>2, <2>3, <2>4, <2>6, <3>2, <4>1 DEF FramesInv
      <3> QED
        BY <2>4, <3>1, <3>2
    <2> QED
      BY <2>7, <2>8, <2>9
  <1>4. ASSUME NEW h \in handlers, AppRuns(h) \/ AppUnreachable(h)
        PROVE  OnceInv'
    <2>1. PICK body \in {h.req, Failed} :
             /\ handlers' = (handlers \ {h}) \cup {[h EXCEPT !.body = body]}
             /\ body = h.req => AppRuns(h)
      BY <1>2, <1>4 DEF AppRuns, AppUnreachable
    <2> DEFINE new == [h EXCEPT !.body = body]
    <2>2. new.req = h.req /\ new.body = body /\ body # None
      BY <1>2 DEF TypeOK
    <2>3. UNCHANGED <<down, up>> /\ h.body = None
      BY <1>4 DEF AppRuns, AppUnreachable
    <2>4. /\ \A r \in Requests : r # h.req => executed'[r] = executed[r]
          /\ executed[h.req] = 0 /\ executed'[h.req] \in {0, 1}
          /\ body = h.req => executed'[h.req] = 1
      BY <1>2, <1>4, <2>1, <2>3 DEF AppRuns, AppUnreachable, TypeOK, HandlersInv
    <2> HIDE DEF new
    <2>5. RanInv'
      BY <1>1, <1>2, <2>4 DEF RanInv, HandlersInv
    <2>6. FramesInv'
      BY <1>1, <1>2, <2>3, <2>4 DEF FramesInv, HandlersInv
    <2>7. HandlersInv'
      <3>1. \A g \in handlers' : g = new \/ (g \in handlers /\ g.req # h.req)
        BY <2>1 DEF new, HandlersInv
      <3> QED
        BY <1>1, <1>2, <2>2, <2>3, <2>4, <3>1 DEF HandlersInv
    <2>8. AnswersInv'
      BY <1>1, <1>2, <2>1, <2>2, <2>3, <2>4 DEF AnswersInv, new
    <2> QED
      BY <2>5, <2>6, <2>7, <2>8
  <1>5. ASSUME NEW h \in handlers, Reply(h)
        PROVE  OnceInv'
    <2> DEFINE frame == [id |-> h.id, body |-> h.body]
               Frames == [id : 1..minted, body : Bodies] \cup {Disconnect}
    <2>1. /\ UNCHANGED <<executed, down>>
          /\ handlers' = handlers \ {h}
          /\ up' = up \/ up' = Append(up, frame)
      BY <1>5 DEF Reply
    <2>2. /\ up \in Seq(Frames) /\ frame \in Frames
          /\ frame.body = h.body
      BY <1>5 DEF Reply, TypeOK
    <2> HIDE DEF frame, Frames
    <2>3. \A k \in DOMAIN up' : (k \in DOMAIN up /\ up'[k] = up[k]) \/ up'[k] = frame
      BY <2>1, <2>2, SeqAppend
    <2> QED
      BY <1>1, <1>2, <2>1, <2>2, <2>3 DEF RanInv, FramesInv, HandlersInv, AnswersInv
  <1>6. CASE Leave
    <2> DEFINE Frames == [id : 1..minted, body : Bodies] \cup {Disconnect}
    <2>1. /\ UNCHANGED <<executed, down, handlers>>
          /\ up' = Append(up, Disconnect)
          /\ up \in Seq(Frames) /\ Disconnect \in Frames
      BY <1>6 DEF Leave, TypeOK
    <2> HIDE DEF Frames
    <2>2. \A k \in DOMAIN up' : (k \in DOMAIN up /\ up'[k] = up[k]) \/ up'[k] = Disconnect
      BY <2>1, SeqAppend
    <2> QED
      BY <1>1, <1>2, <2>1, <2>2 DEF RanInv, FramesInv, HandlersInv, AnswersInv
  <1>7. CASE CloseSocket \/ AgentReadFails \/ Cut
    <2>1. UNCHANGED <<executed, down, handlers, up>>
      BY <1>7 DEF CloseSocket, AgentReadFails, Cut
    <2> QED
      BY <1>1, <1>2, <2>1 DEF RanInv, FramesInv, HandlersInv, AnswersInv
  <1> QED
    BY <1>3, <1>4, <1>5, <1>6, <1>7 DEF AgentStep, HandlerStep
-----------------------------------------------------------------------------
(* The tunnel's promise, step by step.                                     *)

\* The gateway starts as an unasked promise.
LEMMA PromiseInit == Init => Promise!Init
  BY DEF Init, Promise!Init

\* A step of a call asks, refuses, answers or fails one request, or none.
LEMMA CallPromiseStep ==
    ASSUME IInv, CaptureInv, OnceInv, NEW r \in Requests, CallStep(r)
    PROVE  [Promise!Next]_Promise!vars
  <1> USE DEF IInv, callVars, agentVars, connVars
  <1>0. TypeOK /\ executed' = executed
    BY DEF CallStep, Lookup, Refuse, Store, LockWriter, Write, Select, WriteFails,
       TakeResponse, Timeout, SeeClosed, SaveCapture, GiveUp
  <1> DEFINE asked == {q \in Requests : pc[q] # "idle"}
  <1>1. CASE Lookup(r)
    <2>1. /\ r \notin asked /\ asked' = asked \cup {r}
          /\ result' = result
      BY <1>0, <1>1 DEF Lookup, TypeOK
    <2>2. Promise!Ask(r)
      BY <1>0, <2>1 DEF Promise!Ask
    <2> QED
      BY <2>2 DEF Promise!Next
  <1>2. CASE Refuse(r)
    <2>1. /\ r \notin asked /\ asked' = asked \cup {r}
          /\ result' = [result EXCEPT ![r] = Failed]
      BY <1>0, <1>2 DEF Refuse, TypeOK
    <2>2. Promise!Refuse(r)
      BY <1>0, <2>1 DEF Promise!Refuse
    <2> QED
      BY <2>2 DEF Promise!Next
  <1>3. ASSUME pc[r] \in Waiting, pc' = [pc EXCEPT ![r] = "done"],
               result' = [result EXCEPT ![r] = Failed]
        PROVE  Promise!Next
    <2>1. /\ asked' = asked
          /\ {r} \subseteq {q \in asked : result[q] = None}
          /\ result' = [q \in Requests |-> IF q \in {r} THEN Failed ELSE result[q]]
      BY <1>0, <1>3 DEF TypeOK, CaptureInv, Waiting, Sent
    <2>2. Promise!Fail({r})
      BY <1>0, <2>1 DEF Promise!Fail, Promise!Open
    <2> QED
      BY <2>2 DEF Promise!Next
  <1>4. CASE WriteFails(r) \/ Timeout(r) \/ SeeClosed(r)
    BY <1>3, <1>4 DEF WriteFails, Timeout, SeeClosed, GiveUp, Waiting, Sent
  <1>5. CASE TakeResponse(r)
    <2>1. /\ pc[r] \in Waiting /\ pc' = [pc EXCEPT ![r] = "done"]
          /\ result' = [result EXCEPT ![r] = chan[r]]
          /\ chan[r] \in {r, Failed}
      BY <1>5 DEF TakeResponse, Waiting, Sent, ChannelsOwned
    <2>2. CASE chan[r] = Failed
      BY <1>3, <2>1, <2>2
    <2>3. CASE chan[r] = r
      <3>1. /\ executed[r] = 1
            /\ result[r] = None
            /\ asked' = asked
        BY <1>0, <2>1, <2>3 DEF OnceInv, AnswersInv, CaptureInv, TypeOK, Waiting, Sent
      <3>2. Promise!Answer(r)
        BY <1>0, <2>1, <2>3, <3>1 DEF Promise!Answer
      <3> QED
        BY <3>2 DEF Promise!Next
    <2> QED
      BY <2>1, <2>2, <2>3
  <1>6. CASE Store(r) \/ LockWriter(r) \/ Write(r) \/ Select(r) \/ SaveCapture(r)
    <2>1. asked' = asked /\ result' = result
      BY <1>0, <1>6 DEF Store, LockWriter, Write, Select, SaveCapture, TypeOK
    <2> QED
      BY <1>0, <2>1 DEF Promise!vars
  <1> QED
    BY <1>1, <1>2, <1>4, <1>5, <1>6 DEF CallStep

\* Of the rest of the system only the application's run is seen by the promise.
LEMMA OtherPromiseStep ==
    ASSUME IInv, OnceInv, ReaderStep \/ AgentStep \/ UNCHANGED vars
    PROVE  [Promise!Next]_Promise!vars
  <1> USE DEF IInv, callVars, agentVars, connVars
  <1>1. UNCHANGED <<pc, result>>
    BY DEF ReaderStep, Deliver, ReadDisconnect, ReadFails, Close, Remove, MarkRow, AgentStep,
       HandlerStep, AgentRead, Leave, CloseSocket, AgentReadFails, Cut, AppRuns,
       AppUnreachable, Reply, vars
  <1>2. CASE executed' = executed
    BY <1>1, <1>2 DEF Promise!vars
  <1>3. CASE executed' # executed
    <2>1. PICK h \in handlers : AppRuns(h)
      BY <1>3 DEF ReaderStep, Deliver, ReadDisconnect, ReadFails, Close, Remove, MarkRow,
         AgentStep, HandlerStep, AgentRead, Leave, CloseSocket, AgentReadFails, Cut,
         AppUnreachable, Reply, vars
    <2>2. /\ h.req \in Requests
          /\ pc[h.req] # "idle"
          /\ executed[h.req] = 0
      BY <2>1, FrameTypes DEF AppRuns, OnceInv, HandlersInv, Answering, Sent
    <2>3. executed' = [executed EXCEPT ![h.req] = 1]
      BY <2>1, <2>2 DEF AppRuns
    <2>4. Promise!Execute(h.req)
      BY <1>1, <2>2, <2>3 DEF Promise!Execute
    <2> QED
      BY <2>2, <2>4 DEF Promise!Next
  <1> QED
    BY <1>2, <1>3
-----------------------------------------------------------------------------
\* IInv, with where answers are, what is captured and what ran.
FullInv ==
    /\ IInv
    /\ AnswerUnderWay
    /\ CaptureInv
    /\ OnceInv

\* The full invariant holds in every reachable state.
THEOREM FullInvariance == Spec => []FullInv
  <1>1. Init => FullInv
    <2> SUFFICES ASSUME Init
                 PROVE  FullInv
      OBVIOUS
    <2>1. IInv
      BY IInvInit
    <2>2. AnswerUnderWay /\ CaptureInv
      BY ForwardConstants DEF Init, AnswerUnderWay, Sent, CaptureInv, Captured
    <2>3. OnceInv
      BY ForwardConstants DEF Init, OnceInv, RanInv, FramesInv, HandlersInv, AnswersInv
    <2> QED
      BY <2>1, <2>2, <2>3 DEF FullInv
  <1>2. FullInv /\ [Next]_vars => FullInv'
    <2> SUFFICES ASSUME FullInv, [Next]_vars
                 PROVE  FullInv'
      OBVIOUS
    <2>1. IInv /\ IInv' /\ TypeOK /\ PendingExact
      BY IInvStep DEF FullInv, IInv
    <2>2. AnswerUnderWay' /\ CaptureInv'
      BY <2>1, UnderWayStep, CaptureStep DEF FullInv
    <2>3. OnceInv'
      <3>1. CASE UNCHANGED vars
        BY <3>1 DEF FullInv, OnceInv, RanInv, FramesInv, HandlersInv, AnswersInv, Answering,
           vars, callVars, agentVars, connVars
      <3>2. CASE Next
        BY <2>1, <3>2, CallOnceStep, ReaderOnceStep, AgentOnceStep DEF Next, FullInv
      <3> QED
        BY <3>1, <3>2
    <2> QED
      BY <2>1, <2>2, <2>3 DEF FullInv
  <1> QED
    BY <1>1, <1>2, PTL DEF Spec

\* While the connection is up on both sides the answer to a call that waits is
\* somewhere on its way, even when it overtakes the call's select (deliver's
\* non-blocking send into the buffered channel of AgentConn.forward).
THEOREM AnswersStayUnderWay == Spec => []AnswerUnderWay
  BY FullInvariance, PTL DEF FullInv

\* serveLocally starts one capture for each exchange the agent answered, and
\* none for any other: an exchange is recorded at most once.
THEOREM CapturedExactly == Spec => []CapturedIffForwarded
  <1>1. CaptureInv => CapturedIffForwarded
    BY DEF CaptureInv, Captured, CapturedIffForwarded
  <1> QED
    BY <1>1, FullInvariance, PTL DEF FullInv

\* Every step of the connection is a step the tunnel's promise allows, or none:
\* a request is executed at most once, and answered once, by its own response
\* or a failure (the safety half of KeepsPromise).
THEOREM RefinesPromise == Spec => Promise!Init /\ [][Promise!Next]_Promise!vars
  <1>1. FullInv /\ [Next]_vars => [Promise!Next]_Promise!vars
    BY CallPromiseStep, OtherPromiseStep DEF FullInv, Next
  <1> QED
    BY <1>1, PromiseInit, FullInvariance, PTL DEF Spec
-----------------------------------------------------------------------------
(* The agent's end (AgentClient): its loop of connections and the writers  *)
(* of each.                                                                *)

\* A connection that is yet to be made has neither socket nor goroutines.
Unmade ==
    \A c \in Conns : c > conn =>
        sock[c] = "none" /\ \A p \in Procs : at[c][p] = "off"

\* The handshake writes while connectAndServe waits for it, and the heartbeat
\* starts only after it: what Registered starts is not writing already.
HandshakeFirst ==
    /\ \A c \in Conns : at[c]["main"] # "off" => c = conn /\ main = "registering"
    /\ main \in {"registering", "awaiting"} => at[conn]["heart"] = "off"

LoopInv == OneOpen /\ Unmade /\ HandshakeFirst

USE AgentConstants
-----------------------------------------------------------------------------
\* A free mutex is held by nobody, for no goroutine is called that.
LEMMA FreeNobody == "free" \notin Procs
  BY DEF Procs

\* The goroutines that every connection has.
LEMMA NamedProcs == "main" \in Procs /\ "heart" \in Procs /\ "watcher" \in Procs
  BY DEF Procs

\* No connection has been made.
LEMMA InitLoop == AgentInit => LoopInv
  <1> SUFFICES ASSUME AgentInit PROVE LoopInv
    OBVIOUS
  <1>1. 0 \in 0..MaxConns /\ 0 \in 0..SendBuffer
    OBVIOUS
  <1>2. AgentTypeOK
    BY <1>1 DEF AgentInit, AgentTypeOK
  <1> QED
    BY <1>2, FreeNobody, NamedProcs DEF AgentInit, LoopInv, OneOpen, Unmade, HandshakeFirst

\* The goroutine p of c moves from a stage to another, neither of them writing,
\* and nothing else changes but, perhaps, that c's socket is closed.
LEMMA MoveStep ==
    ASSUME LoopInv, NEW c \in Conns, NEW p \in Procs \ {"main"},
           NEW stage \in {"off", "ready", "locking", "closing", "ended"},
           at[c][p] \notin {"off", "writing"}, Goto(c, p, stage),
           UNCHANGED <<cancelled, main, conn, far, out, lock>>,
           sock' = sock \/ sock' = [sock EXCEPT ![c] = "closed"]
    PROVE  LoopInv'
  <1> USE DEF LoopInv
  <1>1. at' = [at EXCEPT ![c][p] = stage] /\ ~(c > conn)
    BY DEF Goto, Unmade
  <1>2. AgentTypeOK'
    BY <1>1 DEF OneOpen, AgentTypeOK
  <1>3. OneOpen'
    BY <1>1, <1>2 DEF OneOpen, AgentTypeOK
  <1>4. HandshakeFirst'
    BY <1>1, NamedProcs DEF HandshakeFirst, OneOpen, AgentTypeOK
  <1> QED
    BY <1>1, <1>3, <1>4 DEF OneOpen, AgentTypeOK, Unmade

\* conn.write: who finds the mutex free takes it, and gives it back after the
\* write.  Only the handshake's write moves connectAndServe.
LEMMA WriteSteps ==
    ASSUME LoopInv, NEW c \in Conns, NEW p \in Procs,
           Lock(c, p) \/ WriteFrame(c, p) \/ WriteBreaks(c, p)
    PROVE  LoopInv'
  <1> USE DEF LoopInv
  <1>1. CASE Lock(c, p)
    <2>1. /\ at' = [at EXCEPT ![c][p] = "writing"] /\ ~(c > conn)
          /\ lock[c] = "free" /\ lock' = [lock EXCEPT ![c] = p]
          /\ UNCHANGED <<cancelled, main, conn, sock, far, out>>
      BY <1>1 DEF Lock, Goto, Unmade
    <2>2. AgentTypeOK'
      BY <2>1 DEF OneOpen, AgentTypeOK
    <2>3. ASSUME NEW d \in Conns, NEW q \in Procs
          PROVE  at'[d][q] = "writing" <=> lock'[d] = q
      BY <2>1, FreeNobody DEF OneOpen, AgentTypeOK
    <2>4. OneOpen'
      BY <2>1, <2>2, <2>3 DEF OneOpen
    <2>5. at[c][p] = "locking"
      BY <1>1 DEF Lock
    <2>6. HandshakeFirst'
      BY <2>1, <2>5, NamedProcs DEF HandshakeFirst, OneOpen, AgentTypeOK
    <2> QED
      BY <2>1, <2>4, <2>6 DEF OneOpen, AgentTypeOK, Unmade
  <1>2. CASE WriteFrame(c, p) \/ WriteBreaks(c, p)
    <2>1. PICK stage \in {"off", "ready", "closing", "ended"} :
              at' = [at EXCEPT ![c][p] = stage]
      BY <1>2 DEF WriteFrame, WriteBreaks, AfterWrite, Goto
    <2>2. /\ at[c][p] = "writing" /\ lock' = [lock EXCEPT ![c] = "free"]
          /\ UNCHANGED <<cancelled, conn, sock, far>>
          /\ main' = main \/ main' \in {"awaiting", "lost"}
      BY <1>2 DEF WriteFrame, WriteBreaks, AfterWrite
    <2>3. conn \in Conns /\ ~(c > conn)
      BY <2>2 DEF OneOpen, AgentTypeOK, Unmade, Conns
    <2>4. out' \in [Conns -> 0..SendBuffer]
      <3>1. \/ out' = out
            \/ out[c] < SendBuffer /\ out' = [out EXCEPT ![c] = @ + 1]
        BY <1>2 DEF WriteFrame, WriteBreaks
      <3>2. out[c] \in 0..SendBuffer
        BY DEF OneOpen, AgentTypeOK
      <3>3. out[c] < SendBuffer => out[c] + 1 \in 0..SendBuffer
        BY <3>2
      <3> QED
        BY <3>1, <3>3 DEF OneOpen, AgentTypeOK
    <2>5. AgentTypeOK'
      BY <2>1, <2>2, <2>3, <2>4 DEF OneOpen, AgentTypeOK
    <2>6. ASSUME NEW d \in Conns, NEW q \in Procs
          PROVE  at'[d][q] = "writing" <=> lock'[d] = q
      BY <2>1, <2>2, FreeNobody DEF OneOpen, AgentTypeOK
    <2>7. OneOpen'
      BY <2>2, <2>5, <2>6 DEF OneOpen
    <2>8. /\ p = "main" => stage = "off" /\ at'[c]["main"] = "off"
          /\ p # "main" => main' = main
      BY <1>2, <2>1, NamedProcs
         DEF WriteFrame, WriteBreaks, AfterWrite, Goto, OneOpen, AgentTypeOK
    <2>9. HandshakeFirst'
      BY <2>1, <2>2, <2>3, <2>8, NamedProcs DEF HandshakeFirst, OneOpen, AgentTypeOK
    <2> QED
      BY <2>1, <2>2, <2>3, <2>7, <2>9 DEF OneOpen, AgentTypeOK, Unmade
  <1> QED
    BY <1>1, <1>2

\* Run's loop: a connection is made only when the one before it is closed.
LEMMA MainSteps ==
    ASSUME LoopInv, MainStep
    PROVE  LoopInv'
  <1> USE DEF LoopInv
  <1>1. CASE Dial
    <2> DEFINE c == conn + 1
    <2>1. c \in Conns /\ c > conn
      BY <1>1 DEF Dial, OneOpen, AgentTypeOK, Conns
    <2>2. /\ conn' = c /\ main' = "registering" /\ main = "dialing"
          /\ sock' = [sock EXCEPT ![c] = "open"]
          /\ at' = [at EXCEPT ![c]["watcher"] = "ready", ![c]["main"] = "locking"]
          /\ UNCHANGED <<cancelled, far, out, lock>>
      BY <1>1 DEF Dial
    <2>3. \A p \in Procs : at[c][p] = "off" /\ lock[c] # p
      BY <2>1 DEF Unmade, OneOpen
    <2> HIDE DEF c
    <2>4. AgentTypeOK'
      <3>1. conn' \in 0..MaxConns
        BY <2>1, <2>2 DEF Conns
      <3> QED
        BY <2>1, <2>2, NamedProcs, <3>1 DEF OneOpen, AgentTypeOK
    <2>5. ASSUME NEW d \in Conns, NEW q \in Procs
          PROVE  at'[d][q] = "writing" <=> lock'[d] = q
      BY <2>1, <2>2, <2>3, NamedProcs DEF OneOpen, AgentTypeOK
    <2>6. OneOpen'
      BY <2>1, <2>2, <2>4, <2>5 DEF OneOpen, AgentTypeOK
    <2>7. ASSUME NEW d \in Conns, d > c
          PROVE  d # c /\ d > conn
      <3>1. conn \in Int /\ d \in Int /\ c = conn + 1
        BY DEF c, OneOpen, AgentTypeOK, Conns
      <3> QED
        BY <2>7, <3>1
    <2>8. HandshakeFirst'
      BY <2>1, <2>2, <2>3, NamedProcs DEF HandshakeFirst, OneOpen, AgentTypeOK
    <2> QED
      BY <2>1, <2>2, <2>6, <2>7, <2>8 DEF OneOpen, AgentTypeOK, Unmade
  <1>2. CASE DialFails \/ Rejected \/ ReadBreaks
    BY <1>2 DEF DialFails, Rejected, ReadBreaks, socketVars, OneOpen, AgentTypeOK, Unmade, HandshakeFirst
  <1>3. CASE ServeReturns
    <2>1. AgentTypeOK'
      BY <1>3 DEF ServeReturns, HungUp, AfterLoss, OneOpen, AgentTypeOK
    <2>2. \A d \in Conns : sock'[d] # "open"
      BY <1>3 DEF ServeReturns, HungUp, OneOpen
    <2>3. HandshakeFirst'
      BY <1>3, <2>1 DEF ServeReturns, AfterLoss, HandshakeFirst
    <2> QED
      BY <1>3, <2>1, <2>2, <2>3 DEF ServeReturns, HungUp, OneOpen, AgentTypeOK, Unmade, Conns
  <1>4. CASE Redial \/ StopPausing
    BY <1>4 DEF Redial, StopPausing, socketVars, OneOpen, AgentTypeOK, Unmade, HandshakeFirst
  <1>5. CASE Registered
    <2>1. /\ conn \in Conns /\ at[conn]["heart"] = "off"
          /\ at' = [at EXCEPT ![conn]["heart"] = "ready"]
          /\ main = "awaiting" /\ main' = "serving"
          /\ UNCHANGED <<cancelled, conn, sock, far, out, lock>>
      BY <1>5 DEF Registered, Goto, OneOpen, AgentTypeOK, HandshakeFirst
    <2>2. AgentTypeOK'
      BY <2>1, NamedProcs DEF OneOpen, AgentTypeOK
    <2>3. OneOpen'
      BY <2>1, <2>2, NamedProcs DEF OneOpen, AgentTypeOK
    <2>4. HandshakeFirst'
      BY <2>1, NamedProcs DEF HandshakeFirst, OneOpen, AgentTypeOK
    <2> QED
      BY <2>1, <2>3, <2>4, NamedProcs DEF OneOpen, AgentTypeOK, Unmade, Conns
  <1>6. ASSUME NEW h \in Handlers, ReadRequest(h)
        PROVE  LoopInv'
    <2>1. /\ conn \in Conns /\ h \in Procs \ {"main", "heart"}
          /\ at[conn][h] = "off" /\ at' = [at EXCEPT ![conn][h] = "ready"]
          /\ main = "serving"
          /\ UNCHANGED <<cancelled, main, conn, sock, far, out, lock>>
      BY <1>6 DEF ReadRequest, Goto, OneOpen, AgentTypeOK, Procs
    <2>2. AgentTypeOK'
      BY <2>1 DEF OneOpen, AgentTypeOK
    <2>3. OneOpen'
      BY <2>1, <2>2 DEF OneOpen, AgentTypeOK
    <2>4. HandshakeFirst'
      BY <2>1, NamedProcs DEF HandshakeFirst, OneOpen, AgentTypeOK
    <2> QED
      BY <2>1, <2>3, <2>4 DEF OneOpen, AgentTypeOK, Unmade, Conns
  <1> QED
    BY <1>1, <1>2, <1>3, <1>4, <1>5, <1>6 DEF MainStep

\* What the goroutines of a connection do between writes, and the gateway.
LEMMA ConnSteps ==
    ASSUME LoopInv, NEW c \in Conns, ConnStep(c)
    PROVE  LoopInv'
  <1>1. CASE HeartbeatTick(c) \/ HeartbeatStops(c)
    BY <1>1, MoveStep DEF HeartbeatTick, HeartbeatStops, Procs
  <1>2. CASE \E h \in Handlers : HandlerReplies(c, h)
    BY <1>2, MoveStep DEF HandlerReplies, Procs
  <1>3. CASE WatcherWakes(c) \/ WatcherCloses(c)
    BY <1>3, MoveStep DEF WatcherWakes, WatcherCloses, Procs
  <1>4. CASE GatewayReads(c)
    BY <1>4 DEF GatewayReads, LoopInv, OneOpen, AgentTypeOK, Unmade, HandshakeFirst
  <1>5. CASE GatewayStalls(c) \/ GatewayCloses(c)
    BY <1>5 DEF GatewayStalls, GatewayCloses, LoopInv, OneOpen, AgentTypeOK, Unmade, HandshakeFirst
  <1> QED
    BY <1>1, <1>2, <1>3, <1>4, <1>5, WriteSteps DEF ConnStep

\* Every step keeps the invariant.
LEMMA NextLoop == LoopInv /\ [AgentNext]_loopVars => LoopInv'
  <1> SUFFICES ASSUME LoopInv, [AgentNext]_loopVars PROVE LoopInv'
    OBVIOUS
  <1>1. CASE Cancel
    BY <1>1 DEF Cancel, socketVars, LoopInv, OneOpen, AgentTypeOK, Unmade, HandshakeFirst
  <1>2. CASE UNCHANGED loopVars
    BY <1>2 DEF loopVars, socketVars, LoopInv, OneOpen, AgentTypeOK, Unmade, HandshakeFirst
  <1> QED
    BY <1>1, <1>2, MainSteps, ConnSteps DEF AgentNext
-----------------------------------------------------------------------------
\* The invariant holds in every state, of Run's loop and all its goroutines.
THEOREM LoopInvariance == AgentSpec => []LoopInv
  BY InitLoop, NextLoop, PTL DEF AgentSpec

\* However connections are lost and made again, and writers interleave, the
\* agent has at most one WebSocket open, and one writer on it (Run, conn.write).
THEOREM OneConnection == AgentSpec => []OneOpen
  BY LoopInvariance, PTL DEF LoopInv
=============================================================================
