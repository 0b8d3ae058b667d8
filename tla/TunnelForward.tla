---------------------------- MODULE TunnelForward ----------------------------
(***************************************************************************)
(* One agent connection, from a public request's lookup to its answer:     *)
(* AgentConn.forward / deliver / close and the handlers around them in     *)
(* internal/gateway, and the read loop, handler goroutines and shutdown of *)
(* internal/agent at the other end of the WebSocket.                       *)
(*                                                                         *)
(* Processes: one goroutine per public request (pc), the gateway's read    *)
(* loop with its deferred clean-up (reader), the agent (peer, handlers),   *)
(* the detached goroutines that save captures.  The WebSocket is a pair of *)
(* FIFO queues; the one towards the agent has room for SocketBuf frames,   *)
(* and a write to a full one blocks while it holds writeMu.                *)
(*                                                                         *)
(* Initially the gateway has registered the connection and the agent has   *)
(* read REGISTERED.  Time is abstract: a timer may fire in any state in    *)
(* which it is armed.                                                      *)
(***************************************************************************)
EXTENDS Integers, Sequences

CONSTANTS
    Requests,   \* the public HTTP requests of a behaviour
    None,       \* "no value"
    Failed,     \* an error answer made by the gateway or by the agent (502)
    Disconnect, \* the DISCONNECT frame
    SocketBuf   \* frames the socket takes before a write to the agent blocks

ASSUME ForwardConstants ==
    /\ {None, Failed, Disconnect} \cap Requests = {}
    /\ None # Failed
    /\ SocketBuf \in Nat \ {0}

\* A DISCONNECT frame has another type than a RESPONSE_FORWARD frame.
ASSUME FrameKinds == Disconnect \notin [id : Nat, body : Requests \cup {Failed}]

VARIABLES
    pc,         \* pc[r]: where the goroutine serving r stands
    id,         \* id[r]: r's correlation id, 0 before forward mints it
    minted,     \* ids minted so far
    pending,    \* AgentConn.pending: correlation id -> the call that waits for it
    chan,       \* chan[r]: r's response channel (capacity 1): a body, or None
    result,     \* result[r]: the body r's client was answered with, or None
    capture,    \* capture[r]: captures of r started, those still saving, rows stored
    writer,     \* who holds writeMu: a request, or None
    down,       \* frames on their way to the agent: [id, req]
    handlers,   \* the agent's handler goroutines: [id, req, body]
    executed,   \* executed[r]: times the local application ran r
    up,         \* frames on their way to the gateway: [id, body] or Disconnect
    peer,       \* the agent: "serving", "leaving", "closed", or "cut" off
    reader,     \* the gateway's read loop and its deferred calls
    closed,     \* AgentConn.closed is closed, and so is the gateway's socket
    registered, \* the registry maps the subdomain to this connection
    row         \* status of the tunnel's database row

callVars  == <<pc, id, minted, pending, chan, result, capture, writer>>
agentVars == <<down, handlers, executed, up, peer>>
connVars  == <<reader, closed, registered, row>>
vars == <<callVars, agentVars, connVars>>

\* A response's body is the request it answers, or Failed.
Bodies == Requests \cup {Failed}
Sent == {"written", "waiting"}                  \* the frame is in the socket
Waiting == {"stored", "writing"} \cup Sent      \* forward has a pending entry
Gone == peer \in {"closed", "cut"}

\* What is known of a request's captures.
Captures == [started : Nat, saving : Nat, stored : Nat]

Init ==
    /\ pc = [r \in Requests |-> "idle"]
    /\ id = [r \in Requests |-> 0]
    /\ minted = 0
    /\ pending = [i \in {} |-> None]
    /\ chan = [r \in Requests |-> None]
    /\ result = [r \in Requests |-> None]
    /\ capture = [r \in Requests |-> [started |-> 0, saving |-> 0, stored |-> 0]]
    /\ writer = None
    /\ down = << >>
    /\ handlers = {}
    /\ executed = [r \in Requests |-> 0]
    /\ up = << >>
    /\ peer = "serving"
    /\ reader = "reading"
    /\ closed = FALSE
    /\ registered = TRUE
    /\ row = "active"
-----------------------------------------------------------------------------
(* The goroutine of a public request: handlePublic, serveLocally, forward. *)

\* handlePublic finds the connection in the registry.
Lookup(r) ==
    /\ pc[r] = "idle"
    /\ registered
    /\ pc' = [pc EXCEPT ![r] = "found"]
    /\ UNCHANGED <<id, minted, pending, chan, result, capture, writer,
                   agentVars, connVars>>

\* handlePublic finds no connection (one gateway: no other owner to ask).
Refuse(r) ==
    /\ pc[r] = "idle"
    /\ ~registered
    /\ pc' = [pc EXCEPT ![r] = "done"]
    /\ result' = [result EXCEPT ![r] = Failed]
    /\ UNCHANGED <<id, minted, pending, chan, capture, writer,
                   agentVars, connVars>>

\* Mutant of NewId: the ids of finished calls are used again.
BugIdReused == CHOOSE i \in 1..(minted + 1) : i \notin DOMAIN pending

\* uuid.NewString: an id no call ever had.
NewId == minted + 1

\* forward mints the id and stores the channel before anything is written.
Store(r) ==
    /\ pc[r] = "found"
    /\ minted' = minted + 1
    /\ id' = [id EXCEPT ![r] = NewId]
    /\ pending' = [i \in DOMAIN pending \cup {NewId} |->
                      IF i = NewId THEN r ELSE pending[i]]
    /\ pc' = [pc EXCEPT ![r] = "stored"]
    /\ UNCHANGED <<chan, result, capture, writer, agentVars, connVars>>

LockWriter(r) ==
    /\ pc[r] = "stored"
    /\ writer = None
    /\ writer' = r
    /\ pc' = [pc EXCEPT ![r] = "writing"]
    /\ UNCHANGED <<id, minted, pending, chan, result, capture,
                   agentVars, connVars>>

\* WriteJSON hands the frame to the socket; it waits while the socket is full.
Write(r) ==
    /\ pc[r] = "writing"
    /\ ~closed
    /\ Len(down) < SocketBuf
    /\ down' = Append(down, [id |-> id[r], req |-> r])
    /\ writer' = None
    /\ pc' = [pc EXCEPT ![r] = "written"]
    /\ UNCHANGED <<id, minted, pending, chan, result, capture,
                   handlers, executed, up, peer, connVars>>

\* forward reaches its select; the answer may have come before it.
Select(r) ==
    /\ pc[r] = "written"
    /\ pc' = [pc EXCEPT ![r] = "waiting"]
    /\ UNCHANGED <<id, minted, pending, chan, result, capture, writer,
                   agentVars, connVars>>

\* Mutant of Forget: the deferred Delete is missing.
BugEntryKept(r) == pending

\* The calls left waiting when r's deferred pending.Delete has run.
Forget(r) == [i \in DOMAIN pending \ {id[r]} |-> pending[i]]

\* forward returns an error: serveLocally answers 502 and captures nothing.
GiveUp(r) ==
    /\ pending' = Forget(r)
    /\ result' = [result EXCEPT ![r] = Failed]
    /\ pc' = [pc EXCEPT ![r] = "done"]

\* The write fails: this side closed the socket, or the other end is gone.
WriteFails(r) ==
    /\ pc[r] = "writing"
    /\ closed \/ Gone
    /\ GiveUp(r)
    /\ writer' = None
    /\ UNCHANGED <<id, minted, chan, capture, agentVars, connVars>>

\* capture starts a goroutine that nobody waits for.
StartCapture(r) ==
    capture' = [capture EXCEPT ![r].started = @ + 1, ![r].saving = @ + 1]

\* Mutant of TakeResponse: handlePublic captures what it writes to its client,
\* although serveLocally captured it already.
BugCapturedTwice(r) ==
    /\ pc[r] = "waiting"
    /\ chan[r] # None
    /\ result' = [result EXCEPT ![r] = chan[r]]
    /\ pending' = Forget(r)
    /\ pc' = [pc EXCEPT ![r] = "done"]
    /\ capture' = [capture EXCEPT ![r].started = @ + 2, ![r].saving = @ + 2]
    /\ UNCHANGED <<id, minted, chan, writer, agentVars, connVars>>

\* select: the response is in the channel.  serveLocally starts the capture.
TakeResponse(r) ==
    /\ pc[r] = "waiting"
    /\ chan[r] # None
    /\ result' = [result EXCEPT ![r] = chan[r]]
    /\ pending' = Forget(r)
    /\ pc' = [pc EXCEPT ![r] = "done"]
    /\ StartCapture(r)
    /\ UNCHANGED <<id, minted, chan, writer, agentVars, connVars>>

\* select: 30s have passed, on forward's timer or on serveLocally's context.
Timeout(r) ==
    /\ pc[r] = "waiting"
    /\ GiveUp(r)
    /\ UNCHANGED <<id, minted, chan, capture, writer, agentVars, connVars>>

\* Mutant of SeeClosed: forward returns without an error and without an answer.
BugClosedSilent(r) ==
    /\ pc[r] = "waiting"
    /\ closed
    /\ pending' = Forget(r)
    /\ pc' = [pc EXCEPT ![r] = "done"]
    /\ UNCHANGED <<id, minted, chan, result, capture, writer, agentVars, connVars>>

\* select: the connection was closed.  Go picks any ready case, so a response
\* that is already in the channel may be passed over.
SeeClosed(r) ==
    /\ pc[r] = "waiting"
    /\ closed
    /\ GiveUp(r)
    /\ UNCHANGED <<id, minted, chan, capture, writer, agentVars, connVars>>

\* A capture goroutine ends: the exchange is stored, or only a warning logged.
SaveCapture(r) ==
    /\ capture[r].saving > 0
    /\ \E rows \in {0, 1} :
          capture' = [capture EXCEPT ![r].saving = @ - 1, ![r].stored = @ + rows]
    /\ UNCHANGED <<pc, id, minted, pending, chan, result, writer,
                   agentVars, connVars>>
-----------------------------------------------------------------------------
(* The gateway's read loop and its deferred clean-up.                      *)

\* Mutant of Send: an unbuffered channel, taken only by a call inside select.
BugUnbuffered(r, body) ==
    [chan EXCEPT ![r] = IF @ = None /\ pc[r] = "waiting" THEN body ELSE @]

\* The non-blocking send of deliver: a full channel keeps what it holds.
Send(r, body) == [chan EXCEPT ![r] = IF @ = None THEN body ELSE @]

\* RESPONSE_FORWARD: deliver hands the body to the call that waits for the
\* id; the answer to a call that has gone is dropped.
Deliver ==
    /\ reader = "reading"
    /\ up # << >>
    /\ Head(up) # Disconnect
    /\ up' = Tail(up)
    /\ chan' = IF Head(up).id \in DOMAIN pending
               THEN Send(pending[Head(up).id], Head(up).body)
               ELSE chan
    /\ UNCHANGED <<pc, id, minted, pending, result, capture, writer,
                   down, handlers, executed, peer, connVars>>

ReadDisconnect ==
    /\ reader = "reading"
    /\ up # << >>
    /\ Head(up) = Disconnect
    /\ up' = Tail(up)
    /\ reader' = "closing"
    /\ UNCHANGED <<callVars, down, handlers, executed, peer,
                   closed, registered, row>>

\* Mutant of ReadFails: no read deadline, only an end of file ends the loop.
BugNoDeadline ==
    /\ reader = "reading"
    /\ peer = "closed"
    /\ reader' = "closing"
    /\ UNCHANGED <<callVars, agentVars, closed, registered, row>>

\* ReadJSON fails: the agent closed the socket, or 60s passed in silence
\* because it is cut off.  Frames still under way are lost.
ReadFails ==
    /\ reader = "reading"
    /\ Gone
    /\ reader' = "closing"
    /\ UNCHANGED <<callVars, agentVars, closed, registered, row>>

\* AgentConn.close
Close ==
    /\ reader = "closing"
    /\ closed' = TRUE
    /\ reader' = "removing"
    /\ UNCHANGED <<callVars, agentVars, registered, row>>

Remove ==
    /\ reader = "removing"
    /\ registered' = FALSE
    /\ reader' = "marking"
    /\ UNCHANGED <<callVars, agentVars, closed, row>>

\* SetStatus "disconnected"; its error is ignored.
MarkRow ==
    /\ reader = "marking"
    /\ row' \in {"disconnected", row}
    /\ reader' = "ended"
    /\ UNCHANGED <<callVars, agentVars, closed, registered>>
-----------------------------------------------------------------------------
(* The agent.  Its own sends fail silently once its socket is closed; what *)
(* it sends while cut off never arrives.                                   *)

Running == peer \in {"serving", "leaving"}

\* The read loop starts a goroutine per REQUEST_FORWARD.  An agent that is cut
\* off may still read what had reached it.
AgentRead ==
    /\ Running \/ peer = "cut"
    /\ down # << >>
    /\ down' = Tail(down)
    /\ handlers' = handlers \cup
          {[id |-> Head(down).id, req |-> Head(down).req, body |-> None]}
    /\ UNCHANGED <<callVars, executed, up, peer, connVars>>

\* proxyLocal: the application runs the request, and the handler has its
\* response, or an error of the agent's client (30s) although it ran.
AppRuns(h) ==
    /\ h \in handlers
    /\ h.body = None
    /\ executed' = [executed EXCEPT ![h.req] = @ + 1]
    /\ \E body \in {h.req, Failed} :
          handlers' = (handlers \ {h}) \cup {[h EXCEPT !.body = body]}
    /\ UNCHANGED <<callVars, down, up, peer, connVars>>

\* proxyLocal: the application cannot be reached.
AppUnreachable(h) ==
    /\ h \in handlers
    /\ h.body = None
    /\ handlers' = (handlers \ {h}) \cup {[h EXCEPT !.body = Failed]}
    /\ UNCHANGED <<callVars, down, executed, up, peer, connVars>>

\* handleRequest writes the response under the id of its request, and ends.
Reply(h) ==
    /\ h \in handlers
    /\ h.body # None
    /\ handlers' = handlers \ {h}
    /\ up' = IF Running THEN Append(up, [id |-> h.id, body |-> h.body]) ELSE up
    /\ UNCHANGED <<callVars, down, executed, peer, connVars>>

\* SIGINT: DISCONNECT is written, then the socket closed.  Handlers still
\* running may write between the two.
Leave ==
    /\ peer = "serving"
    /\ up' = Append(up, Disconnect)
    /\ peer' = "leaving"
    /\ UNCHANGED <<callVars, down, handlers, executed, connVars>>

CloseSocket ==
    /\ peer = "leaving"
    /\ peer' = "closed"
    /\ UNCHANGED <<callVars, down, handlers, executed, up, connVars>>

\* The gateway closed first: the agent's ReadJSON fails and it closes too.
AgentReadFails ==
    /\ Running
    /\ closed
    /\ peer' = "closed"
    /\ UNCHANGED <<callVars, down, handlers, executed, up, connVars>>

\* The network between the two fails, or the agent's host is suspended.
Cut ==
    /\ Running
    /\ peer' = "cut"
    /\ UNCHANGED <<callVars, down, handlers, executed, up, connVars>>
-----------------------------------------------------------------------------
CallStep(r) ==
    \/ Lookup(r) \/ Refuse(r) \/ Store(r) \/ LockWriter(r) \/ Write(r)
    \/ Select(r) \/ WriteFails(r) \/ TakeResponse(r) \/ Timeout(r) \/ SeeClosed(r)
    \/ SaveCapture(r)

ReaderStep == Deliver \/ ReadDisconnect \/ ReadFails \/ Close \/ Remove \/ MarkRow

HandlerStep(h) == AppRuns(h) \/ AppUnreachable(h) \/ Reply(h)

AgentStep ==
    \/ AgentRead \/ Leave \/ CloseSocket \/ AgentReadFails \/ Cut
    \/ \E h \in handlers : HandlerStep(h)

Next == (\E r \in Requests : CallStep(r)) \/ ReaderStep \/ AgentStep

\* What the gateway's scheduler and timers owe it: a goroutine that can go on
\* does, the forward timer fires, silence trips the read deadline.  A reset
\* that would fail a blocked write early (WriteFails with the socket still
\* open on this side) is owed by nobody.  Clients, the application and the
\* end of a connection owe nothing; an agent that is there reads its socket.
Fairness ==
    /\ \A r \in Requests :
          /\ WF_vars(Store(r))
          /\ SF_vars(LockWriter(r))
          /\ WF_vars(Write(r) \/ (closed /\ WriteFails(r)))
          /\ WF_vars(Select(r))
          /\ WF_vars(TakeResponse(r) \/ Timeout(r) \/ SeeClosed(r))
    /\ WF_vars(ReaderStep)
    /\ WF_vars(Running /\ AgentRead)
    /\ WF_vars(CloseSocket)

Spec == Init /\ [][Next]_vars /\ Fairness
-----------------------------------------------------------------------------
(* Properties                                                              *)

TypeOK ==
    /\ pc \in [Requests -> {"idle", "found", "done"} \cup Waiting]
    /\ minted \in Nat
    /\ id \in [Requests -> 0..minted]
    /\ DOMAIN pending \subseteq 1..minted
    /\ pending \in [DOMAIN pending -> Requests]
    /\ chan \in [Requests -> Bodies \cup {None}]
    /\ result \in [Requests -> Bodies \cup {None}]
    /\ capture \in [Requests -> Captures]
    /\ writer \in Requests \cup {None}
    /\ down \in Seq([id : 1..minted, req : Requests])
    /\ Len(down) <= SocketBuf
    /\ handlers \subseteq [id : 1..minted, req : Requests, body : Bodies \cup {None}]
    /\ executed \in [Requests -> Nat]
    /\ up \in Seq([id : 1..minted, body : Bodies] \cup {Disconnect})
    /\ peer \in {"serving", "leaving", "closed", "cut"}
    /\ reader \in {"reading", "closing", "removing", "marking", "ended"}
    /\ closed \in BOOLEAN
    /\ registered \in BOOLEAN
    /\ row \in {"active", "disconnected"}

\* A client is never answered with the response to another client's request,
\* however calls, late answers and handler goroutines interleave on the one
\* WebSocket (the correlation ids of AgentConn.forward and deliver).
NoCrossTalk == \A r \in Requests : result[r] \in {None, Failed, r}

\* The pending map holds exactly the calls inside forward, each under its own
\* id: no entry outlives its call, and no waiting call can be overlooked.
PendingExact ==
    /\ {pending[i] : i \in DOMAIN pending} = {r \in Requests : pc[r] \in Waiting}
    /\ \A i \in DOMAIN pending : id[pending[i]] = i

\* Where the answer to a waiting call is: in its channel, on the way, being
\* made, or still to be asked for.
UnderWay(r) ==
    \/ chan[r] # None
    \/ \E k \in DOMAIN down : down[k].id = id[r]
    \/ \E h \in handlers : h.id = id[r]
    \/ \E k \in DOMAIN up : up[k] # Disconnect /\ up[k].id = id[r]

\* While the connection is up on both sides the answer to a call that waits
\* is never lost on the way, not even when it overtakes the call's select
\* (the buffered channel, the non-blocking send, one goroutine per request).
AnswerUnderWay ==
    peer = "serving" =>
        \A r \in Requests : pc[r] \in Sent => UnderWay(r)

\* A capture is started for exactly the exchanges the agent answered, once for
\* each: never for a call that failed in the gateway, also not when its answer
\* comes late.  So at most one row records an exchange, and it records what the
\* client received (a capture that fails leaves none: Server.capture only logs).
CapturedIffForwarded ==
    \A r \in Requests :
        /\ capture[r].started \in {0, 1}
        /\ capture[r].saving + capture[r].stored <= capture[r].started
        /\ capture[r].started = 1 => chan[r] # None /\ result[r] = chan[r]
        /\ pc[r] = "done" /\ capture[r].started = 0 => result[r] = Failed

\* Every request that found the tunnel is answered, even when the agent is
\* cut off while a write to it is blocked.
EveryCallEnds == \A r \in Requests : pc[r] = "found" ~> pc[r] = "done"

\* The gateway keeps the promise a tunnel makes: among the rest, that the
\* application runs no request twice, and ran those it is said to have answered.
Promise == INSTANCE TunnelPromise WITH
    asked <- {r \in Requests : pc[r] # "idle"},
    outcome <- result

KeepsPromise == Promise!Spec
=============================================================================
