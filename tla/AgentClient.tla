----------------------------- MODULE AgentClient -----------------------------
(***************************************************************************)
(* The command-line agent around its WebSocket (internal/agent): Run's     *)
(* loop of connecting, serving and backing off, and for each connection    *)
(* the goroutines that share its write mutex: the handshake, the           *)
(* heartbeat, the request handlers, and the watcher that announces and     *)
(* closes the connection when the user stops the agent.                    *)
(*                                                                         *)
(* A write ends when the socket takes the frame, which has room for        *)
(* SendBuffer frames the gateway has not read; there is no write deadline.  *)
(* Time is abstract: a ticker or timer may fire whenever it is armed.      *)
(* What is inside requests and answers is left to TunnelForward.           *)
(***************************************************************************)
EXTENDS Integers, FiniteSets

CONSTANTS
    Handlers,   \* bound: request handlers running at a time
    SendBuffer, \* frames the socket takes before a write blocks
    Stalls,     \* whether a gateway may stop reading without closing
    MaxConns    \* bound: connections made

ASSUME AgentConstants ==
    /\ Handlers \cap {"main", "heart", "watcher", "free"} = {}
    /\ SendBuffer \in Nat \ {0}
    /\ Stalls \in BOOLEAN
    /\ MaxConns \in Nat \ {0}

VARIABLES
    cancelled,  \* SIGINT or SIGTERM has come
    main,       \* where Run, or connectAndServe in it, stands
    conn,       \* the number of the latest connection
    sock,       \* sock[c]: this side of connection c
    far,        \* far[c]: the gateway at the other side
    out,        \* out[c]: frames written that the gateway has not read
    lock,       \* lock[c]: who holds writeMu
    at          \* at[c][p]: where goroutine p of connection c stands

socketVars == <<sock, far, out, lock, at>>
loopVars == <<cancelled, main, conn, socketVars>>

Conns == 1..MaxConns
Procs == {"main", "heart", "watcher"} \cup Handlers

AgentInit ==
    /\ cancelled = FALSE
    /\ main = "dialing"
    /\ conn = 0
    /\ sock = [c \in Conns |-> "none"]
    /\ far = [c \in Conns |-> "reading"]
    /\ out = [c \in Conns |-> 0]
    /\ lock = [c \in Conns |-> "free"]
    /\ at = [c \in Conns |-> [p \in Procs |-> "off"]]

Goto(c, p, stage) == at' = [at EXCEPT ![c][p] = stage]

\* When Run has returned the process exits, and every goroutine with it.
Alive == main # "returned"
-----------------------------------------------------------------------------
(* conn.write                                                              *)

Lock(c, p) ==
    /\ Alive
    /\ at[c][p] = "locking"
    /\ lock[c] = "free"
    /\ lock' = [lock EXCEPT ![c] = p]
    /\ Goto(c, p, "writing")
    /\ UNCHANGED <<cancelled, main, conn, sock, far, out>>

\* What a goroutine does after its write: the handshake waits for the reply,
\* the heartbeat for its next tick, the watcher closes the connection.
AfterWrite(c, p, ok) ==
    /\ Goto(c, p, CASE p = "watcher" -> "closing"
                    [] p = "heart" /\ ok -> "ready"
                    [] p = "heart" /\ ~ok -> "ended"
                    [] OTHER -> "off")
    /\ main' = IF p # "main" THEN main ELSE IF ok THEN "awaiting" ELSE "lost"

WriteFrame(c, p) ==
    /\ Alive
    /\ at[c][p] = "writing"
    /\ sock[c] = "open" /\ far[c] # "gone" /\ out[c] < SendBuffer
    /\ out' = [out EXCEPT ![c] = @ + 1]
    /\ lock' = [lock EXCEPT ![c] = "free"]
    /\ AfterWrite(c, p, TRUE)
    /\ UNCHANGED <<cancelled, conn, sock, far>>

WriteBreaks(c, p) ==
    /\ Alive
    /\ at[c][p] = "writing"
    /\ sock[c] = "closed" \/ far[c] = "gone"
    /\ lock' = [lock EXCEPT ![c] = "free"]
    /\ AfterWrite(c, p, FALSE)
    /\ UNCHANGED <<cancelled, conn, sock, far, out>>
-----------------------------------------------------------------------------
(* Run and connectAndServe                                                 *)

\* The dial succeeds: the watcher starts, and REGISTER_TUNNEL is to be written.
Dial ==
    LET c == conn + 1
    IN  /\ main = "dialing"
        /\ conn < MaxConns
        /\ conn' = c
        /\ sock' = [sock EXCEPT ![c] = "open"]
        /\ at' = [at EXCEPT ![c]["watcher"] = "ready", ![c]["main"] = "locking"]
        /\ main' = "registering"
        /\ UNCHANGED <<cancelled, far, out, lock>>

DialFails ==
    /\ main = "dialing"
    /\ main' = "lost"
    /\ UNCHANGED <<cancelled, conn, socketVars>>

\* REGISTERED is read; the heartbeat starts.
Registered ==
    /\ main = "awaiting"
    /\ sock[conn] = "open"
    /\ main' = "serving"
    /\ Goto(conn, "heart", "ready")
    /\ UNCHANGED <<cancelled, conn, sock, far, out, lock>>

\* ERROR, or another frame that comes first.
Rejected ==
    /\ main = "awaiting"
    /\ sock[conn] = "open"
    /\ main' = "lost"
    /\ UNCHANGED <<cancelled, conn, socketVars>>

ReadBreaks ==
    /\ main \in {"awaiting", "serving"}
    /\ sock[conn] = "closed" \/ far[conn] = "gone"
    /\ main' = "lost"
    /\ UNCHANGED <<cancelled, conn, socketVars>>

\* REQUEST_FORWARD: a handler of its own for each.
ReadRequest(h) ==
    /\ main = "serving"
    /\ sock[conn] = "open"
    /\ at[conn][h] = "off"
    /\ Goto(conn, h, "ready")
    /\ UNCHANGED <<cancelled, main, conn, sock, far, out, lock>>

\* Mutant of HungUp: connectAndServe does not defer ws.Close.
BugNotClosed == sock

\* The sockets when connectAndServe's deferred ws.Close has run.
HungUp == [c \in Conns |-> IF c = conn THEN "closed" ELSE sock[c]]

\* Mutant of AfterLoss: Run returns the error instead of trying again.
BugGivesUp == "returned"

\* Run checks the context when connectAndServe has returned.
AfterLoss == IF cancelled THEN "returned" ELSE "pausing"

ServeReturns ==
    /\ main = "lost"
    /\ sock' = HungUp
    /\ main' = AfterLoss
    /\ UNCHANGED <<cancelled, conn, far, out, lock, at>>

\* The backoff doubles up to 32 seconds and is never reset: it is time, and left out.
Redial ==
    /\ main = "pausing"
    /\ main' = "dialing"
    /\ UNCHANGED <<cancelled, conn, socketVars>>

StopPausing ==
    /\ main = "pausing"
    /\ cancelled
    /\ main' = "returned"
    /\ UNCHANGED <<cancelled, conn, socketVars>>
-----------------------------------------------------------------------------
(* The heartbeat, the handlers and the watcher of a connection             *)

\* hbCtx lives as long as connectAndServe serves c and nobody cancels.
HeartbeatOn(c) == main = "serving" /\ conn = c /\ ~cancelled

\* The ticker fires; select may see it although hbCtx is done.
HeartbeatTick(c) ==
    /\ Alive
    /\ at[c]["heart"] = "ready"
    /\ Goto(c, "heart", "locking")
    /\ UNCHANGED <<cancelled, main, conn, sock, far, out, lock>>

HeartbeatStops(c) ==
    /\ Alive
    /\ at[c]["heart"] = "ready"
    /\ ~HeartbeatOn(c)
    /\ Goto(c, "heart", "ended")
    /\ UNCHANGED <<cancelled, main, conn, sock, far, out, lock>>

\* proxyLocal has returned, with a response or a 502.
HandlerReplies(c, h) ==
    /\ Alive
    /\ at[c][h] = "ready"
    /\ Goto(c, h, "locking")
    /\ UNCHANGED <<cancelled, main, conn, sock, far, out, lock>>

\* ctx.Done: DISCONNECT is to be written before the close.
WatcherWakes(c) ==
    /\ Alive
    /\ cancelled
    /\ at[c]["watcher"] = "ready"
    /\ Goto(c, "watcher", "locking")
    /\ UNCHANGED <<cancelled, main, conn, sock, far, out, lock>>

\* Mutant of WatcherCloses: DISCONNECT is left to the gateway to act upon.
BugWatcherWaits(c) ==
    /\ Alive
    /\ at[c]["watcher"] = "closing"
    /\ Goto(c, "watcher", "ended")
    /\ UNCHANGED <<cancelled, main, conn, sock, far, out, lock>>

WatcherCloses(c) ==
    /\ Alive
    /\ at[c]["watcher"] = "closing"
    /\ sock' = [sock EXCEPT ![c] = "closed"]
    /\ Goto(c, "watcher", "ended")
    /\ UNCHANGED <<cancelled, main, conn, far, out, lock>>
-----------------------------------------------------------------------------
(* The user and the gateway                                                *)

Cancel ==
    /\ Alive
    /\ ~cancelled
    /\ cancelled' = TRUE
    /\ UNCHANGED <<main, conn, socketVars>>

GatewayReads(c) ==
    /\ Alive
    /\ far[c] = "reading"
    /\ out[c] > 0
    /\ out' = [out EXCEPT ![c] = @ - 1]
    /\ UNCHANGED <<cancelled, main, conn, sock, far, lock, at>>

\* The gateway's process is suspended; its host keeps the connection open.
GatewayStalls(c) ==
    /\ Alive
    /\ Stalls
    /\ sock[c] = "open"
    /\ far[c] = "reading"
    /\ far' = [far EXCEPT ![c] = "stalled"]
    /\ UNCHANGED <<cancelled, main, conn, sock, out, lock, at>>

GatewayCloses(c) ==
    /\ Alive
    /\ sock[c] = "open"
    /\ far[c] # "gone"
    /\ far' = [far EXCEPT ![c] = "gone"]
    /\ UNCHANGED <<cancelled, main, conn, sock, out, lock, at>>
-----------------------------------------------------------------------------
MainStep ==
    \/ Dial \/ DialFails \/ Registered \/ Rejected \/ ReadBreaks
    \/ ServeReturns \/ Redial \/ StopPausing
    \/ \E h \in Handlers : ReadRequest(h)

ConnStep(c) ==
    \/ \E p \in Procs : Lock(c, p) \/ WriteFrame(c, p) \/ WriteBreaks(c, p)
    \/ HeartbeatTick(c) \/ HeartbeatStops(c)
    \/ \E h \in Handlers : HandlerReplies(c, h)
    \/ WatcherWakes(c) \/ WatcherCloses(c)
    \/ GatewayReads(c) \/ GatewayStalls(c) \/ GatewayCloses(c)

AgentNext == MainStep \/ Cancel \/ \E c \in Conns : ConnStep(c)

\* The main goroutine when nothing that it waits for comes from the gateway.
MainGoesOn ==
    \/ Dial \/ DialFails \/ ReadBreaks \/ ServeReturns \/ Redial \/ StopPausing
    \/ \E c \in Conns : Lock(c, "main")

\* Goroutines go on, Go's mutex lets the watcher not starve behind handlers and
\* heartbeats, timers fire, and a gateway that has not stalled reads.  It need
\* not answer or close, dials need not succeed, the user need not stop the agent.
AgentFairness ==
    /\ WF_loopVars(MainGoesOn)
    /\ \A c \in Conns :
          /\ WF_loopVars(\E p \in Procs : WriteFrame(c, p) \/ WriteBreaks(c, p))
          /\ WF_loopVars(WatcherWakes(c) \/ WatcherCloses(c))
          /\ SF_loopVars(Lock(c, "watcher"))
          /\ WF_loopVars(GatewayReads(c))

AgentSpec == AgentInit /\ [][AgentNext]_loopVars /\ AgentFairness
-----------------------------------------------------------------------------
(* Properties                                                              *)

AgentTypeOK ==
    /\ cancelled \in BOOLEAN
    /\ main \in {"dialing", "registering", "awaiting", "serving", "lost",
                 "pausing", "returned"}
    /\ conn \in 0..MaxConns
    /\ main \in {"registering", "awaiting", "serving"} => conn \in Conns
    /\ sock \in [Conns -> {"none", "open", "closed"}]
    /\ far \in [Conns -> {"reading", "stalled", "gone"}]
    /\ out \in [Conns -> 0..SendBuffer]
    /\ lock \in [Conns -> Procs \cup {"free"}]
    /\ at \in [Conns -> [Procs -> {"off", "ready", "locking", "writing",
                                   "closing", "ended"}]]

\* However connections are lost and made again, the agent has at most one open,
\* the latest, and none while it waits to dial: a reconnecting agent never
\* occupies two tunnels.  Its goroutines never write to one WebSocket at the
\* same time, and whoever holds the mutex is about to release it.
OneOpen ==
    /\ AgentTypeOK
    /\ \A c \in Conns : sock[c] = "open" =>
          c = conn /\ main \notin {"pausing", "dialing"}
    /\ \A c \in Conns, p \in Procs : at[c][p] = "writing" <=> lock[c] = p

\* An agent whose gateway has gone dials again, unless it is stopped.
LostIsRedialled ==
    main \in {"awaiting", "serving"} /\ far[conn] = "gone"
        ~> main = "dialing" \/ cancelled

\* Stopping the agent ends it wherever it stands (waiting for a frame, for the
\* mutex or to dial again), unless its gateway has stopped reading.
StopsUnlessStalled ==
    cancelled ~> main = "returned" \/ \E c \in Conns : far[c] = "stalled"
=============================================================================
