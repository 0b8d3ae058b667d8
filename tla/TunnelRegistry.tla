--------------------------- MODULE TunnelRegistry ---------------------------
(***************************************************************************)
(* Who serves which subdomain: the registries of the gateway instances,    *)
(* the routes they publish in Redis, and the status of the tunnel rows in  *)
(* Postgres, while agents connect and drop, instances die, rows are        *)
(* deleted through the API and Redis or Postgres calls fail unnoticed.     *)
(*                                                                         *)
(* One goroutine per agent connection runs Server.register and then the    *)
(* deferred clean-up of Server.readLoop (phase); one per instance runs     *)
(* Registry.refreshLoop.  Redis and Postgres are shared and sequential.    *)
(* Time passes in ticks of one routeRefresh period (30s).                  *)
(***************************************************************************)
EXTENDS Integers

CONSTANTS
    Instances,  \* gateway processes; a restarted one is a new instance
    Conns,      \* agent connections; each mints a tunnel row of its own
    Subs,       \* subdomain labels
    None,
    RouteTTL,   \* routeTTL in refresh periods (90s / 30s)
    MaxFaults,  \* bound: Redis and Postgres calls that fail with the error ignored
    MaxDeletes  \* bound: rows deleted through the API

ASSUME RegistryConstants ==
    /\ None \notin Instances \cup Conns \cup Subs
    /\ RouteTTL \in Nat \ {0}
    /\ MaxFaults \in Nat
    /\ MaxDeletes \in Nat

\* routeRefresh is shorter than routeTTL.
ASSUME RefreshInTime == RouteTTL > 1

VARIABLES
    phase,      \* phase[c]: how far c's goroutine has got
    home,       \* home[c]: the instance c is connected to
    sub,        \* sub[c]: the subdomain minted for c
    row,        \* row[c]: status of c's tunnel row
    closed,     \* closed[c]: AgentConn.close has run
    bySub,      \* bySub[i][s]: the connection instance i has registered for s
    route,      \* route[s]: the instance named by gw:route:{s}
    ttl,        \* ttl[s]: refresh periods until that key expires
    alive,      \* the instances that run
    due,        \* the instances whose refresh ticker has fired
    todo,       \* todo[i]: subdomains i's refresh round has still to SET
    faults,     \* failed calls so far
    deletes     \* deleted rows so far

connVars  == <<phase, home, sub, row, closed>>
redisVars == <<route, ttl>>
instVars  == <<alive, due, todo>>
bounds    == <<faults, deletes>>
vars == <<connVars, bySub, redisVars, instVars, bounds>>

\* Phases of Server.register; a row exists from "created" on.
Registering == {"created", "activated", "added", "routed"}
\* The failed handshake's registry.remove, and readLoop's deferred calls.
Leaving == {"undo", "undoRoute", "closing", "removing", "unrouting", "marking"}
Phases == {"new", "online", "gone"} \cup Registering \cup Leaving

Init ==
    /\ phase = [c \in Conns |-> "new"]
    /\ home = [c \in Conns |-> None]
    /\ sub = [c \in Conns |-> None]
    /\ row = [c \in Conns |-> "none"]
    /\ closed = [c \in Conns |-> FALSE]
    /\ bySub = [i \in Instances |-> [s \in Subs |-> None]]
    /\ route = [s \in Subs |-> None]
    /\ ttl = [s \in Subs |-> 0]
    /\ alive = Instances
    /\ due = {}
    /\ todo = [i \in Instances |-> {}]
    /\ faults = 0
    /\ deletes = 0

Goto(c, p) == phase' = [phase EXCEPT ![c] = p]

\* A call whose error the code ignores: the effect, or nothing.
Ignoring(effect, unchanged) ==
    \/ effect /\ UNCHANGED faults
    \/ unchanged /\ faults < MaxFaults /\ faults' = faults + 1
-----------------------------------------------------------------------------
(* Server.register and Registry.add                                        *)

HasRow(c) == row[c] \in {"created", "active", "disconnected"}

\* Mutant of UrlFree: the index covers only active rows.
BugUrlFreeOfActive(s) == \A d \in Conns : sub[d] = s => row[d] # "active"

\* tunnels.public_url is UNIQUE, over all rows whatever their status.
UrlFree(s) == \A d \in Conns : sub[d] = s => ~HasRow(d)

\* A well-formed and authorized REGISTER_TUNNEL mints a subdomain and a row.
CreateRow(c, i, s) ==
    /\ phase[c] = "new"
    /\ i \in alive
    /\ UrlFree(s)
    /\ home' = [home EXCEPT ![c] = i]
    /\ sub' = [sub EXCEPT ![c] = s]
    /\ row' = [row EXCEPT ![c] = "created"]
    /\ Goto(c, "created")
    /\ UNCHANGED <<closed, bySub, redisVars, instVars, bounds>>

\* Any check before it fails, or the INSERT does: ERROR is sent, no row is left.
Reject(c) ==
    /\ phase[c] = "new"
    /\ Goto(c, "gone")
    /\ UNCHANGED <<home, sub, row, closed, bySub, redisVars, instVars, bounds>>

\* SetStatus is an UPDATE: it does nothing to a row that was deleted.
SetStatus(c, status) ==
    row' = [row EXCEPT ![c] = IF HasRow(c) THEN status ELSE @]

Activate(c) ==
    /\ phase[c] = "created"
    /\ Ignoring(SetStatus(c, "active"), UNCHANGED row)
    /\ Goto(c, "activated")
    /\ UNCHANGED <<home, sub, closed, bySub, redisVars, instVars, deletes>>

\* Registry.add under its lock: the connection it replaces is closed.
AddLocal(c) ==
    /\ phase[c] = "activated"
    /\ LET old == bySub[home[c]][sub[c]]
       IN  closed' = [d \in Conns |-> closed[d] \/ d = old]
    /\ bySub' = [bySub EXCEPT ![home[c]][sub[c]] = c]
    /\ Goto(c, "added")
    /\ UNCHANGED <<home, sub, row, redisVars, instVars, bounds>>

\* Mutant of SetRoute: the TTL is one refresh period.
BugShortTTL(s, i) ==
    /\ route' = [route EXCEPT ![s] = i]
    /\ ttl' = [ttl EXCEPT ![s] = 1]

\* SET gw:route:{s} with the TTL.
SetRoute(s, i) ==
    /\ route' = [route EXCEPT ![s] = i]
    /\ ttl' = [ttl EXCEPT ![s] = RouteTTL]

AddRoute(c) ==
    /\ phase[c] = "added"
    /\ Ignoring(SetRoute(sub[c], home[c]), UNCHANGED redisVars)
    /\ Goto(c, "routed")
    /\ UNCHANGED <<home, sub, row, closed, bySub, instVars, deletes>>

SendRegistered(c) ==
    /\ phase[c] = "routed"
    /\ ~closed[c]
    /\ Goto(c, "online")
    /\ UNCHANGED <<home, sub, row, closed, bySub, redisVars, instVars, bounds>>

\* REGISTERED cannot be written: the agent has gone, or c was replaced.
SendFails(c) ==
    /\ phase[c] = "routed"
    /\ Goto(c, "undo")
    /\ UNCHANGED <<home, sub, row, closed, bySub, redisVars, instVars, bounds>>
-----------------------------------------------------------------------------
(* Registry.remove, after a failed handshake and when readLoop ends        *)

\* readLoop returns: DISCONNECT, a read error, silence, or c was replaced.
Drop(c) ==
    /\ phase[c] = "online"
    /\ Goto(c, "closing")
    /\ UNCHANGED <<home, sub, row, closed, bySub, redisVars, instVars, bounds>>

\* Mutant of CloseConn: the row is marked before the connection is closed.
BugMarkFirst(c) ==
    /\ phase[c] = "closing"
    /\ SetStatus(c, "disconnected")
    /\ Goto(c, "removing")
    /\ UNCHANGED <<home, sub, closed, bySub, redisVars, instVars, bounds>>

CloseConn(c) ==
    /\ phase[c] = "closing"
    /\ closed' = [closed EXCEPT ![c] = TRUE]
    /\ Goto(c, "removing")
    /\ UNCHANGED <<home, sub, row, bySub, redisVars, instVars, bounds>>

\* Mutant of RemoveLocal: the entry is deleted whoever it belongs to.
BugRemoveAny(c) ==
    /\ \/ phase[c] = "undo" /\ Goto(c, "undoRoute")
       \/ phase[c] = "removing" /\ Goto(c, "unrouting")
    /\ bySub' = [bySub EXCEPT ![home[c]][sub[c]] = None]
    /\ UNCHANGED <<home, sub, row, closed, redisVars, instVars, bounds>>

\* Only c's own entry is deleted; a successor's stays.
RemoveLocal(c) ==
    /\ \/ phase[c] = "undo" /\ Goto(c, "undoRoute")
       \/ phase[c] = "removing" /\ Goto(c, "unrouting")
    /\ bySub' = [bySub EXCEPT ![home[c]][sub[c]] = IF @ = c THEN None ELSE @]
    /\ UNCHANGED <<home, sub, row, closed, redisVars, instVars, bounds>>

\* DEL gw:route:{s}
DelRoute(s) ==
    /\ route' = [route EXCEPT ![s] = None]
    /\ ttl' = [ttl EXCEPT ![s] = 0]

\* Mutant of RemoveRoute: readLoop ends without the SetStatus.
BugNeverMarked(c) ==
    /\ phase[c] \in {"undoRoute", "unrouting"}
    /\ Goto(c, "gone")
    /\ Ignoring(DelRoute(sub[c]), UNCHANGED redisVars)
    /\ UNCHANGED <<home, sub, row, closed, bySub, instVars, deletes>>

\* The route is deleted whoever it names.  A failed handshake ends here: the
\* socket is closed, AgentConn.close and SetStatus are not called.
RemoveRoute(c) ==
    /\ \/ phase[c] = "undoRoute" /\ Goto(c, "gone")
       \/ phase[c] = "unrouting" /\ Goto(c, "marking")
    /\ Ignoring(DelRoute(sub[c]), UNCHANGED redisVars)
    /\ UNCHANGED <<home, sub, row, closed, bySub, instVars, deletes>>

MarkRow(c) ==
    /\ phase[c] = "marking"
    /\ Ignoring(SetStatus(c, "disconnected"), UNCHANGED row)
    /\ Goto(c, "gone")
    /\ UNCHANGED <<home, sub, closed, bySub, redisVars, instVars, deletes>>
-----------------------------------------------------------------------------
(* Registry.refreshLoop and the clock                                      *)

\* The subdomains registered at i, read under the lock.
Registered(i) == {s \in Subs : bySub[i][s] # None}

\* Mutant of Tick: routes are stored without an expiry.
BugNoExpiry ==
    /\ due = {}
    /\ \A i \in Instances : todo[i] = {}
    /\ due' = alive
    /\ UNCHANGED <<connVars, bySub, redisVars, alive, todo, bounds>>

\* Routes not renewed for RouteTTL periods expire; every ticker fires.  The
\* rounds of the period before have ended: a SET takes much less than 30s.
Tick ==
    /\ due = {}
    /\ \A i \in Instances : todo[i] = {}
    /\ ttl' = [s \in Subs |-> IF ttl[s] = 0 THEN 0 ELSE ttl[s] - 1]
    /\ route' = [s \in Subs |-> IF ttl[s] <= 1 THEN None ELSE route[s]]
    /\ due' = alive
    /\ UNCHANGED <<connVars, bySub, alive, todo, bounds>>

Snapshot(i) ==
    /\ i \in due
    /\ due' = due \ {i}
    /\ todo' = [todo EXCEPT ![i] = Registered(i)]
    /\ UNCHANGED <<connVars, bySub, redisVars, alive, bounds>>

\* Mutant of Refresh: EXPIRE instead of SET, which cannot bring a route back.
BugExtendOnly(i, s) ==
    /\ s \in todo[i]
    /\ todo' = [todo EXCEPT ![i] = @ \ {s}]
    /\ ttl' = [ttl EXCEPT ![s] = IF @ = 0 THEN 0 ELSE RouteTTL]
    /\ UNCHANGED <<connVars, bySub, route, alive, due, bounds>>

\* The lock is released: s may have been removed since the snapshot.
Refresh(i, s) ==
    /\ s \in todo[i]
    /\ todo' = [todo EXCEPT ![i] = @ \ {s}]
    /\ Ignoring(SetRoute(s, i), UNCHANGED redisVars)
    /\ UNCHANGED <<connVars, bySub, alive, due, deletes>>
-----------------------------------------------------------------------------
(* The world                                                               *)

\* The process ends, by a crash or by Run's shutdown: Server.Shutdown neither
\* closes hijacked WebSockets nor waits for them, so no deferred call runs.
Stop(i) ==
    /\ i \in alive
    /\ alive' = alive \ {i}
    /\ due' = due \ {i}
    /\ todo' = [todo EXCEPT ![i] = {}]
    /\ bySub' = [bySub EXCEPT ![i] = [s \in Subs |-> None]]
    /\ phase' = [c \in Conns |-> IF home[c] = i THEN "gone" ELSE phase[c]]
    /\ UNCHANGED <<home, sub, row, closed, redisVars, bounds>>

\* DELETE /tunnels/:id, or the project's: the gateway is not told.
DeleteRow(c) ==
    /\ HasRow(c)
    /\ deletes < MaxDeletes
    /\ deletes' = deletes + 1
    /\ row' = [row EXCEPT ![c] = "deleted"]
    /\ UNCHANGED <<phase, home, sub, closed, bySub, redisVars, instVars, faults>>

RegisterStep(c) ==
    \/ Activate(c) \/ AddLocal(c) \/ AddRoute(c) \/ SendRegistered(c) \/ SendFails(c)

LeaveStep(c) == CloseConn(c) \/ RemoveLocal(c) \/ RemoveRoute(c) \/ MarkRow(c)

ConnStep(c) ==
    \/ \E i \in Instances, s \in Subs : CreateRow(c, i, s)
    \/ Reject(c) \/ RegisterStep(c) \/ Drop(c) \/ LeaveStep(c) \/ DeleteRow(c)

InstanceStep(i) == Snapshot(i) \/ Stop(i) \/ \E s \in Subs : Refresh(i, s)

Next == (\E c \in Conns : ConnStep(c)) \/ (\E i \in Instances : InstanceStep(i)) \/ Tick

\* Goroutines go on, tickers fire, a replaced connection's read fails.  No
\* agent has to connect or to drop, no instance to stop.
Fairness ==
    /\ \A c \in Conns :
          /\ WF_vars(RegisterStep(c))
          /\ WF_vars(LeaveStep(c))
          /\ WF_vars(closed[c] /\ Drop(c))
    /\ \A i \in Instances :
          /\ WF_vars(Snapshot(i))
          /\ WF_vars(\E s \in Subs : Refresh(i, s))
    /\ WF_vars(Tick)

Spec == Init /\ [][Next]_vars /\ Fairness
-----------------------------------------------------------------------------
(* Properties                                                              *)

TypeOK ==
    /\ phase \in [Conns -> Phases]
    /\ home \in [Conns -> Instances \cup {None}]
    /\ sub \in [Conns -> Subs \cup {None}]
    /\ row \in [Conns -> {"none", "created", "active", "disconnected", "deleted"}]
    /\ closed \in [Conns -> BOOLEAN]
    /\ bySub \in [Instances -> [Subs -> Conns \cup {None}]]
    /\ route \in [Subs -> Instances \cup {None}]
    /\ ttl \in [Subs -> 0..RouteTTL]
    /\ alive \subseteq Instances
    /\ due \subseteq alive
    /\ todo \in [Instances -> SUBSET Subs]
    /\ faults \in 0..MaxFaults
    /\ deletes \in 0..MaxDeletes

Serving(c) == phase[c] \in {"added", "routed", "online"}

\* What a registry holds for a subdomain is a connection to this instance
\* under that subdomain; and a connection that serves and was not replaced is
\* what lookups of its subdomain find, although goroutines of connections
\* with the same subdomain add and remove themselves concurrently.  No path
\* through register or readLoop leaves a connection behind that has ended.
RegistryExact ==
    /\ TypeOK
    /\ \A i \in Instances : \A s \in Registered(i) :
          LET c == bySub[i][s] IN home[c] = i /\ sub[c] = s /\ phase[c] # "gone"
    /\ \A c \in Conns : Serving(c) /\ ~closed[c] => bySub[home[c]][sub[c]] = c

\* Two instances serve one subdomain only if a tunnel row was deleted under a
\* live connection: the UNIQUE public_url is what keeps owners apart.
OneOwner ==
    \A c, d \in Conns :
        c # d /\ Serving(c) /\ Serving(d) /\ sub[c] = sub[d]
            => row[c] = "deleted" \/ row[d] = "deleted"

\* A connection alone under its subdomain keeps its route from REGISTERED on,
\* as long as no Redis call fails: the refresh always comes before the TTL.
OnlineRouted ==
    \A c \in Conns :
        /\ phase[c] = "online"
        /\ faults = 0
        /\ \A d \in Conns \ {c} : sub[d] # sub[c]
        => route[sub[c]] = home[c]

\* A row says disconnected only when its connection serves no request.
DisconnectedIsQuiet ==
    \A c \in Conns : row[c] = "disconnected" => ~Serving(c) /\ closed[c]

\* An active row of an ended connection is a leak (it counts against the plan's
\* tunnel limit for ever).  While the instance runs, no UPDATE fails and no row
\* is deleted by hand only one path leaks: the failed handshake, which never
\* closes its AgentConn.
ActiveRowLeaks ==
    \A c \in Conns :
        /\ row[c] = "active"
        /\ phase[c] = "gone"
        /\ home[c] \in alive
        /\ faults = 0 /\ deletes = 0
        => ~closed[c]

\* A route to an instance that does not serve the subdomain goes away, even
\* one that a refresh round re-created after the removal, or whose owner died.
StaleRouteExpires ==
    \A s \in Subs, i \in Instances :
        route[s] = i /\ bySub[i][s] = None ~> route[s] # i \/ bySub[i][s] # None

\* A connection that stays online is found from other instances again, after
\* another connection's clean-up deleted its route or a SET failed.
RouteHeals ==
    \A c \in Conns :
        phase[c] = "online" ~> phase[c] # "online" \/ route[sub[c]] = home[c]
=============================================================================
