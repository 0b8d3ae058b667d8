------------------------ MODULE TunnelRegistryProofs ------------------------
(***************************************************************************)
(* For any number of gateway instances, connections and subdomains: the    *)
(* registries hold exactly the connections that serve, a subdomain has one *)
(* owner, its route outlives the refresh period, and a row says what its   *)
(* connection does.  At the end, the names: under a base domain without a  *)
(* port, a public URL leads back to its tunnel; under one with a port, no  *)
(* tunnel is found.                                                        *)
(***************************************************************************)
EXTENDS TunnelRegistry, TunnelHosts, SequenceTheorems, TLAPS

Ended == {"new", "gone"}

\* What a connection has got by the time its goroutine is past the INSERT.
Started ==
    \A c \in Conns :
        /\ phase[c] = "new" => sub[c] = None /\ home[c] = None
        /\ phase[c] \notin Ended => sub[c] \in Subs /\ home[c] \in alive
        /\ sub[c] = None <=> row[c] = "none"

\* While a connection is in the registry its goroutine will still remove it.
Held == {"added", "routed", "online", "undo", "closing", "removing"}

EntriesOwned ==
    \A i \in Instances : \A s \in Registered(i) :
        LET c == bySub[i][s] IN home[c] = i /\ sub[c] = s /\ phase[c] \in Held

\* A connection that serves and was not replaced is found by lookups.
ServedFound ==
    \A c \in Conns : Serving(c) /\ ~closed[c] => bySub[home[c]][sub[c]] = c

\* The UNIQUE public_url, over rows that are still there.
UrlsUnique ==
    \A c, d \in Conns :
        c # d /\ sub[c] = sub[d] /\ sub[c] # None => row[c] = "deleted" \/ row[d] = "deleted"

\* What a row's status says of its connection.
RowsQuiet ==
    \A c \in Conns :
        /\ phase[c] = "new" => ~closed[c]
        /\ row[c] = "deleted" => deletes > 0
        /\ row[c] = "disconnected" => phase[c] = "gone" /\ closed[c]
        /\ phase[c] \in {"removing", "unrouting", "marking"} => closed[c]

\* A closed connection is on its way to mark its row, or its process died.
ClosedMarked ==
    faults = 0 /\ deletes = 0 =>
        \A c \in Conns : closed[c] =>
            \/ phase[c] \in {"removing", "unrouting", "marking"}
            \/ row[c] = "disconnected"
            \/ home[c] \notin alive

\* No other connection was ever given c's subdomain.
Alone(c) == \A d \in Conns \ {c} : sub[d] # sub[c]

\* A refresh round sets routes of subdomains minted at its own instance.
RoundsOwned ==
    \A i \in Instances : \A s \in todo[i] : \E c \in Conns : sub[c] = s /\ home[c] = i

\* The route of a connection alone under its subdomain has a period to live,
\* or its refresh is due in this one.
RouteKept ==
    \A c \in Conns : Alone(c) =>
        /\ Serving(c) => bySub[home[c]][sub[c]] = c
        /\ faults = 0 /\ phase[c] \in {"routed", "online"} =>
              /\ route[sub[c]] = home[c]
              /\ \/ ttl[sub[c]] > 1
                 \/ ttl[sub[c]] = 1 /\ (home[c] \in due \/ sub[c] \in todo[home[c]])

IInv ==
    /\ TypeOK
    /\ Started
    /\ EntriesOwned
    /\ ServedFound
    /\ UrlsUnique
    /\ RowsQuiet
    /\ ClosedMarked
    /\ RoundsOwned
    /\ RouteKept
-----------------------------------------------------------------------------
\* The initial state has it all.
LEMMA IInvInit == Init => IInv
  <1> SUFFICES ASSUME Init
               PROVE  IInv
    OBVIOUS
  <1> USE RegistryConstants DEF Init
  <1>1. TypeOK
    BY DEF TypeOK, Phases
  <1>2. Started /\ EntriesOwned /\ ServedFound /\ UrlsUnique
    BY DEF Started, Ended, EntriesOwned, Registered, ServedFound, Serving, UrlsUnique
  <1>3. RowsQuiet /\ ClosedMarked /\ RoundsOwned /\ RouteKept
    BY DEF RowsQuiet, ClosedMarked, RoundsOwned, RouteKept, Serving
  <1> QED
    BY <1>1, <1>2, <1>3 DEF IInv

\* A connection's goroutine keeps the types.
LEMMA ConnTypeStep ==
    ASSUME TypeOK, Started, NEW c \in Conns, ConnStep(c)
    PROVE  TypeOK'
  <1> USE RegistryConstants DEF TypeOK, Phases, Registering, Leaving, Goto, connVars,
          redisVars, instVars, bounds, Started, Ended
  <1>1. ASSUME NEW i \in Instances, NEW s \in Subs, CreateRow(c, i, s)
        PROVE  TypeOK'
    BY <1>1 DEF CreateRow
  <1>2. CASE Reject(c)
    BY <1>2 DEF Reject
  <1>3. CASE Activate(c)
    BY <1>3 DEF Activate, Ignoring, SetStatus
  <1>4. CASE AddLocal(c)
    BY <1>4 DEF AddLocal
  <1>5. CASE AddRoute(c)
    BY <1>5 DEF AddRoute, Ignoring, SetRoute
  <1>6. CASE SendRegistered(c) \/ SendFails(c) \/ Drop(c)
    BY <1>6 DEF SendRegistered, SendFails, Drop
  <1>7. CASE CloseConn(c)
    BY <1>7 DEF CloseConn
  <1>8. CASE RemoveLocal(c)
    BY <1>8 DEF RemoveLocal
  <1>9. CASE RemoveRoute(c)
    <2>1. /\ phase' \in [Conns -> Phases]
          /\ faults' \in 0..MaxFaults
          /\ UNCHANGED <<home, sub, row, closed, bySub, alive, due, todo, deletes>>
      BY <1>9 DEF RemoveRoute, Ignoring
    <2>2. /\ route' \in [Subs -> Instances \cup {None}]
          /\ ttl' \in [Subs -> 0..RouteTTL]
      BY <1>9 DEF RemoveRoute, Ignoring, DelRoute
    <2> QED
      BY <2>1, <2>2
  <1>10. CASE MarkRow(c)
    BY <1>10 DEF MarkRow, Ignoring, SetStatus
  <1>11. CASE DeleteRow(c)
    BY <1>11 DEF DeleteRow
  <1> QED
    BY <1>1, <1>2, <1>3, <1>4, <1>5, <1>6, <1>7, <1>8, <1>9, <1>10, <1>11
    DEF ConnStep, RegisterStep, LeaveStep

\* The refresh rounds, the clock and a stopping process keep the types.
LEMMA WorldTypeStep ==
    ASSUME TypeOK, (\E i \in Instances : InstanceStep(i)) \/ Tick
    PROVE  TypeOK'
  <1> USE RegistryConstants DEF TypeOK, connVars, redisVars, instVars, bounds
  <1>1. ASSUME NEW i \in Instances, Snapshot(i)
        PROVE  TypeOK'
    BY <1>1 DEF Snapshot, Registered
  <1>2. ASSUME NEW i \in Instances, Stop(i)
        PROVE  TypeOK'
    BY <1>2 DEF Stop, Phases
  <1>3. ASSUME NEW i \in Instances, NEW s \in Subs, Refresh(i, s)
        PROVE  TypeOK'
    BY <1>3 DEF Refresh, Ignoring, SetRoute
  <1>4. CASE Tick
    <2>1. \A s \in Subs : (IF ttl[s] = 0 THEN 0 ELSE ttl[s] - 1) \in 0..RouteTTL
      <3> SUFFICES ASSUME NEW s \in Subs
                   PROVE  (IF ttl[s] = 0 THEN 0 ELSE ttl[s] - 1) \in 0..RouteTTL
        OBVIOUS
      <3>1. ttl[s] \in 0..RouteTTL /\ RouteTTL \in Nat
        OBVIOUS
      <3> HIDE DEF TypeOK
      <3> QED
        BY <3>1
    <2>2. ttl' \in [Subs -> 0..RouteTTL] /\ route' \in [Subs -> Instances \cup {None}]
      BY <1>4, <2>1 DEF Tick
    <2> QED
      BY <1>4, <2>2 DEF Tick
  <1> QED
    BY <1>1, <1>2, <1>3, <1>4 DEF InstanceStep
-----------------------------------------------------------------------------
(* What the steps leave alone.                                             *)

\* A connection's goroutine changes no other connection but by replacing it.
LEMMA ConnFrame ==
    ASSUME TypeOK, NEW c \in Conns, ConnStep(c)
    PROVE  /\ \A d \in Conns \ {c} : /\ phase'[d] = phase[d] /\ row'[d] = row[d]
                                     /\ sub'[d] = sub[d] /\ home'[d] = home[d]
           /\ UNCHANGED instVars
           /\ (\A i \in Instances, s \in Subs : ~CreateRow(c, i, s)) => UNCHANGED <<sub, home>>
           /\ ~AddLocal(c) => \A d \in Conns \ {c} : closed'[d] = closed[d]
           /\ ~AddLocal(c) /\ ~CloseConn(c) => closed'[c] = closed[c]
           /\ ~AddLocal(c) /\ ~RemoveLocal(c) => bySub' = bySub
           /\ ~AddRoute(c) /\ ~RemoveRoute(c) => UNCHANGED redisVars
           /\ faults \in Nat /\ faults' \in Nat /\ faults' >= faults
           /\ deletes \in Nat /\ deletes' \in Nat /\ deletes' >= deletes
  <1> USE DEF TypeOK, Goto, redisVars, instVars, bounds
  <1>1. ASSUME NEW i \in Instances, NEW s \in Subs, CreateRow(c, i, s)
        PROVE  /\ \A d \in Conns \ {c} : /\ phase'[d] = phase[d] /\ row'[d] = row[d]
                                         /\ sub'[d] = sub[d] /\ home'[d] = home[d]
               /\ UNCHANGED <<closed, bySub, route, ttl, alive, due, todo, faults, deletes>>
    BY <1>1 DEF CreateRow
  <1>2. CASE Reject(c) \/ SendRegistered(c) \/ SendFails(c) \/ Drop(c)
    BY <1>2, RegistryConstants DEF Reject, SendRegistered, SendFails, Drop
  <1>3. CASE Activate(c) \/ MarkRow(c)
    BY <1>3, RegistryConstants DEF Activate, MarkRow, Ignoring, SetStatus
  <1>4. CASE AddLocal(c) \/ CloseConn(c) \/ RemoveLocal(c)
    BY <1>4, RegistryConstants DEF AddLocal, CloseConn, RemoveLocal
  <1>5. CASE AddRoute(c) \/ RemoveRoute(c)
    BY <1>5, RegistryConstants DEF AddRoute, RemoveRoute, Ignoring
  <1>6. CASE DeleteRow(c)
    BY <1>6, RegistryConstants DEF DeleteRow
  <1>7. faults \in Nat /\ deletes \in Nat
    BY RegistryConstants
  <1> QED
    BY <1>1, <1>2, <1>3, <1>4, <1>5, <1>6, <1>7 DEF ConnStep, RegisterStep, LeaveStep

\* How the goroutine of a connection may go on.
LEMMA ConnFlow ==
    ASSUME TypeOK, NEW c \in Conns, ConnStep(c)
    PROVE  \/ phase[c] = "new" /\ phase'[c] \in {"created", "gone"}
              /\ (phase'[c] = "created" => \E i \in Instances, s \in Subs : CreateRow(c, i, s))
           \/ phase[c] = "created" /\ phase'[c] = "activated" /\ Activate(c)
           \/ phase[c] = "activated" /\ phase'[c] = "added" /\ AddLocal(c)
           \/ phase[c] = "added" /\ phase'[c] = "routed" /\ AddRoute(c)
           \/ phase[c] = "routed" /\ phase'[c] \in {"online", "undo"}
           \/ phase[c] = "online" /\ phase'[c] = "closing"
           \/ phase[c] = "closing" /\ phase'[c] = "removing" /\ CloseConn(c)
           \/ phase[c] = "undo" /\ phase'[c] = "undoRoute" /\ RemoveLocal(c)
           \/ phase[c] = "removing" /\ phase'[c] = "unrouting" /\ RemoveLocal(c)
           \/ phase[c] = "undoRoute" /\ phase'[c] = "gone" /\ RemoveRoute(c)
           \/ phase[c] = "unrouting" /\ phase'[c] = "marking" /\ RemoveRoute(c)
           \/ phase[c] = "marking" /\ phase'[c] = "gone" /\ MarkRow(c)
           \/ phase'[c] = phase[c] /\ DeleteRow(c)
  BY DEF ConnStep, RegisterStep, LeaveStep, CreateRow, Reject, Activate, AddLocal, AddRoute,
     SendRegistered, SendFails, Drop, CloseConn, RemoveLocal, RemoveRoute, MarkRow, DeleteRow,
     Goto, TypeOK

\* The world but a stopping process leaves the connections alone.
LEMMA WorldFrame ==
    ASSUME TypeOK,
           (\E i \in Instances : Snapshot(i) \/ \E s \in Subs : Refresh(i, s)) \/ Tick
    PROVE  /\ UNCHANGED <<connVars, bySub, alive, deletes>>
           /\ faults \in Nat /\ faults' \in Nat /\ faults' >= faults
  <1>1. faults \in Nat
    BY RegistryConstants DEF TypeOK
  <1> QED
    BY <1>1 DEF Snapshot, Refresh, Tick, Ignoring, bounds
-----------------------------------------------------------------------------
(* Connections, their rows and the registries.                             *)

\* Past the INSERT a connection has a subdomain, a row and a live instance.
LEMMA StartedStep ==
    ASSUME TypeOK, Started, [Next]_vars
    PROVE  Started'
  <1>1. ASSUME NEW c \in Conns, ConnStep(c)
        PROVE  Started'
    <2>1. /\ \A d \in Conns \ {c} : /\ phase'[d] = phase[d] /\ row'[d] = row[d]
                                   /\ sub'[d] = sub[d] /\ home'[d] = home[d]
          /\ alive' = alive
      BY <1>1, ConnFrame DEF instVars
    <2>2. CASE \E i \in Instances, s \in Subs : CreateRow(c, i, s)
      <3>1. PICK i \in Instances, s \in Subs : CreateRow(c, i, s)
        BY <2>2
      <3>2. /\ phase'[c] = "created" /\ home'[c] = i /\ i \in alive
            /\ sub'[c] = s /\ row'[c] = "created" /\ s # None
        BY <3>1, RegistryConstants DEF CreateRow, Goto, TypeOK
      <3> QED
        BY <2>1, <3>2 DEF Started, Ended
    <2>3. CASE \A i \in Instances, s \in Subs : ~CreateRow(c, i, s)
      <3>1. UNCHANGED <<sub, home>>
        BY <1>1, <2>3, ConnFrame
      <3>2. \/ phase'[c] # "new" /\ (phase'[c] \notin Ended => phase[c] \notin Ended)
            \/ phase'[c] = phase[c]
        BY <1>1, <2>3, ConnFlow DEF Ended
      <3>3. row'[c] = "none" <=> row[c] = "none"
        BY <1>1, <2>3 DEF ConnStep, Reject, RegisterStep, LeaveStep, Activate, AddLocal,
           AddRoute, SendRegistered, SendFails, Drop, CloseConn, RemoveLocal, RemoveRoute,
           MarkRow, DeleteRow, Ignoring, SetStatus, HasRow, TypeOK
      <3> QED
        BY <2>1, <3>1, <3>2, <3>3 DEF Started
    <2> QED
      BY <2>2, <2>3
  <1>2. ASSUME NEW i \in Instances, Stop(i)
        PROVE  Started'
    BY <1>2 DEF Stop, Started, Ended, TypeOK
  <1>3. CASE (\E i \in Instances : Snapshot(i) \/ \E s \in Subs : Refresh(i, s)) \/ Tick
    BY <1>3, WorldFrame DEF Started, connVars
  <1>4. CASE UNCHANGED vars
    BY <1>4 DEF vars, connVars, instVars, Started
  <1> QED
    BY <1>1, <1>2, <1>3, <1>4 DEF Next, InstanceStep

\* Entries belong to the connection they name, and what serves is found.
LEMMA RegistryStep ==
    ASSUME TypeOK, Started, EntriesOwned, ServedFound, [Next]_vars
    PROVE  EntriesOwned' /\ ServedFound'
  <1>0. \A i \in Instances, s \in Subs : bySub[i][s] # None =>
           /\ bySub[i][s] \in Conns
           /\ home[bySub[i][s]] = i /\ sub[bySub[i][s]] = s
           /\ phase[bySub[i][s]] \in Held
    BY DEF TypeOK, EntriesOwned, Registered
  <1>1. ASSUME NEW c \in Conns, ConnStep(c)
        PROVE  EntriesOwned' /\ ServedFound'
    <2>1. /\ \A d \in Conns \ {c} : /\ phase'[d] = phase[d]
                                   /\ sub'[d] = sub[d] /\ home'[d] = home[d]
          /\ ~AddLocal(c) => \A d \in Conns \ {c} : closed'[d] = closed[d]
      BY <1>1, ConnFrame
    <2>2. CASE AddLocal(c)
      <3>1. /\ phase[c] = "activated" /\ phase'[c] = "added"
            /\ UNCHANGED <<sub, home>>
            /\ sub[c] \in Subs /\ home[c] \in Instances
            /\ bySub' = [bySub EXCEPT ![home[c]][sub[c]] = c]
            /\ \A d \in Conns : closed'[d] <=> closed[d] \/ d = bySub[home[c]][sub[c]]
        BY <2>2 DEF AddLocal, Goto, TypeOK, Started, Ended
      <3>2. \A i \in Instances, s \in Subs :
               bySub'[i][s] = IF i = home[c] /\ s = sub[c] THEN c ELSE bySub[i][s]
        BY <3>1 DEF TypeOK
      <3>3. \A i \in Instances, s \in Subs : bySub[i][s] # c
        BY <1>0, <3>1, RegistryConstants DEF Held
      <3>4. EntriesOwned'
        BY <1>0, <2>1, <3>1, <3>2, <3>3 DEF EntriesOwned, Registered, Held
      <3>5. ServedFound'
        <4> SUFFICES ASSUME NEW d \in Conns, Serving(d)', ~closed'[d]
                     PROVE  bySub'[home[d]][sub[d]] = d
          BY <3>1 DEF ServedFound
        <4>1. CASE d = c
          BY <3>1, <3>2, <4>1
        <4>2. CASE d # c
          <5>1. Serving(d) /\ ~closed[d]
            BY <2>1, <3>1, <4>2 DEF Serving
          <5>2. home[d] \in Instances /\ sub[d] \in Subs
            BY <5>1 DEF Serving, Started, Ended, TypeOK
          <5>3. bySub[home[d]][sub[d]] = d
            BY <5>1 DEF ServedFound
          <5> QED
            BY <3>1, <3>2, <5>2, <5>3
        <4> QED
          BY <4>1, <4>2
      <3> QED
        BY <3>4, <3>5
    <2>3. CASE RemoveLocal(c)
      <3>1. /\ phase[c] \in {"undo", "removing"} /\ phase'[c] \in {"undoRoute", "unrouting"}
            /\ UNCHANGED <<sub, home, closed>>
            /\ sub[c] \in Subs /\ home[c] \in Instances
            /\ bySub' = [bySub EXCEPT ![home[c]][sub[c]] = IF @ = c THEN None ELSE @]
        BY <2>3 DEF RemoveLocal, Goto, TypeOK, Started, Ended
      <3>2. \A i \in Instances, s \in Subs :
               bySub'[i][s] = IF bySub[i][s] = c THEN None ELSE bySub[i][s]
        BY <1>0, <3>1, RegistryConstants DEF TypeOK
      <3>3. EntriesOwned'
        BY <1>0, <2>1, <3>1, <3>2 DEF EntriesOwned, Registered
      <3>4. ServedFound'
        <4> SUFFICES ASSUME NEW d \in Conns, Serving(d)', ~closed[d]
                     PROVE  bySub'[home[d]][sub[d]] = d
          BY <3>1 DEF ServedFound
        <4>1. d # c
          BY <3>1 DEF Serving
        <4>2. Serving(d)
          BY <2>1, <4>1 DEF Serving
        <4>3. home[d] \in Instances /\ sub[d] \in Subs
          BY <4>2 DEF Serving, Started, Ended, TypeOK
        <4>4. bySub[home[d]][sub[d]] = d
          BY <4>2 DEF ServedFound
        <4> QED
          BY <3>2, <4>1, <4>3, <4>4
      <3> QED
        BY <3>3, <3>4
    <2>4. CASE ~AddLocal(c) /\ ~RemoveLocal(c)
      <3>1. bySub' = bySub
        BY <1>1, <2>4, ConnFrame
      <3>2. \/ phase'[c] \in Held /\ phase[c] \in Held
            \/ phase'[c] \notin Held /\ phase[c] \notin Held
        BY <1>1, <2>4, ConnFlow DEF Held
      <3>3. phase[c] \in Held => sub'[c] = sub[c] /\ home'[c] = home[c]
        BY <1>1, ConnFrame DEF Held, CreateRow
      <3>4. Serving(c)' => Serving(c)
        BY <1>1, <2>4, ConnFlow DEF Serving
      <3>5. Serving(c) => closed'[c] = closed[c]
        BY <1>1, <2>4, ConnFrame DEF Serving, CloseConn
      <3>6. EntriesOwned'
        BY <1>0, <2>1, <3>1, <3>2, <3>3 DEF EntriesOwned, Registered
      <3>7. ServedFound'
        BY <2>1, <2>4, <3>1, <3>3, <3>4, <3>5 DEF ServedFound, Serving, Held
      <3> QED
        BY <3>6, <3>7
    <2> QED
      BY <2>2, <2>3, <2>4
  <1>2. ASSUME NEW i \in Instances, Stop(i)
        PROVE  EntriesOwned' /\ ServedFound'
    <2>1. /\ UNCHANGED <<sub, home, closed>>
          /\ \A d \in Conns : phase'[d] = IF home[d] = i THEN "gone" ELSE phase[d]
          /\ \A j \in Instances, s \in Subs :
                bySub'[j][s] = IF j = i THEN None ELSE bySub[j][s]
      BY <1>2 DEF Stop, TypeOK
    <2>2. EntriesOwned'
      BY <1>0, <2>1 DEF EntriesOwned, Registered
    <2>3. ServedFound'
      <3> SUFFICES ASSUME NEW d \in Conns, Serving(d)', ~closed[d]
                   PROVE  bySub'[home[d]][sub[d]] = d
        BY <2>1 DEF ServedFound
      <3>1. home[d] # i /\ Serving(d)
        BY <2>1 DEF Serving
      <3>2. home[d] \in Instances /\ sub[d] \in Subs
        BY <3>1 DEF Serving, Started, Ended, TypeOK
      <3> QED
        BY <2>1, <3>1, <3>2 DEF ServedFound
    <2> QED
      BY <2>2, <2>3
  <1>3. CASE (\E i \in Instances : Snapshot(i) \/ \E s \in Subs : Refresh(i, s)) \/ Tick
    BY <1>3, WorldFrame DEF EntriesOwned, Registered, ServedFound, Serving, connVars
  <1>4. CASE UNCHANGED vars
    BY <1>4 DEF vars, connVars, EntriesOwned, Registered, ServedFound, Serving
  <1> QED
    BY <1>1, <1>2, <1>3, <1>4 DEF Next, InstanceStep
-----------------------------------------------------------------------------
(* Public URLs and the status of rows.                                     *)

\* Two connections have one subdomain only if a row of them was deleted.
LEMMA UrlsStep ==
    ASSUME TypeOK, Started, UrlsUnique, [Next]_vars
    PROVE  UrlsUnique'
  <1>1. ASSUME NEW c \in Conns, ConnStep(c)
        PROVE  UrlsUnique'
    <2>1. /\ \A d \in Conns \ {c} : row'[d] = row[d] /\ sub'[d] = sub[d]
          /\ row[c] = "deleted" => row'[c] = "deleted" \/ sub[c] = None
      <3>1. \A d \in Conns \ {c} : row'[d] = row[d] /\ sub'[d] = sub[d]
        BY <1>1, ConnFrame
      <3>2. row[c] = "deleted" => row'[c] = "deleted" \/ sub[c] = None
        BY <1>1 DEF ConnStep, CreateRow, Reject, RegisterStep, LeaveStep, Activate, AddLocal,
           AddRoute, SendRegistered, SendFails, Drop, CloseConn, RemoveLocal, RemoveRoute,
           MarkRow, DeleteRow, Ignoring, SetStatus, HasRow, TypeOK, Started
      <3> QED
        BY <3>1, <3>2
    <2>2. CASE \E i \in Instances, s \in Subs : CreateRow(c, i, s)
      <3>1. PICK i \in Instances, s \in Subs : CreateRow(c, i, s)
        BY <2>2
      <3>2. sub'[c] = s /\ s # None
        BY <3>1, RegistryConstants DEF CreateRow, TypeOK
      <3>3. \A d \in Conns : sub[d] = s => row[d] = "deleted"
        BY <3>1, <3>2 DEF CreateRow, UrlFree, HasRow, Started, TypeOK
      <3>4. sub[c] = None
        BY <3>1 DEF CreateRow, Started
      <3> QED
        BY <2>1, <3>2, <3>3, <3>4 DEF UrlsUnique
    <2>3. CASE \A i \in Instances, s \in Subs : ~CreateRow(c, i, s)
      <3>1. sub' = sub
        BY <1>1, <2>3, ConnFrame
      <3> QED
        BY <2>1, <3>1 DEF UrlsUnique
    <2> QED
      BY <2>2, <2>3
  <1>2. CASE (\E i \in Instances : InstanceStep(i)) \/ Tick \/ UNCHANGED vars
    BY <1>2 DEF InstanceStep, Snapshot, Stop, Refresh, Tick, vars, connVars, UrlsUnique
  <1> QED
    BY <1>1, <1>2 DEF Next

\* A row ends as disconnected or deleted, the former after the close.
LEMMA RowsStep ==
    ASSUME TypeOK, Started, EntriesOwned, RowsQuiet, [Next]_vars
    PROVE  RowsQuiet'
  <1>1. ASSUME NEW c \in Conns, ConnStep(c)
        PROVE  RowsQuiet'
    <2> DEFINE After == {"removing", "unrouting", "marking"}
    <2>1. \A d \in Conns \ {c} :
             phase'[d] = phase[d] /\ row'[d] = row[d] /\ (closed[d] => closed'[d])
      BY <1>1, ConnFrame DEF AddLocal
    <2>2. /\ deletes \in Nat /\ deletes' \in Nat /\ deletes' >= deletes
          /\ row'[c] = "deleted" => row[c] = "deleted" \/ deletes' > 0
      <3>1. deletes \in Nat /\ deletes' \in Nat /\ deletes' >= deletes
        BY <1>1, ConnFrame
      <3>2. row'[c] = "deleted" => row[c] = "deleted" \/ deletes' = deletes + 1
        BY <1>1 DEF ConnStep, CreateRow, Reject, RegisterStep, LeaveStep, Activate, AddLocal,
           AddRoute, SendRegistered, SendFails, Drop, CloseConn, RemoveLocal, RemoveRoute,
           MarkRow, DeleteRow, Ignoring, SetStatus, TypeOK
      <3> QED
        BY <3>1, <3>2
    <2>3. closed[c] => closed'[c]
      BY <1>1, ConnFrame DEF AddLocal, CloseConn, TypeOK
    <2>4. phase'[c] \in After => closed'[c]
      <3>1. CASE CloseConn(c)
        BY <3>1 DEF CloseConn, TypeOK
      <3>2. CASE ~CloseConn(c)
        <4>1. phase'[c] \in After => phase[c] \in After
          BY <1>1, <3>2, ConnFlow
        <4> QED
          BY <2>3, <4>1 DEF RowsQuiet
      <3> QED
        BY <3>1, <3>2
    <2>5. row'[c] = "disconnected" => phase'[c] = "gone" /\ closed'[c]
      <3>1. CASE row[c] = "disconnected"
        <4>1. phase[c] = "gone" /\ closed[c]
          BY <3>1 DEF RowsQuiet
        <4> QED
          BY <1>1, <2>3, <4>1, ConnFlow
      <3>2. CASE MarkRow(c)
        BY <2>3, <3>2 DEF MarkRow, Goto, RowsQuiet, TypeOK
      <3>3. CASE row[c] # "disconnected" /\ ~MarkRow(c)
        BY <1>1, <3>3 DEF ConnStep, CreateRow, Reject, RegisterStep, LeaveStep, Activate,
           AddLocal, AddRoute, SendRegistered, SendFails, Drop, CloseConn, RemoveLocal,
           RemoveRoute, DeleteRow, Ignoring, SetStatus, TypeOK
      <3> QED
        BY <3>1, <3>2, <3>3
    <2>6. \A d \in Conns : phase'[d] = "new" => ~closed'[d]
      <3> SUFFICES ASSUME NEW d \in Conns, phase'[d] = "new"
                   PROVE  ~closed'[d]
        OBVIOUS
      <3>1. phase[d] = "new"
        BY <1>1, <2>1, ConnFlow
      <3>2. ~closed[d]
        BY <3>1 DEF RowsQuiet
      <3>3. CASE AddLocal(c)
        <4>1. home[c] \in Instances /\ sub[c] \in Subs
          BY <3>3 DEF AddLocal, Started, Ended, TypeOK
        <4>2. d # bySub[home[c]][sub[c]]
          BY <3>1, <4>1, RegistryConstants DEF EntriesOwned, Registered, Held
        <4> QED
          BY <3>2, <3>3, <4>2 DEF AddLocal
      <3>4. CASE ~AddLocal(c)
        BY <1>1, <3>1, <3>2, <3>4, ConnFrame DEF CloseConn
      <3> QED
        BY <3>3, <3>4
    <2> QED
      BY <2>1, <2>2, <2>4, <2>5, <2>6 DEF RowsQuiet
  <1>2. ASSUME NEW i \in Instances, Stop(i)
        PROVE  RowsQuiet'
    BY <1>2 DEF Stop, RowsQuiet, bounds, TypeOK
  <1>3. CASE (\E i \in Instances : Snapshot(i) \/ \E s \in Subs : Refresh(i, s)) \/ Tick
    BY <1>3, WorldFrame DEF RowsQuiet, connVars
  <1>4. CASE UNCHANGED vars
    BY <1>4 DEF vars, connVars, bounds, RowsQuiet
  <1> QED
    BY <1>1, <1>2, <1>3, <1>4 DEF Next, InstanceStep

\* Without a fault or a deletion, what is closed gets its row marked.
LEMMA ClosedStep ==
    ASSUME TypeOK, TypeOK', Started, EntriesOwned, UrlsUnique, RowsQuiet, ClosedMarked,
           [Next]_vars
    PROVE  ClosedMarked'
  <1> SUFFICES ASSUME faults' = 0, deletes' = 0, NEW d \in Conns, closed'[d]
               PROVE  \/ phase'[d] \in {"removing", "unrouting", "marking"}
                      \/ row'[d] = "disconnected"
                      \/ home'[d] \notin alive'
    BY DEF ClosedMarked
  <1>1. ASSUME NEW c \in Conns, ConnStep(c)
        PROVE  \/ phase'[d] \in {"removing", "unrouting", "marking"}
               \/ row'[d] = "disconnected"
               \/ home'[d] \notin alive'
    <2>1. faults = 0 /\ deletes = 0 /\ alive' = alive
      BY <1>1, ConnFrame DEF instVars
    <2>2. closed[d] => \/ phase[d] \in {"removing", "unrouting", "marking"}
                       \/ row[d] = "disconnected"
                       \/ home[d] \notin alive
      BY <2>1 DEF ClosedMarked
    <2>3. \A e \in Conns : row[e] # "deleted"
      BY <2>1 DEF RowsQuiet
    <2>4. CASE d # c
      <3>1. phase'[d] = phase[d] /\ row'[d] = row[d] /\ home'[d] = home[d]
        BY <1>1, <2>4, ConnFrame
      <3>2. CASE AddLocal(c)
        <4>1. /\ home[c] \in Instances /\ sub[c] \in Subs
              /\ closed[d] \/ d = bySub[home[c]][sub[c]]
          BY <3>2 DEF AddLocal, Started, Ended, TypeOK
        <4>2. d = bySub[home[c]][sub[c]] => sub[d] = sub[c]
          BY <4>1, RegistryConstants DEF EntriesOwned, Registered
        <4>3. d # bySub[home[c]][sub[c]]
          BY <2>3, <2>4, <4>1, <4>2, RegistryConstants DEF UrlsUnique
        <4> QED
          BY <2>1, <2>2, <3>1, <4>1, <4>3
      <3>3. CASE ~AddLocal(c)
        BY <1>1, <2>1, <2>2, <2>4, <3>1, <3>3, ConnFrame
      <3> QED
        BY <3>2, <3>3
    <2>5. CASE d = c
      <3>1. CASE CloseConn(c)
        BY <2>5, <3>1 DEF CloseConn, Goto, TypeOK
      <3>2. CASE AddLocal(c)
        <4>1. /\ home[c] \in Instances /\ sub[c] \in Subs
              /\ closed[c] \/ c = bySub[home[c]][sub[c]]
              /\ phase[c] = "activated" /\ home[c] \in alive
          BY <2>5, <3>2 DEF AddLocal, Started, Ended, TypeOK
        <4>2. c # bySub[home[c]][sub[c]]
          BY <4>1, RegistryConstants DEF EntriesOwned, Registered, Held
        <4> QED
          BY <2>1, <2>2, <2>5, <4>1, <4>2 DEF RowsQuiet
      <3>3. CASE ~CloseConn(c) /\ ~AddLocal(c)
        <4>1. closed[c]
          BY <1>1, <2>5, <3>3, ConnFrame
        <4>2. CASE phase[c] \in {"removing", "unrouting", "marking"}
          <5>1. CASE MarkRow(c)
            <6>1. row[c] # "none"
              BY <4>2, RegistryConstants DEF Started, Ended
            <6>2. HasRow(c)
              BY <2>3, <6>1 DEF HasRow, TypeOK
            <6>3. row'[c] = "disconnected"
              BY <2>1, <5>1, <6>2 DEF MarkRow, Ignoring, SetStatus, TypeOK
            <6> QED
              BY <2>5, <6>3
          <5>2. CASE ~MarkRow(c)
            BY <1>1, <2>5, <4>2, <5>2, ConnFlow
          <5> QED
            BY <5>1, <5>2
        <4>3. CASE row[c] = "disconnected"
          <5>1. phase[c] = "gone"
            BY <4>3 DEF RowsQuiet
          <5>2. DeleteRow(c)
            BY <1>1, <5>1, ConnFlow
          <5> QED
            BY <2>1, <5>2 DEF DeleteRow
        <4>4. CASE home[c] \notin alive
          <5>1. phase[c] \in Ended
            BY <4>4 DEF Started
          <5>2. CASE phase[c] = "gone"
            BY <1>1, <2>1, <5>2, ConnFlow DEF DeleteRow
          <5>3. CASE phase[c] = "new"
            BY <4>1, <5>3 DEF RowsQuiet
          <5> QED
            BY <5>1, <5>2, <5>3 DEF Ended
        <4> QED
          BY <2>2, <2>5, <4>1, <4>2, <4>3, <4>4
      <3> QED
        BY <3>1, <3>2, <3>3
    <2> QED
      BY <2>4, <2>5
  <1>2. ASSUME NEW i \in Instances, Stop(i)
        PROVE  \/ phase'[d] \in {"removing", "unrouting", "marking"}
               \/ row'[d] = "disconnected"
               \/ home'[d] \notin alive'
    BY <1>2 DEF Stop, bounds, ClosedMarked, TypeOK
  <1>3. CASE (\E i \in Instances : Snapshot(i) \/ \E s \in Subs : Refresh(i, s)) \/ Tick
    <2>1. UNCHANGED <<connVars, alive, deletes>> /\ faults = 0
      BY <1>3, WorldFrame
    <2> QED
      BY <2>1 DEF connVars, ClosedMarked
  <1>4. CASE UNCHANGED vars
    BY <1>4 DEF vars, connVars, instVars, bounds, ClosedMarked
  <1> QED
    BY <1>1, <1>2, <1>3, <1>4 DEF Next, InstanceStep
-----------------------------------------------------------------------------
(* Routes and their refresh.                                               *)

\* A subdomain is minted once for a connection, at one instance.
LEMMA SubKept ==
    ASSUME TypeOK, Started, [Next]_vars
    PROVE  \A d \in Conns : sub[d] \in Subs => sub'[d] = sub[d] /\ home'[d] = home[d]
  <1>1. ASSUME NEW c \in Conns, ConnStep(c)
        PROVE  \A d \in Conns : sub[d] \in Subs => sub'[d] = sub[d] /\ home'[d] = home[d]
    BY <1>1, ConnFrame, RegistryConstants DEF CreateRow, Started
  <1>2. CASE (\E i \in Instances : InstanceStep(i)) \/ Tick \/ UNCHANGED vars
    BY <1>2 DEF InstanceStep, Snapshot, Stop, Refresh, Tick, vars, connVars
  <1> QED
    BY <1>1, <1>2 DEF Next

\* A refresh round only sets what a connection of that instance once had.
LEMMA RoundsStep ==
    ASSUME TypeOK, Started, EntriesOwned, RoundsOwned, [Next]_vars
    PROVE  RoundsOwned'
  <1>1. \A d \in Conns : sub[d] \in Subs => sub'[d] = sub[d] /\ home'[d] = home[d]
    BY SubKept
  <1>2. ASSUME NEW i \in Instances, NEW s \in todo'[i]
        PROVE  s \in Subs /\ \E c \in Conns : sub[c] = s /\ home[c] = i
    <2>1. s \in todo[i] \/ s \in Registered(i)
      BY <1>2, ConnFrame DEF Next, InstanceStep, Snapshot, Stop, Refresh, Tick, vars, instVars,
         TypeOK
    <2>2. CASE s \in todo[i]
      BY <2>2 DEF RoundsOwned, TypeOK
    <2>3. CASE s \in Registered(i)
      BY <2>3 DEF EntriesOwned, Registered, TypeOK
    <2> QED
      BY <2>1, <2>2, <2>3
  <1> QED
    BY <1>1, <1>2 DEF RoundsOwned

\* While a connection is alone under its subdomain the registry names it and,
\* as long as no Redis call fails, its route is renewed before it expires.
LEMMA RouteStep ==
    ASSUME TypeOK, TypeOK', Started, Started', EntriesOwned, RoundsOwned, RouteKept, [Next]_vars
    PROVE  RouteKept'
  <1> SUFFICES ASSUME NEW c \in Conns, Alone(c)'
               PROVE  /\ Serving(c)' => bySub'[home'[c]][sub'[c]] = c
                      /\ faults' = 0 /\ phase'[c] \in {"routed", "online"} =>
                            /\ route'[sub'[c]] = home'[c]
                            /\ \/ ttl'[sub'[c]] > 1
                               \/ /\ ttl'[sub'[c]] = 1
                                  /\ home'[c] \in due' \/ sub'[c] \in todo'[home'[c]]
    BY DEF RouteKept
  <1> DEFINE Due == home[c] \in due \/ sub[c] \in todo[home[c]]
             Fresh == /\ route[sub[c]] = home[c]
                      /\ ttl[sub[c]] > 1 \/ (ttl[sub[c]] = 1 /\ Due)
  <1>0. ASSUME phase[c] \notin Ended
        PROVE  /\ sub[c] \in Subs /\ home[c] \in Instances /\ home[c] \in alive
               /\ sub'[c] = sub[c] /\ home'[c] = home[c]
               /\ \A d \in Conns \ {c} : sub[d] # sub[c]
               /\ \A i \in Instances : sub[c] \in todo[i] => i = home[c]
               /\ Serving(c) => bySub[home[c]][sub[c]] = c
               /\ faults = 0 /\ phase[c] \in {"routed", "online"} => Fresh
    <2>1. /\ sub[c] \in Subs /\ home[c] \in Instances /\ home[c] \in alive
          /\ sub'[c] = sub[c] /\ home'[c] = home[c]
      BY <1>0, SubKept DEF Started, TypeOK
    <2>2. \A d \in Conns \ {c} : sub[d] # sub[c]
      BY <2>1, SubKept DEF Alone
    <2>3. \A i \in Instances : sub[c] \in todo[i] => i = home[c]
      BY <2>2 DEF RoundsOwned
    <2>4. Alone(c)
      BY <2>2 DEF Alone
    <2>5. Serving(c) => bySub[home[c]][sub[c]] = c
      BY <2>4 DEF RouteKept
    <2>6. faults = 0 /\ phase[c] \in {"routed", "online"} => Fresh
      BY <2>4 DEF RouteKept
    <2> QED
      BY <2>1, <2>2, <2>3, <2>5, <2>6
  <1> DEFINE Goal == /\ Serving(c)' => bySub'[home[c]][sub[c]] = c
                     /\ faults' = 0 /\ phase'[c] \in {"routed", "online"} => Fresh'
  <1>1. ASSUME ConnStep(c), phase[c] \notin Ended
        PROVE  Goal
    <2>1. /\ sub'[c] = sub[c] /\ home'[c] = home[c] /\ UNCHANGED instVars
          /\ faults' = 0 => faults = 0
      BY <1>0, <1>1, ConnFrame
    <2>2. CASE AddLocal(c)
      BY <1>0, <2>1, <2>2 DEF AddLocal, Goto, Serving, TypeOK
    <2>3. CASE AddRoute(c)
      <3>1. bySub' = bySub /\ Serving(c)
        BY <1>1, <2>3, ConnFrame DEF AddRoute, AddLocal, RemoveLocal, Serving
      <3>2. faults' = 0 => route'[sub[c]] = home[c] /\ ttl'[sub[c]] > 1
        <4> SUFFICES ASSUME faults' = 0
                     PROVE  route'[sub[c]] = home[c] /\ ttl'[sub[c]] > 1
          OBVIOUS
        <4>1. SetRoute(sub[c], home[c])
          BY <2>1, <2>3 DEF AddRoute, Ignoring
        <4>2. ttl'[sub[c]] = RouteTTL /\ route'[sub[c]] = home[c]
          BY <1>0, <1>1, <4>1 DEF SetRoute, TypeOK
        <4> QED
          BY <4>2, RefreshInTime
      <3> QED
        BY <1>0, <1>1, <2>1, <3>1, <3>2
    <2>4. CASE ~AddLocal(c) /\ ~AddRoute(c)
      <3>1. Serving(c)' => Serving(c) /\ bySub' = bySub
        BY <1>1, <2>4, ConnFlow, ConnFrame DEF Serving, RemoveLocal
      <3>2. phase'[c] \in {"routed", "online"} =>
               phase[c] \in {"routed", "online"} /\ UNCHANGED redisVars
        BY <1>1, <2>4, ConnFlow, ConnFrame DEF RemoveRoute
      <3> QED
        BY <1>0, <1>1, <2>1, <3>1, <3>2 DEF redisVars, instVars
    <2> QED
      BY <2>2, <2>3, <2>4
  <1>2. ASSUME NEW d \in Conns \ {c}, ConnStep(d), phase[c] \notin Ended
        PROVE  Goal
    <2>1. /\ phase'[c] = phase[c] /\ UNCHANGED instVars
          /\ faults' = 0 => faults = 0
          /\ sub[d] # sub[c]
      BY <1>0, <1>2, ConnFrame
    <2>2. bySub'[home[c]][sub[c]] = bySub[home[c]][sub[c]]
      <3>1. CASE AddLocal(d) \/ RemoveLocal(d)
        <4>1. PICK e : bySub' = [bySub EXCEPT ![home[d]][sub[d]] = e]
          BY <3>1 DEF AddLocal, RemoveLocal
        <4> QED
          BY <1>0, <1>2, <2>1, <4>1 DEF TypeOK
      <3>2. CASE ~AddLocal(d) /\ ~RemoveLocal(d)
        BY <1>2, <3>2, ConnFrame
      <3> QED
        BY <3>1, <3>2
    <2>3. route'[sub[c]] = route[sub[c]] /\ ttl'[sub[c]] = ttl[sub[c]]
      BY <1>0, <1>2, <2>1, ConnFrame DEF AddRoute, RemoveRoute, Ignoring, SetRoute, DelRoute,
         redisVars, TypeOK
    <2> QED
      BY <1>0, <1>2, <2>1, <2>2, <2>3 DEF Serving, instVars
  <1>3. ASSUME NEW i \in Instances, Snapshot(i), phase[c] \notin Ended
        PROVE  Goal
    <2>1. UNCHANGED <<phase, sub, home, bySub, route, ttl, faults>>
      BY <1>3 DEF Snapshot, connVars, redisVars, bounds
    <2>2. Serving(c) => sub[c] \in Registered(home[c])
      BY <1>0, <1>3, RegistryConstants DEF Registered
    <2>3. Serving(c) /\ Due => Due'
      BY <1>0, <1>3, <2>1, <2>2 DEF Snapshot, TypeOK
    <2> QED
      BY <1>0, <1>3, <2>1, <2>3 DEF Serving
  <1>4. ASSUME NEW i \in Instances, Stop(i), phase[c] \notin Ended
        PROVE  Goal
    <2>1. UNCHANGED <<sub, home, route, ttl, faults>>
      BY <1>4 DEF Stop, redisVars, bounds
    <2>2. CASE i = home[c]
      BY <1>4, <2>2 DEF Stop, Serving, TypeOK
    <2>3. CASE i # home[c]
      <3>1. /\ phase'[c] = phase[c] /\ bySub'[home[c]] = bySub[home[c]]
            /\ todo'[home[c]] = todo[home[c]]
            /\ home[c] \in due => home[c] \in due'
        BY <1>0, <1>4, <2>3 DEF Stop, TypeOK
      <3> QED
        BY <1>0, <1>4, <2>1, <3>1 DEF Serving
    <2> QED
      BY <2>2, <2>3
  <1>5. ASSUME NEW i \in Instances, NEW s \in Subs, Refresh(i, s), phase[c] \notin Ended
        PROVE  Goal
    <2>1. /\ UNCHANGED <<phase, sub, home, bySub, alive, due>>
          /\ faults \in Nat /\ faults' \in Nat /\ faults' >= faults
          /\ todo' = [todo EXCEPT ![i] = @ \ {s}]
          /\ s \in todo[i]
      BY <1>5, RegistryConstants DEF Refresh, Ignoring, connVars, TypeOK
    <2>2. CASE s = sub[c]
      <3>1. i = home[c]
        BY <1>0, <1>5, <2>1, <2>2
      <3>2. faults' = 0 => route'[sub[c]] = home[c] /\ ttl'[sub[c]] > 1
        BY <1>0, <1>5, <2>1, <2>2, <3>1, RefreshInTime DEF Refresh, Ignoring, SetRoute, TypeOK
      <3> QED
        BY <1>0, <1>5, <2>1, <3>2 DEF Serving
    <2>3. CASE s # sub[c]
      <3>1. route'[sub[c]] = route[sub[c]] /\ ttl'[sub[c]] = ttl[sub[c]]
        BY <1>0, <1>5, <2>3 DEF Refresh, Ignoring, SetRoute, redisVars, TypeOK
      <3>2. Due => Due'
        BY <1>0, <1>5, <2>1, <2>3 DEF TypeOK
      <3> QED
        BY <1>0, <1>5, <2>1, <3>1, <3>2 DEF Serving
    <2> QED
      BY <2>2, <2>3
  <1>6. ASSUME Tick, phase[c] \notin Ended
        PROVE  Goal
    <2>1. /\ UNCHANGED <<phase, sub, home, bySub, alive, faults>>
          /\ ~Due /\ home[c] \in due'
      BY <1>0, <1>6 DEF Tick, connVars, bounds
    <2>2. ttl[sub[c]] \in Nat
      BY <1>0, <1>6, RegistryConstants DEF TypeOK
    <2>3. ttl[sub[c]] > 1 => /\ route'[sub[c]] = route[sub[c]]
                             /\ ttl'[sub[c]] > 1 \/ ttl'[sub[c]] = 1
      BY <1>0, <1>6, <2>2 DEF Tick
    <2> QED
      BY <1>0, <1>6, <2>1, <2>3 DEF Serving
  <1>7. ASSUME UNCHANGED vars, phase[c] \notin Ended
        PROVE  Goal
    BY <1>0, <1>7 DEF vars, connVars, redisVars, instVars, bounds, Serving
  <1>8. CASE phase[c] \notin Ended
    <2>1. Goal
      BY <1>1, <1>2, <1>3, <1>4, <1>5, <1>6, <1>7, <1>8 DEF Next, InstanceStep
    <2> QED
      BY <1>0, <1>8, <2>1
  <1>9. CASE phase[c] \in Ended
    <2>1. ~Serving(c)' /\ phase'[c] \notin {"routed", "online"}
      <3>1. ASSUME NEW d \in Conns, ConnStep(d)
            PROVE  ~Serving(c)' /\ phase'[c] \notin {"routed", "online"}
        BY <1>9, <3>1, ConnFlow, ConnFrame DEF Ended, Serving
      <3>2. CASE (\E i \in Instances : InstanceStep(i)) \/ Tick \/ UNCHANGED vars
        BY <1>9, <3>2 DEF InstanceStep, Snapshot, Stop, Refresh, Tick, vars, connVars, Ended,
           Serving, TypeOK
      <3> QED
        BY <3>1, <3>2 DEF Next
    <2> QED
      BY <2>1
  <1> QED
    BY <1>8, <1>9
-----------------------------------------------------------------------------
\* Every step keeps the invariant.
LEMMA IInvStep == IInv /\ [Next]_vars => IInv'
  <1> SUFFICES ASSUME IInv, [Next]_vars
               PROVE  IInv'
    OBVIOUS
  <1> USE DEF IInv
  <1>1. TypeOK'
    <2>1. CASE UNCHANGED vars
      BY <2>1 DEF vars, connVars, redisVars, instVars, bounds, TypeOK
    <2> QED
      BY <2>1, ConnTypeStep, WorldTypeStep DEF Next
  <1>2. Started' /\ EntriesOwned' /\ ServedFound' /\ UrlsUnique' /\ RowsQuiet'
    BY StartedStep, RegistryStep, UrlsStep, RowsStep
  <1>3. ClosedMarked' /\ RoundsOwned' /\ RouteKept'
    BY <1>1, <1>2, ClosedStep, RoundsStep, RouteStep
  <1> QED
    BY <1>1, <1>2, <1>3

\* The invariant holds in every reachable state.
THEOREM Invariance == Spec => []IInv
  BY IInvInit, IInvStep, PTL DEF Spec

\* A registry entry is a live connection of that instance and subdomain, and a
\* connection that serves and was not replaced is what lookups find
\* (Registry.add and remove).
THEOREM RegistryIsExact == Spec => []RegistryExact
  <1>1. IInv => RegistryExact
    BY DEF IInv, EntriesOwned, ServedFound, RegistryExact, Held
  <1> QED
    BY <1>1, Invariance, PTL

\* Two connections serve one subdomain only after a row was deleted under one
\* of them (the UNIQUE public_url behind Server.register).
THEOREM OneOwnerPerName == Spec => []OneOwner
  <1>1. IInv => OneOwner
    BY RegistryConstants DEF IInv, Started, Ended, Serving, UrlsUnique, OneOwner
  <1> QED
    BY <1>1, Invariance, PTL

\* The route of a connection that is alone under its subdomain never expires
\* while Redis answers (Registry.add, refreshLoop, routeTTL).
THEOREM OnlineStaysRouted == Spec => []OnlineRouted
  <1>1. IInv => OnlineRouted
    BY DEF IInv, RouteKept, Alone, OnlineRouted
  <1> QED
    BY <1>1, Invariance, PTL

\* A row says disconnected only after its connection was closed and left the
\* registry (the deferred calls of readLoop).
THEOREM DisconnectedServesNothing == Spec => []DisconnectedIsQuiet
  <1>1. IInv => DisconnectedIsQuiet
    BY DEF IInv, RowsQuiet, Serving, DisconnectedIsQuiet
  <1> QED
    BY <1>1, Invariance, PTL

\* Without failed calls and deletions the only active row of an ended
\* connection is that of a failed handshake (Server.register).
THEOREM OnlyHandshakesLeak == Spec => []ActiveRowLeaks
  <1>1. IInv => ActiveRowLeaks
    BY DEF IInv, ClosedMarked, ActiveRowLeaks
  <1> QED
    BY <1>1, Invariance, PTL
-----------------------------------------------------------------------------
(* The names of tunnels (TunnelHosts).                                     *)

\* Texts that are put together (strings.HasSuffix and the like look at the parts).
LEMMA Joined ==
    ASSUME NEW a \in Texts, NEW b \in Texts
    PROVE  /\ a \o b \in Texts
           /\ Len(a \o b) = Len(a) + Len(b)
           /\ \A i \in 1..Len(a) : (a \o b)[i] = a[i]
           /\ \A i \in 1..Len(b) : (a \o b)[Len(a) + i] = b[i]
           /\ SubSeq(a \o b, 1, Len(a)) = a
           /\ SubSeq(a \o b, Len(a) + 1, Len(a \o b)) = b
  BY DEF Texts

LEMMA LacksJoined ==
    ASSUME NEW a \in Texts, NEW b \in Texts, NEW mark, Lacks(a, mark), Lacks(b, mark)
    PROVE  Lacks(a \o b, mark)
  <1> SUFFICES ASSUME NEW i \in DOMAIN (a \o b) PROVE (a \o b)[i] # mark
    BY DEF Lacks
  <1>1. Len(a) \in Nat /\ Len(b) \in Nat /\ DOMAIN a = 1..Len(a) /\ DOMAIN b = 1..Len(b)
        /\ DOMAIN (a \o b) = 1..(Len(a) + Len(b))
    BY Joined DEF Texts
  <1>2. CASE i \in 1..Len(a)
    BY <1>1, <1>2, Joined DEF Lacks
  <1>3. CASE i \notin 1..Len(a)
    <2>1. i - Len(a) \in 1..Len(b) /\ i = Len(a) + (i - Len(a))
      BY <1>1, <1>3
    <2> QED
      BY <1>1, <2>1, Joined DEF Lacks
  <1> QED
    BY <1>2, <1>3

\* What is in front of the first mark.
LEMMA IndexFirst ==
    ASSUME NEW a \in Texts, NEW b \in Texts, NEW mark \in {".", ":", "/"}, Lacks(a, mark)
    PROVE  /\ IndexByte(a \o (<<mark>> \o b), mark) = Len(a) + 1
           /\ SubSeq(a \o (<<mark>> \o b), 1, Len(a)) = a
           /\ a \o (<<mark>> \o b) \in Texts
  <1> DEFINE t == a \o (<<mark>> \o b)
             n == Len(a) + 1
  <1>1. <<mark>> \in Texts /\ Len(<<mark>>) = 1 /\ <<mark>>[1] = mark
    BY DEF Texts
  <1>2. <<mark>> \o b \in Texts /\ Len(<<mark>> \o b) = 1 + Len(b) /\ (<<mark>> \o b)[1] = mark
    BY <1>1, Joined
  <1>3. /\ t \in Texts /\ SubSeq(t, 1, Len(a)) = a
        /\ Len(t) = Len(a) + (1 + Len(b)) /\ t[n] = mark
        /\ \A i \in 1..Len(a) : t[i] = a[i]
    BY <1>2, Joined DEF Texts
  <1>4. Len(a) \in Nat /\ Len(b) \in Nat /\ DOMAIN a = 1..Len(a) /\ DOMAIN t = 1..Len(t)
    BY <1>3 DEF Texts
  <1>5. n \in DOMAIN t /\ t[n] = mark /\ \A j \in 1..(n - 1) : t[j] # mark
    BY <1>3, <1>4 DEF Lacks
  <1> HIDE DEF t
  <1>6. \A i \in DOMAIN t : t[i] = mark /\ (\A j \in 1..(i - 1) : t[j] # mark) => i = n
    BY <1>4, <1>5
  <1>7. IndexByte(t, mark) = n
    BY <1>5, <1>6 DEF IndexByte
  <1> QED
    BY <1>3, <1>7 DEF t

\* A Host without a port, and one with a port.
LEMMA PortStripped ==
    ASSUME NEW name \in Texts, Lacks(name, ":")
    PROVE  /\ StripPort(name) = name
           /\ \A port \in Texts :
                 Lacks(port, ":") => StripPort(name \o (<<":">> \o port)) = name
  <1>1. StripPort(name) = name
    BY DEF StripPort, Lacks
  <1>2. ASSUME NEW port \in Texts, Lacks(port, ":")
        PROVE  StripPort(name \o (<<":">> \o port)) = name
    <2> DEFINE t == name \o (<<":">> \o port)
               n == Len(name) + 1
    <2>1. IndexByte(t, ":") = n /\ SubSeq(t, 1, Len(name)) = name /\ Len(name) \in Nat
      BY IndexFirst DEF Texts
    <2>2. <<":">> \in Texts /\ Len(<<":">>) = 1 /\ <<":">>[1] = ":"
      BY DEF Texts
    <2>3. /\ <<":">> \o port \in Texts /\ Len(<<":">> \o port) = 1 + Len(port)
          /\ (<<":">> \o port)[1] = ":"
          /\ \A i \in 1..Len(port) : (<<":">> \o port)[1 + i] = port[i]
      BY <2>2, Joined
    <2>4. /\ t \in Texts /\ Len(t) = Len(name) + (1 + Len(port))
          /\ \A i \in 1..Len(name) : t[i] = name[i]
          /\ \A i \in 1..(1 + Len(port)) : t[Len(name) + i] = (<<":">> \o port)[i]
      <3> DEFINE end == <<":">> \o port
      <3>1. end \in Texts /\ Len(end) = 1 + Len(port)
        BY <2>3
      <3> HIDE DEF end
      <3>2. /\ name \o end \in Texts /\ Len(name \o end) = Len(name) + Len(end)
            /\ \A i \in 1..Len(name) : (name \o end)[i] = name[i]
            /\ \A i \in 1..Len(end) : (name \o end)[Len(name) + i] = end[i]
        BY <3>1, Joined
      <3> QED
        BY <3>1, <3>2 DEF end
    <2>5. /\ Len(port) \in Nat /\ DOMAIN t = 1..Len(t)
          /\ DOMAIN name = 1..Len(name) /\ DOMAIN port = 1..Len(port)
      BY <2>4 DEF Texts
    <2> HIDE DEF t
    <2>6. t[n] = ":" /\ n \in DOMAIN t
      BY <2>1, <2>3, <2>4, <2>5
    <2>7. ASSUME NEW j \in DOMAIN t, j # n PROVE t[j] # ":"
      <3>1. CASE j <= Len(name)
        BY <2>1, <2>4, <2>5, <3>1 DEF Lacks
      <3>2. CASE j > n
        <4> DEFINE k == j - n
        <4>1. k \in 1..Len(port) /\ j = Len(name) + (1 + k) /\ 1 + k \in 1..(1 + Len(port))
          <5>1. j \in 1..(Len(name) + (1 + Len(port)))
            BY <2>4, <2>5
          <5>2. j \in Nat /\ j > Len(name) + 1 /\ j <= Len(name) + (1 + Len(port))
            BY <2>1, <2>5, <3>2, <5>1
          <5> QED
            BY <2>1, <2>5, <5>2
        <4> HIDE DEF k
        <4>2. t[j] = (<<":">> \o port)[1 + k]
          BY <2>4, <4>1
        <4>3. t[j] = port[k]
          BY <2>3, <4>1, <4>2
        <4> QED
          BY <1>2, <2>5, <4>1, <4>3 DEF Lacks
      <3> QED
        BY <2>1, <2>4, <2>5, <2>7, <3>1, <3>2
    <2>8. \E i \in DOMAIN t : \A j \in DOMAIN t : t[j] = ":" <=> j = i
      BY <2>6, <2>7
    <2>9. n - 1 = Len(name)
      BY <2>1
    <2>10. StripPort(t) = name
      BY <2>1, <2>8, <2>9 DEF StripPort
    <2> QED
      BY <2>10 DEF t
  <1> QED
    BY <1>1, <1>2

\* A Host without its port is the rest of it.
LEMMA PortCut ==
    ASSUME NEW host \in Texts
    PROVE  /\ StripPort(host) \in Texts
           /\ (\A i, j \in DOMAIN host : host[i] = ":" /\ host[j] = ":" => i = j)
                  => Lacks(StripPort(host), ":")
  <1> DEFINE name == StripPort(host)
  <1>1. ASSUME NEW n \in DOMAIN host, \A j \in DOMAIN host : host[j] = ":" <=> j = n
        PROVE  name \in Texts /\ Lacks(name, ":")
    <2>1. n \in Nat \ {0} /\ n <= Len(host) /\ DOMAIN host = 1..Len(host) /\ Len(host) \in Nat
      BY <1>1 DEF Texts
    <2>2. \A j \in 1..(n - 1) : j \in DOMAIN host /\ host[j] # ":"
      BY <1>1, <2>1
    <2>3. IndexByte(host, ":") = n
      BY <1>1, <2>2 DEF IndexByte
    <2>4. name = SubSeq(host, 1, n - 1)
      BY <1>1, <2>3 DEF StripPort
    <2>5. name \in Texts /\ DOMAIN name = 1..(n - 1)
          /\ \A j \in 1..(n - 1) : name[j] = host[j]
      BY <2>1, <2>4 DEF Texts
    <2> QED
      BY <2>2, <2>5 DEF Lacks
  <1>2. CASE Lacks(host, ":")
    BY <1>2, PortStripped
  <1>3. CASE ~Lacks(host, ":") /\ \A i, j \in DOMAIN host : host[i] = ":" /\ host[j] = ":" => i = j
    <2>1. PICK n \in DOMAIN host : host[n] = ":"
      BY <1>3 DEF Lacks
    <2> QED
      BY <1>1, <1>3, <2>1
  <1>4. name = host \/ name \in Texts
    BY <1>1 DEF StripPort
  <1> QED
    BY <1>2, <1>3, <1>4

\* The suffix that the base domain makes.
LEMMA Suffix ==
    /\ <<".">> \o Base \in Texts
    /\ Len(<<".">> \o Base) = Len(Base) + 1 /\ Len(Base) \in Nat
    /\ \A mark \in {":", "/"} : Lacks(Base, mark) <=> Lacks(<<".">> \o Base, mark)
  <1>1. <<".">> \in Texts /\ Len(<<".">>) = 1 /\ \A mark \in {":", "/"} : Lacks(<<".">>, mark)
    BY DEF Texts, Lacks
  <1>2. /\ <<".">> \o Base \in Texts /\ Len(<<".">> \o Base) = Len(Base) + 1
        /\ Len(Base) \in Nat
        /\ \A i \in 1..Len(Base) : (<<".">> \o Base)[1 + i] = Base[i]
    BY <1>1, HostConstants, Joined DEF Texts
  <1>3. ASSUME NEW mark \in {":", "/"}, Lacks(Base, mark) PROVE Lacks(<<".">> \o Base, mark)
    BY <1>1, <1>3, HostConstants, LacksJoined
  <1>4. ASSUME NEW mark \in {":", "/"}, Lacks(<<".">> \o Base, mark) PROVE Lacks(Base, mark)
    <2> SUFFICES ASSUME NEW i \in DOMAIN Base PROVE Base[i] # mark
      BY DEF Lacks
    <2>1. i \in 1..Len(Base) /\ 1 + i \in DOMAIN (<<".">> \o Base)
      BY <1>2, HostConstants DEF Texts
    <2> QED
      BY <1>2, <1>4, <2>1 DEF Lacks
  <1> QED
    BY <1>2, <1>3, <1>4

\* The host of a public URL: the scheme goes, and nothing else (register,
\* hostFromPublicURL).
LEMMA HostOfURL ==
    ASSUME NEW s \in Texts, Lacks(s, ":"), Lacks(s, "/"), Lacks(Base, "/")
    PROVE  HostFromPublicURL(PublicURL(s)) = s \o (<<".">> \o Base)
  <1> DEFINE name == s \o (<<".">> \o Base)
             https == <<"https", ":", "/", "/">>
             http == <<"http", ":", "/", "/">>
  <1>1. name \in Texts /\ Lacks(name, "/")
    BY Suffix, Joined, LacksJoined
  <1>2. https \in Texts /\ http \in Texts /\ Len(https) = 4 /\ Len(http) = 4 /\ http[3] = "/"
    BY HostConstants DEF Texts
  <1>3. SubSeq(https \o name, 1, 4) = https /\ SubSeq(https \o name, 4 + 1, Len(https \o name)) = name
        /\ Len(https \o name) = 4 + Len(name) /\ Len(name) \in Nat
    <2>1. Len(name) \in Nat
      BY <1>1 DEF Texts
    <2> HIDE DEF name, https
    <2>2. /\ Len(https \o name) = Len(https) + Len(name)
          /\ SubSeq(https \o name, 1, Len(https)) = https
          /\ SubSeq(https \o name, Len(https) + 1, Len(https \o name)) = name
      BY <1>1, <1>2, Joined
    <2> QED
      BY <1>2, <2>1, <2>2
  <1> HIDE DEF name, https, http
  <1>4. TrimPrefix(https \o name, https) = name
    <2>1. HasPrefix(https \o name, https)
      BY <1>2, <1>3 DEF HasPrefix
    <2> QED
      BY <1>2, <1>3, <2>1 DEF TrimPrefix
  <1>5. ~HasPrefix(name, http)
    <2> SUFFICES ASSUME HasPrefix(name, http) PROVE FALSE
      OBVIOUS
    <2>1. 4 <= Len(name) /\ SubSeq(name, 1, 4) = http
      BY <1>2 DEF HasPrefix
    <2>2. name[3] = "/" /\ 3 \in DOMAIN name
      BY <1>1, <1>2, <2>1 DEF Texts
    <2> QED
      BY <1>1, <2>2 DEF Lacks
  <1>6. TrimPrefix(name, http) = name
    BY <1>5 DEF TrimPrefix
  <1> QED
    BY <1>1, <1>4, <1>6 DEF HostFromPublicURL, PublicURL, name, https, http

\* The subdomain of a name, with the suffix and without (subdomainFromHost).
LEMMA SubdomainFound ==
    ASSUME NEW s \in Texts, NEW host, StripPort(host) = s \o (<<".">> \o Base)
    PROVE  SubdomainFromHost(host) = s
  <1> DEFINE suffix == <<".">> \o Base
             name == s \o suffix
  <1>1. /\ Len(name) = Len(s) + Len(suffix) /\ Len(s) \in Nat /\ Len(suffix) \in Nat
        /\ SubSeq(name, 1, Len(s)) = s /\ SubSeq(name, Len(s) + 1, Len(name)) = suffix
    BY Suffix, Joined DEF Texts
  <1>2. StripPort(host) = name
    OBVIOUS
  <1> HIDE DEF name
  <1>3. Len(suffix) <= Len(name) /\ Len(name) - Len(suffix) = Len(s)
    BY <1>1
  <1>4. HasSuffix(name, suffix) /\ TrimSuffix(name, suffix) = s
    BY <1>1, <1>3 DEF HasSuffix, TrimSuffix
  <1> QED
    BY <1>2, <1>4 DEF SubdomainFromHost

\* A public URL leads back to its tunnel, if the base domain has no port and no
\* path: the Host of a visitor, with whatever port, and the Host of a replay are
\* found under the subdomain that was minted (register, handlePublic, Replay).
THEOREM PublicURLLeadsBack ==
    ASSUME Lacks(Base, ":"), Lacks(Base, "/"),
           NEW s \in Texts, Lacks(s, ":"), Lacks(s, "/"),
           NEW port \in Texts, Lacks(port, ":")
    PROVE  LET host == HostFromPublicURL(PublicURL(s))
           IN  SubdomainFromHost(host) = s /\ SubdomainFromHost(host \o (<<":">> \o port)) = s
  <1> DEFINE name == s \o (<<".">> \o Base)
  <1>1. name \in Texts /\ Lacks(name, ":")
    BY Suffix, Joined, LacksJoined
  <1>2. HostFromPublicURL(PublicURL(s)) = name
    BY HostOfURL
  <1>3. StripPort(name) = name /\ StripPort(name \o (<<":">> \o port)) = name
    BY <1>1, PortStripped
  <1>4. SubdomainFromHost(name) = s /\ SubdomainFromHost(name \o (<<":">> \o port)) = s
    BY <1>3, SubdomainFound
  <1> QED
    BY <1>2, <1>4

\* A base domain with a port serves nobody: the port is cut off the Host, but not
\* off the suffix it is to end in (subdomainFromHost).  It is so for every Host
\* with one colon or none, those of the public URLs included.
THEOREM PortInBaseServesNobody ==
    ASSUME ~Lacks(Base, ":"), NEW host \in Texts,
           \A i, j \in DOMAIN host : host[i] = ":" /\ host[j] = ":" => i = j
    PROVE  SubdomainFromHost(host) = <<>>
  <1> DEFINE suffix == <<".">> \o Base
             name == StripPort(host)
  <1>1. suffix \in Texts /\ ~Lacks(suffix, ":") /\ Len(suffix) \in Nat
    BY Suffix DEF Texts
  <1>2. name \in Texts /\ Lacks(name, ":")
    BY PortCut
  <1>3. ~HasSuffix(name, suffix)
    <2> SUFFICES ASSUME HasSuffix(name, suffix) PROVE FALSE
      OBVIOUS
    <2> DEFINE m == Len(name) - Len(suffix)
    <2>1. PICK i \in DOMAIN suffix : suffix[i] = ":"
      BY <1>1 DEF Lacks
    <2>2. m \in Nat /\ Len(name) \in Nat /\ SubSeq(name, m + 1, Len(name)) = suffix
      BY <1>1, <1>2 DEF HasSuffix, Texts
    <2>3. i \in 1..Len(suffix)
      BY <1>1, <2>1 DEF Texts
    <2>4. Len(name) = m + Len(suffix) /\ i \in Nat
      BY <1>1, <2>2, <2>3
    <2>5. m + i \in 1..Len(name) /\ DOMAIN name = 1..Len(name)
      BY <1>1, <1>2, <2>2, <2>3, <2>4 DEF Texts
    <2>6. SubSeq(name, m + 1, Len(name))[i] = name[m + i]
      <3> HIDE DEF name, m, suffix
      <3> QED
        BY <1>1, <1>2, <2>2, <2>3, <2>4 DEF Texts
    <2>7. name[m + i] = ":"
      BY <2>1, <2>2, <2>6
    <2> QED
      BY <1>2, <2>5, <2>7 DEF Lacks
  <1> QED
    BY <1>3 DEF SubdomainFromHost

\* No host is found under a subdomain that it is not the public URL of: two
\* tunnels are never mixed up by their names (subdomainFromHost).
THEOREM OneNamePerSubdomain ==
    ASSUME NEW host \in Texts, SubdomainFromHost(host) # <<>>
    PROVE  PublicURL(SubdomainFromHost(host)) = <<"https", ":", "/", "/">> \o StripPort(host)
  <1> DEFINE suffix == <<".">> \o Base
             name == StripPort(host)
             n == Len(name) - Len(suffix)
  <1>1. HasSuffix(name, suffix) /\ SubdomainFromHost(host) = SubSeq(name, 1, n)
    BY DEF SubdomainFromHost, TrimSuffix
  <1>2. name \in Texts
    BY PortCut
  <1>3. /\ n \in Nat /\ Len(name) \in Nat /\ n <= Len(name)
        /\ SubSeq(name, n + 1, Len(name)) = suffix
    BY <1>1, <1>2, Suffix DEF HasSuffix, Texts
  <1> HIDE DEF name, n
  <1>4. SubSeq(name, 1, n) \o suffix = name
    <2>1. 1 \in 1..(Len(name) + 1) /\ n \in (1 - 1)..Len(name) /\ Len(name) \in n..Len(name)
      BY <1>3
    <2>2. SubSeq(name, 1, n) \o SubSeq(name, n + 1, Len(name)) = SubSeq(name, 1, Len(name))
      BY <1>2, <2>1, ConcatAdjacentSubSeq DEF Texts
    <2>3. SubSeq(name, 1, Len(name)) = name
      BY <1>2, SubSeqFull DEF Texts
    <2> QED
      BY <1>3, <2>2, <2>3
  <1> QED
    BY <1>1, <1>4 DEF PublicURL, name

\* Certificates are issued for the hosts that tunnels are looked up under, for
\* the base domain, and for that with a dot in front, which is no host
\* (HostPolicy against subdomainFromHost, which have a suffix test each).
THEOREM CertificatesForTunnels ==
    ASSUME NEW host \in Texts, Lacks(host, ":")
    PROVE  HostPolicy(host)
               <=> SubdomainFromHost(host) # <<>> \/ host \in {Base, <<".">> \o Base}
  <1> DEFINE suffix == <<".">> \o Base
             n == Len(host) - Len(suffix)
  <1>1. StripPort(host) = host
    BY PortStripped
  <1>2. SubdomainFromHost(host) = IF HasSuffix(host, suffix) THEN SubSeq(host, 1, n) ELSE <<>>
    BY <1>1 DEF SubdomainFromHost, TrimSuffix
  <1>3. Len(host) \in Nat /\ Len(suffix) \in Nat /\ suffix \in Texts
    BY Suffix DEF Texts
  <1>4. HasSuffix(suffix, suffix)
    BY <1>3, SubSeqFull DEF HasSuffix, Texts
  <1>5. ASSUME HasSuffix(host, suffix), host # suffix PROVE SubSeq(host, 1, n) # <<>>
    <2>1. n # 0
      <3> SUFFICES ASSUME n = 0 PROVE FALSE
        OBVIOUS
      <3>1. SubSeq(host, n + 1, Len(host)) = suffix
        BY <1>5 DEF HasSuffix
      <3>2. n + 1 = 1
        OBVIOUS
      <3> QED
        BY <1>5, <3>1, <3>2, SubSeqFull DEF Texts
    <2>2. n \in Nat \ {0} /\ n <= Len(host)
      BY <1>3, <1>5, <2>1 DEF HasSuffix
    <2> HIDE DEF n
    <2>3. Len(SubSeq(host, 1, n)) = n
      BY <2>2 DEF Texts
    <2> QED
      BY <2>2, <2>3
  <1> QED
    BY <1>2, <1>4, <1>5 DEF HostPolicy
=============================================================================
