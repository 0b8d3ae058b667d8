----------------------------- MODULE TunnelQuota -----------------------------
(***************************************************************************)
(* The plan of a workspace and the tunnels it limits: billing's quota      *)
(* check and plan changes (at once, or through a Stripe checkout and its   *)
(* webhook), the API that creates projects and, behind that check, tunnels *)
(* in them, and the gateway, which creates tunnels on its own.             *)
(*                                                                         *)
(* A tunnel belongs to a workspace through its project.  Each POST of a    *)
(* tunnel is a goroutine (a call) whose statements are steps of their own. *)
(* A role and what it allows are one step: it can be stale only when the   *)
(* row is gone, and then the statement after it finds no row either.       *)
(***************************************************************************)
EXTENDS Integers, FiniteSets, Projects

CONSTANTS
    Tunnels,    \* tunnel rows a behaviour may create
    Calls,      \* concurrent POST /tunnels requests
    Plans,      \* plan names
    MaxTunnels, \* MaxTunnels[p]: the plan's tunnel limit; -1 is no limit
    Stripe,     \* whether the Stripe processor is configured
    Gateway,    \* whether agents connect to the gateway
    MaxEvents,  \* bound: webhook deliveries
    None

ASSUME QuotaConstants ==
    /\ "free" \in Plans
    /\ MaxTunnels \in [Plans -> Int]
    /\ {Stripe, Gateway} \subseteq BOOLEAN
    /\ MaxEvents \in Nat
    /\ None \notin Users \cup Projects

\* Requests are served at once by finitely many goroutines, by one at least.
ASSUME QuotaFinite == IsFiniteSet(Calls) /\ Calls # {}

VARIABLES
    plan,       \* plan[w]: the workspace's subscription
    status,     \* status[t]: status of the row, "none" before, "deleted" after
    project,    \* project[t]: the project of the row, None before
    byGateway,  \* the rows the gateway created, for agents that connected
    pc,         \* pc[k]: where POST /tunnels call k stands
    call,       \* call[k]: its user and project, and the plan it read
    sessions,   \* Stripe checkouts ever opened: <<workspace, plan>>
    checkouts,  \* those that were completed
    events      \* webhook deliveries so far

vars == <<member, plan, status, project, byGateway, pc, call, sessions, checkouts, events>>

NoCall == [user |-> None, project |-> None, plan |-> "free"]

Init ==
    /\ member = NoProjects
    /\ plan = [w \in Users |-> "free"]
    /\ status = [t \in Tunnels |-> "none"]
    /\ project = [t \in Tunnels |-> None]
    /\ byGateway = {}
    /\ pc = [k \in Calls |-> "idle"]
    /\ call = [k \in Calls |-> NoCall]
    /\ sessions = {}
    /\ checkouts = {}
    /\ events = 0

Stored == {t \in Tunnels : status[t] \notin {"none", "deleted"}}

\* The rows a workspace's quota counts: connected or not, never connected too.
Counted(w) ==
    {t \in Stored : member[project[t]] = w /\ status[t] \in {"created", "active"}}

\* Mutant of WithinLimit: off by one.
BugWithinLimit(current, limit) == limit < 0 \/ current <= limit

WithinLimit(current, limit) == limit < 0 \/ current < limit

\* A name that is in no catalog is the free plan.
PlanFor(name) == IF name \in Plans THEN name ELSE "free"

\* Mutant of Insert: tunnels.project_id references nothing.
BugNoReference(t, p) ==
    /\ status[t] = "none"
    /\ status' = [status EXCEPT ![t] = "created"]
    /\ project' = [project EXCEPT ![t] = p]

\* A fresh row, of a project that exists (its foreign key).
Insert(t, p) ==
    /\ status[t] = "none"
    /\ Exists(p)
    /\ status' = [status EXCEPT ![t] = "created"]
    /\ project' = [project EXCEPT ![t] = p]
-----------------------------------------------------------------------------
(* POST /tunnels: Service.Create                                           *)

Begin(k, stage, c) ==
    /\ pc[k] = "idle"
    /\ pc' = [pc EXCEPT ![k] = stage]
    /\ call' = [call EXCEPT ![k] = c]

\* The call is answered, with a tunnel or an error.
End(k) ==
    /\ pc' = [pc EXCEPT ![k] = "idle"]
    /\ call' = [call EXCEPT ![k] = NoCall]

\* The role check passes; PrimarySubscription reads the caller's plan.
ReadPlan(k, u, p) ==
    /\ MayOpen(u, p)
    /\ Begin(k, "counting", [user |-> u, project |-> p, plan |-> plan[u]])
    /\ UNCHANGED <<member, plan, status, project, byGateway, sessions, checkouts, events>>

\* CheckTunnelQuota counts, and compares with the plan read before.
CheckCount(k) ==
    /\ pc[k] = "counting"
    /\ IF WithinLimit(Cardinality(Counted(call[k].user)), MaxTunnels[PlanFor(call[k].plan)])
       THEN pc' = [pc EXCEPT ![k] = "allowed"] /\ UNCHANGED call
       ELSE End(k)
    /\ UNCHANGED <<member, plan, status, project, byGateway, sessions, checkouts, events>>

\* Neither the count nor the role is looked at again.
CreateTunnel(k, t) ==
    /\ pc[k] = "allowed"
    /\ Insert(t, call[k].project)
    /\ End(k)
    /\ UNCHANGED <<member, plan, byGateway, sessions, checkouts, events>>

\* A statement fails, the INSERT for want of the project among others, or the
\* client is gone and its context with it.
CallFails(k) ==
    /\ pc[k] # "idle"
    /\ End(k)
    /\ UNCHANGED <<member, plan, status, project, byGateway, sessions, checkouts, events>>
-----------------------------------------------------------------------------
(* The other operations on tunnels and projects                            *)

\* The tunnel joined with the caller's membership.
GetWithAccess(u, t) == IF t \in Stored THEN ProjectRole(u, project[t]) ELSE "ErrNotFound"

\* Service.Delete
DeleteTunnel(u, t) ==
    /\ GetWithAccess(u, t) \notin {"viewer", "ErrNotFound"}
    /\ status' = [status EXCEPT ![t] = "deleted"]
    /\ UNCHANGED <<member, plan, project, byGateway, pc, call, sessions, checkouts, events>>

CreateProject(u, p) ==
    /\ InsertProject(u, p)
    /\ UNCHANGED <<plan, status, project, byGateway, pc, call, sessions, checkouts, events>>

\* The project's tunnels go with it (ON DELETE CASCADE).
DeleteProject(u, p) ==
    /\ MayDelete(u, p)
    /\ RemoveProject(p)
    /\ status' = [t \in Tunnels |->
                    IF t \in Stored /\ project[t] = p THEN "deleted" ELSE status[t]]
    /\ UNCHANGED <<plan, project, byGateway, pc, call, sessions, checkouts, events>>
-----------------------------------------------------------------------------
(* The gateway (Server.register, readLoop): no quota is asked for.         *)

GatewayCreate(t, u, p) ==
    /\ Gateway
    /\ MayOpen(u, p)
    /\ Insert(t, p)
    /\ byGateway' = byGateway \cup {t}
    /\ UNCHANGED <<member, plan, pc, call, sessions, checkouts, events>>

\* SetStatus, its errors ignored: "active" may be skipped.  A row created
\* through the API never leaves "created", for no agent uses it.
GatewayStatus(t) ==
    /\ t \in byGateway
    /\ \/ status[t] = "created" /\ status' = [status EXCEPT ![t] = "active"]
       \/ status[t] \in {"created", "active"} /\ status' = [status EXCEPT ![t] = "disconnected"]
    /\ UNCHANGED <<member, plan, project, byGateway, pc, call, sessions, checkouts, events>>
-----------------------------------------------------------------------------
(* Plans: Service.ChangePlan, Stripe, ApplyWebhook                         *)

SetPlan(w, p) == plan' = [plan EXCEPT ![w] = p]

\* StartCheckout returns no URL: the stub's plans, and Stripe's downgrade.
AppliedAtOnce(p) == ~Stripe \/ p = "free"

ChangePlan(u, p) ==
    /\ AppliedAtOnce(p)
    /\ SetPlan(u, p)
    /\ UNCHANGED <<member, status, project, byGateway, pc, call, sessions, checkouts, events>>

\* A plan that is to be paid for: u is sent to a checkout, and nothing changes.
StartCheckout(u, p) ==
    /\ ~AppliedAtOnce(p)
    /\ sessions' = sessions \cup {<<u, p>>}
    /\ UNCHANGED <<member, plan, status, project, byGateway, pc, call, checkouts, events>>

\* u has paid.
CompleteCheckout(u, p) ==
    /\ <<u, p>> \in sessions
    /\ checkouts' = checkouts \cup {<<u, p>>}
    /\ UNCHANGED <<member, plan, status, project, byGateway, pc, call, sessions, events>>

\* Mutant of ParseWebhook: events of any type count.
BugAnyEvent == sessions

\* The changes in the events that Stripe signs and the code acts on: of a
\* completed checkout, with the workspace and the plan it was opened for.
ParseWebhook == checkouts

\* Stripe delivers an event at least once, late, and in any order.
ApplyWebhook(u, p) ==
    /\ events < MaxEvents
    /\ <<u, p>> \in ParseWebhook
    /\ SetPlan(u, p)
    /\ events' = events + 1
    /\ UNCHANGED <<member, status, project, byGateway, pc, call, sessions, checkouts>>
-----------------------------------------------------------------------------
TunnelStep(t) ==
    \/ \E k \in Calls : CreateTunnel(k, t)
    \/ \E u \in Users : DeleteTunnel(u, t) \/ \E p \in Projects : GatewayCreate(t, u, p)
    \/ GatewayStatus(t)

ProjectStep(u, p) == CreateProject(u, p) \/ DeleteProject(u, p)

PlanStep(u, p) ==
    \/ ChangePlan(u, p) \/ StartCheckout(u, p)
    \/ CompleteCheckout(u, p) \/ ApplyWebhook(u, p)

Next ==
    \/ \E k \in Calls : CheckCount(k) \/ CallFails(k)
    \/ \E k \in Calls, u \in Users, p \in Projects : ReadPlan(k, u, p)
    \/ \E t \in Tunnels : TunnelStep(t)
    \/ \E u \in Users, p \in Projects : ProjectStep(u, p)
    \/ \E u \in Users, p \in Plans : PlanStep(u, p)

Spec == Init /\ [][Next]_vars
-----------------------------------------------------------------------------
(* Properties                                                              *)

TypeOK ==
    /\ member \in [Projects -> Users \cup {"none", "deleted"}]
    /\ plan \in [Users -> Plans]
    /\ status \in [Tunnels -> {"none", "created", "active", "disconnected", "deleted"}]
    /\ project \in [Tunnels -> Projects \cup {None}]
    /\ byGateway \subseteq Tunnels
    /\ pc \in [Calls -> {"idle", "counting", "allowed"}]
    /\ call \in [Calls -> [user : Users \cup {None}, project : Projects \cup {None},
                           plan : Plans]]
    /\ checkouts \subseteq sessions /\ sessions \subseteq Users \X Plans
    /\ events \in 0..MaxEvents

Within(n, limit) == limit < 0 \/ n <= limit

PlansHad(w) == {"free"} \cup {p \in Plans : <<w, p>> \in checkouts}

\* Racing creations through the API overshoot the limit of the best plan the
\* workspace ever paid for by less than their number: each was allowed against
\* a count that lacked only what the others were to insert, whatever the
\* gateway, deletions and plan changes do.
OvershootBounded ==
    Stripe => \A w \in Users : \E p \in PlansHad(w) :
        Within(Cardinality(Counted(w) \ byGateway) - Cardinality(Calls) + 1, MaxTunnels[p])

\* With Stripe, no workspace has a paid plan it never paid for, in whatever
\* order checkouts, downgrades and repeated webhooks are handled.
PaidPlansPaid ==
    TypeOK /\ (Stripe => \A w \in Users : plan[w] # "free" => <<w, plan[w]>> \in checkouts)

\* A tunnel row belongs to a project that exists, however late a creation that
\* was allowed comes after the project's deletion, and however the gateway's
\* own rows, their status and other deletions come in between.
TunnelsHaveProjects == \A t \in Stored : Exists(project[t])
=============================================================================
