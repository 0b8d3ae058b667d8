-------------------------- MODULE TunnelQuotaProofs --------------------------
(***************************************************************************)
(* Theorems about TunnelQuota, for any number of users, projects, tunnels, *)
(* calls and webhook deliveries: types, that a paid plan was paid for,     *)
(* that a tunnel row belongs to a project that exists, and by how much     *)
(* racing creations can overshoot a plan.                                  *)
(***************************************************************************)
EXTENDS TunnelQuota, FiniteSetTheorems, TLAPS

\* A call under way was made for a project, which may be gone by now.
CallsHold == \A k \in Calls : pc[k] # "idle" => call[k].project \in Projects

IInv == TypeOK /\ CallsHold /\ PaidPlansPaid /\ TunnelsHaveProjects

USE ProjectConstants, QuotaConstants
-----------------------------------------------------------------------------
\* The invariant holds in the initial state.
LEMMA InitIInv == Init => IInv
  <1> SUFFICES ASSUME Init PROVE IInv
    OBVIOUS
  <1>1. TypeOK
    BY DEF Init, TypeOK, NoProjects, NoCall
  <1>2. TunnelsHaveProjects
    BY DEF Init, TunnelsHaveProjects, Stored
  <1> QED
    BY <1>1, <1>2 DEF Init, IInv, CallsHold, PaidPlansPaid

\* The members of projects stay, or a project that had none gets one: no tunnel
\* loses its project by a step that keeps the rows, or adds one with Insert.
LEMMA RowsKept ==
    ASSUME TypeOK, TunnelsHaveProjects, member' = member,
           \/ UNCHANGED <<status, project>>
           \/ \E t \in Tunnels, p \in Projects : Insert(t, p)
           \/ \E t \in Tunnels : GatewayStatus(t)
           \/ \E t \in Tunnels, u \in Users : DeleteTunnel(u, t)
    PROVE  TunnelsHaveProjects'
  BY DEF TypeOK, TunnelsHaveProjects, Stored, Exists, Insert, GatewayStatus, DeleteTunnel

\* POST /tunnels: neither plans nor checkouts change.
LEMMA CallSteps ==
    ASSUME IInv, NEW k \in Calls,
           \/ CheckCount(k) \/ CallFails(k)
           \/ \E u \in Users, p \in Projects : ReadPlan(k, u, p)
           \/ \E t \in Tunnels : CreateTunnel(k, t)
    PROVE  IInv'
  <1> USE DEF IInv
  <1>1. CASE CheckCount(k) \/ CallFails(k)
    <2>1. /\ UNCHANGED <<member, plan, status, project, byGateway, sessions, checkouts, events>>
          /\ pc' \in [Calls -> {"idle", "counting", "allowed"}]
          /\ call' \in [Calls -> [user : Users \cup {None}, project : Projects \cup {None},
                                  plan : Plans]]
      BY <1>1 DEF CheckCount, CallFails, End, NoCall, TypeOK
    <2>2. TypeOK'
      BY <2>1 DEF TypeOK
    <2>3. CallsHold'
      <3> SUFFICES ASSUME NEW j \in Calls, pc'[j] # "idle"
                   PROVE  call'[j].project \in Projects
        BY DEF CallsHold
      <3>1. \/ pc' = [pc EXCEPT ![k] = "allowed"] /\ call' = call /\ pc[k] = "counting"
            \/ /\ pc' = [pc EXCEPT ![k] = "idle"]
               /\ call' = [call EXCEPT ![k] = NoCall]
        BY <1>1 DEF CheckCount, CallFails, End
      <3>2. pc[j] # "idle" /\ call'[j] = call[j]
        BY <3>1 DEF TypeOK
      <3> QED
        BY <3>2 DEF CallsHold
    <2> QED
      BY <2>1, <2>2, <2>3, RowsKept DEF PaidPlansPaid
  <1>2. ASSUME NEW u \in Users, NEW p \in Projects, ReadPlan(k, u, p)
        PROVE  IInv'
    <2>1. TypeOK'
      BY <1>2 DEF ReadPlan, Begin, TypeOK
    <2>2. CallsHold'
      BY <1>2 DEF ReadPlan, Begin, CallsHold, TypeOK
    <2> QED
      BY <1>2, <2>1, <2>2, RowsKept DEF ReadPlan, PaidPlansPaid
  <1>3. ASSUME NEW t \in Tunnels, CreateTunnel(k, t)
        PROVE  IInv'
    <2>1. PICK p \in Projects : Insert(t, p)
      BY <1>3 DEF CreateTunnel, CallsHold
    <2>2. TypeOK'
      BY <1>3, <2>1 DEF CreateTunnel, Insert, End, NoCall, TypeOK
    <2>3. CallsHold'
      BY <1>3 DEF CreateTunnel, End, CallsHold, TypeOK
    <2> QED
      BY <1>3, <2>1, <2>2, <2>3, RowsKept DEF CreateTunnel, PaidPlansPaid
  <1> QED
    BY <1>1, <1>2, <1>3

\* The other operations on tunnels: the API's and the gateway's.
LEMMA TunnelSteps ==
    ASSUME IInv, NEW t \in Tunnels,
           \/ \E u \in Users : DeleteTunnel(u, t)
           \/ \E u \in Users, p \in Projects : GatewayCreate(t, u, p)
           \/ GatewayStatus(t)
    PROVE  IInv'
  <1> USE DEF IInv
  <1>1. ASSUME NEW u \in Users, DeleteTunnel(u, t)
        PROVE  IInv'
    <2>1. TypeOK'
      BY <1>1 DEF DeleteTunnel, TypeOK
    <2> QED
      BY <1>1, <2>1, RowsKept DEF DeleteTunnel, CallsHold, PaidPlansPaid
  <1>2. ASSUME NEW u \in Users, NEW p \in Projects, GatewayCreate(t, u, p)
        PROVE  IInv'
    <2>1. TypeOK'
      BY <1>2 DEF GatewayCreate, Insert, TypeOK
    <2> QED
      BY <1>2, <2>1, RowsKept DEF GatewayCreate, CallsHold, PaidPlansPaid
  <1>3. CASE GatewayStatus(t)
    <2>1. TypeOK'
      BY <1>3 DEF GatewayStatus, TypeOK
    <2> QED
      BY <1>3, <2>1, RowsKept DEF GatewayStatus, CallsHold, PaidPlansPaid
  <1> QED
    BY <1>1, <1>2, <1>3

\* A new project takes nobody's; a deleted one takes its tunnels with it.
LEMMA ProjectSteps ==
    ASSUME IInv, NEW u \in Users, NEW p \in Projects, ProjectStep(u, p)
    PROVE  IInv'
  <1> USE DEF IInv
  <1>1. CASE CreateProject(u, p)
    <2>1. TypeOK'
      BY <1>1 DEF CreateProject, InsertProject, TypeOK
    <2>2. TunnelsHaveProjects'
      BY <1>1 DEF CreateProject, InsertProject, TunnelsHaveProjects, Stored, Exists, TypeOK
    <2> QED
      BY <1>1, <2>1, <2>2 DEF CreateProject, CallsHold, PaidPlansPaid
  <1>2. CASE DeleteProject(u, p)
    <2>1. TypeOK'
      BY <1>2 DEF DeleteProject, RemoveProject, TypeOK
    <2>2. TunnelsHaveProjects'
      BY <1>2 DEF DeleteProject, RemoveProject, TunnelsHaveProjects, Stored, Exists, TypeOK
    <2> QED
      BY <1>2, <2>1, <2>2 DEF DeleteProject, CallsHold, PaidPlansPaid
  <1> QED
    BY <1>1, <1>2 DEF ProjectStep

\* Plans change at once only to the free one, with Stripe, and otherwise to one
\* of a completed checkout.
LEMMA PlanSteps ==
    ASSUME IInv, NEW u \in Users, NEW p \in Plans, PlanStep(u, p)
    PROVE  IInv'
  <1> USE DEF IInv
  <1>1. CASE ChangePlan(u, p)
    <2>1. TypeOK'
      BY <1>1 DEF ChangePlan, SetPlan, TypeOK
    <2>2. PaidPlansPaid'
      BY <1>1, <2>1 DEF ChangePlan, SetPlan, AppliedAtOnce, PaidPlansPaid, TypeOK
    <2> QED
      BY <1>1, <2>1, <2>2, RowsKept DEF ChangePlan, CallsHold
  <1>2. CASE StartCheckout(u, p)
    <2>1. TypeOK'
      BY <1>2 DEF StartCheckout, TypeOK
    <2> QED
      BY <1>2, <2>1, RowsKept DEF StartCheckout, CallsHold, PaidPlansPaid
  <1>3. CASE CompleteCheckout(u, p)
    <2>1. TypeOK'
      BY <1>3 DEF CompleteCheckout, TypeOK
    <2> QED
      BY <1>3, <2>1, RowsKept DEF CompleteCheckout, CallsHold, PaidPlansPaid
  <1>4. CASE ApplyWebhook(u, p)
    <2>1. TypeOK'
      BY <1>4 DEF ApplyWebhook, SetPlan, TypeOK
    <2>2. PaidPlansPaid'
      BY <1>4, <2>1 DEF ApplyWebhook, SetPlan, ParseWebhook, PaidPlansPaid, TypeOK
    <2> QED
      BY <1>4, <2>1, <2>2, RowsKept DEF ApplyWebhook, CallsHold
  <1> QED
    BY <1>1, <1>2, <1>3, <1>4 DEF PlanStep

\* Every step keeps the invariant.
LEMMA NextIInv == IInv /\ [Next]_vars => IInv'
  <1> SUFFICES ASSUME IInv, [Next]_vars PROVE IInv'
    OBVIOUS
  <1>1. CASE Next
    BY <1>1, CallSteps, TunnelSteps, ProjectSteps, PlanSteps DEF Next, TunnelStep
  <1>2. CASE UNCHANGED vars
    BY <1>2 DEF vars, IInv, TypeOK, CallsHold, PaidPlansPaid, TunnelsHaveProjects, Stored, Exists
  <1> QED
    BY <1>1, <1>2
-----------------------------------------------------------------------------
\* The invariant holds in every state (internal/billing, internal/projects).
THEOREM Invariance == Spec => []IInv
  BY InitIInv, NextIInv, PTL DEF Spec

\* Every variable has its type in every state of the billing and tunnel rows.
THEOREM TypeCorrect == Spec => []TypeOK
  BY Invariance, PTL DEF IInv

\* With Stripe, a workspace has no paid plan it never paid for, however often
\* and in whatever order webhooks come (Service.ApplyWebhook, ChangePlan).
THEOREM PaidPlansArePaid == Spec => []PaidPlansPaid
  BY Invariance, PTL DEF IInv

\* No tunnel row outlives its project (Service.Create against projects'
\* Service.Delete, with the foreign key's cascade).
THEOREM NoTunnelOutlivesItsProject == Spec => []TunnelsHaveProjects
  BY Invariance, PTL DEF IInv
-----------------------------------------------------------------------------
(* How far racing creations overshoot.  A call that was allowed has a row  *)
(* it is yet to insert, and what bounds the rows is the sum of both.       *)

\* The rows of w that its own calls made and its quota counts, and the calls of
\* w that are allowed one more.
ApiRows(w) == Counted(w) \ byGateway
Waiting(w) == {k \in Calls : pc[k] = "allowed" /\ call[k].user = w}

Room(w) ==
    \E p \in PlansHad(w) :
        \/ MaxTunnels[p] < 0
        \/ Cardinality(ApiRows(w)) + Cardinality(Waiting(w))
               <= MaxTunnels[p] + Cardinality(Calls) - 1

RoomLeft == Stripe => \A w \in Users : Room(w)

\* A call under way is its user's in a project that is the user's or gone, and
\* with a plan the user had.
CallsMade ==
    \A k \in Calls : pc[k] # "idle" =>
        /\ call[k].user \in Users
        /\ call[k].project \in Projects
        /\ member[call[k].project] \in {call[k].user, "deleted"}
        /\ Stripe => call[k].plan \in PlansHad(call[k].user)

RowsPlaced == IsFiniteSet(Stored) /\ \A t \in Stored : project[t] \in Projects

QuotaInv == IInv /\ RowsPlaced /\ CallsMade /\ RoomLeft
-----------------------------------------------------------------------------
\* The sets that are counted are finite.
LEMMA CountsFinite ==
    ASSUME RowsPlaced, NEW w
    PROVE  /\ IsFiniteSet(Counted(w))
           /\ IsFiniteSet(ApiRows(w)) /\ Cardinality(ApiRows(w)) \in Nat
           /\ Cardinality(ApiRows(w)) <= Cardinality(Counted(w))
           /\ IsFiniteSet(Waiting(w)) /\ Cardinality(Waiting(w)) \in Nat
           /\ Cardinality(Waiting(w)) <= Cardinality(Calls)
           /\ Cardinality(Counted(w)) \in Nat /\ Cardinality(Calls) \in Nat \ {0}
  <1>1. IsFiniteSet(Stored) /\ IsFiniteSet(Calls) /\ Calls # {}
    BY QuotaFinite DEF RowsPlaced
  <1>2. Counted(w) \subseteq Stored /\ ApiRows(w) \subseteq Counted(w) /\ Waiting(w) \subseteq Calls
    BY DEF Counted, ApiRows, Waiting
  <1>3. IsFiniteSet(Counted(w))
    BY <1>1, <1>2, FS_Subset
  <1>4. /\ IsFiniteSet(ApiRows(w))
        /\ Cardinality(ApiRows(w)) <= Cardinality(Counted(w))
    BY <1>2, <1>3, FS_Subset
  <1>5. /\ IsFiniteSet(Waiting(w))
        /\ Cardinality(Waiting(w)) <= Cardinality(Calls)
    BY <1>1, <1>2, FS_Subset
  <1>6. /\ Cardinality(Counted(w)) \in Nat
        /\ Cardinality(ApiRows(w)) \in Nat
        /\ Cardinality(Waiting(w)) \in Nat
        /\ Cardinality(Calls) \in Nat
    BY <1>1, <1>3, <1>4, <1>5, FS_CardinalityType
  <1>7. Cardinality(Calls) # 0
    BY <1>1, FS_EmptySet
  <1> QED
    BY <1>3, <1>4, <1>5, <1>6, <1>7

\* A workspace has room for as long as it gets no row and no call is allowed
\* one: what it paid for stays paid.
LEMMA RoomStays ==
    ASSUME TypeOK, RowsPlaced, RoomLeft,
           checkouts \subseteq checkouts',
           \A w \in Users : ApiRows(w)' \subseteq ApiRows(w),
           \A w \in Users : Waiting(w)' \subseteq Waiting(w)
    PROVE  RoomLeft'
  <1> SUFFICES ASSUME Stripe, NEW w \in Users PROVE Room(w)'
    BY DEF RoomLeft
  <1>1. PICK p \in PlansHad(w) :
            \/ MaxTunnels[p] < 0
            \/ Cardinality(ApiRows(w)) + Cardinality(Waiting(w))
                   <= MaxTunnels[p] + Cardinality(Calls) - 1
    BY DEF RoomLeft, Room
  <1>2. p \in PlansHad(w)' /\ MaxTunnels[p] \in Int
    BY DEF PlansHad
  <1>3. /\ IsFiniteSet(ApiRows(w)')
        /\ Cardinality(ApiRows(w)') <= Cardinality(ApiRows(w))
        /\ IsFiniteSet(Waiting(w)')
        /\ Cardinality(Waiting(w)') <= Cardinality(Waiting(w))
    <2>1. IsFiniteSet(ApiRows(w)) /\ ApiRows(w)' \subseteq ApiRows(w)
      BY CountsFinite
    <2>2. IsFiniteSet(Waiting(w)) /\ Waiting(w)' \subseteq Waiting(w)
      BY CountsFinite
    <2> QED
      BY <2>1, <2>2, FS_Subset
  <1>4. Cardinality(ApiRows(w)') \in Nat /\ Cardinality(Waiting(w)') \in Nat
    BY <1>3, FS_CardinalityType
  <1>5. \/ MaxTunnels[p] < 0
        \/ Cardinality(ApiRows(w)') + Cardinality(Waiting(w)')
               <= MaxTunnels[p] + Cardinality(Calls) - 1
    BY <1>1, <1>2, <1>3, <1>4, CountsFinite
  <1> QED
    BY <1>2, <1>5 DEF Room

\* The rows stay placed when they lose some, or gain one of a project.
LEMMA PlacedStays ==
    ASSUME TypeOK, RowsPlaced,
           \/ Stored' \subseteq Stored /\ project' = project
           \/ \E t \in Tunnels, p \in Projects : Insert(t, p)
    PROVE  RowsPlaced'
  <1>1. CASE Stored' \subseteq Stored /\ project' = project
    <2>1. IsFiniteSet(Stored')
      BY <1>1, FS_Subset DEF RowsPlaced
    <2> QED
      BY <1>1, <2>1 DEF RowsPlaced
  <1>2. ASSUME NEW t \in Tunnels, NEW p \in Projects, Insert(t, p)
        PROVE  RowsPlaced'
    <2>1. Stored' = Stored \cup {t}
      BY <1>2 DEF Insert, Stored, TypeOK
    <2>2. IsFiniteSet(Stored')
      BY <2>1, FS_AddElement DEF RowsPlaced
    <2>3. \A s \in Stored' : project'[s] \in Projects
      BY <1>2, <2>1 DEF Insert, Stored, TypeOK, RowsPlaced
    <2> QED
      BY <2>2, <2>3 DEF RowsPlaced
  <1> QED
    BY <1>1, <1>2

\* Calls that stay where they were stay well made.
LEMMA MadeStays ==
    ASSUME TypeOK, CallsMade, checkouts \subseteq checkouts',
           pc' = pc, call' = call,
           \A p \in Projects : member'[p] = member[p] \/ member[p] = "none" \/ member'[p] = "deleted"
    PROVE  CallsMade'
  <1> SUFFICES ASSUME NEW k \in Calls, pc[k] # "idle"
               PROVE  /\ call[k].user \in Users
                      /\ call[k].project \in Projects
                      /\ member'[call[k].project] \in {call[k].user, "deleted"}
                      /\ Stripe => call[k].plan \in PlansHad(call[k].user)'
    BY DEF CallsMade
  <1>1. /\ call[k].user \in Users
        /\ call[k].project \in Projects
        /\ member[call[k].project] \in {call[k].user, "deleted"}
        /\ Stripe => call[k].plan \in PlansHad(call[k].user)
    BY DEF CallsMade
  <1>2. member[call[k].project] # "none"
    BY <1>1
  <1> QED
    BY <1>1, <1>2 DEF PlansHad

\* The invariant holds in the initial state: nothing counts, and since there is a
\* call, even a limit of zero leaves room for nothing.
LEMMA InitQuotaInv == Init => QuotaInv
  <1> SUFFICES ASSUME Init PROVE QuotaInv
    OBVIOUS
  <1>1. Stored = {}
    BY DEF Init, Stored
  <1>2. RowsPlaced
    BY <1>1, FS_EmptySet DEF RowsPlaced
  <1>3. CallsMade
    BY DEF Init, CallsMade
  <1>4. ASSUME NEW w \in Users
        PROVE  Room(w)
    <2>1. ApiRows(w) = {} /\ Waiting(w) = {}
      BY <1>1 DEF Init, ApiRows, Counted, Waiting
    <2>2. Cardinality(ApiRows(w)) = 0 /\ Cardinality(Waiting(w)) = 0
      BY <2>1, FS_EmptySet
    <2>3. Cardinality(Calls) \in Nat \ {0}
      BY <1>2, CountsFinite
    <2>4. "free" \in PlansHad(w) /\ MaxTunnels["free"] \in Int
      BY DEF PlansHad
    <2>5. MaxTunnels["free"] < 0 \/ 0 + 0 <= MaxTunnels["free"] + Cardinality(Calls) - 1
      BY <2>3, <2>4
    <2> QED
      BY <2>2, <2>4, <2>5 DEF Room
  <1> QED
    BY <1>2, <1>3, <1>4, InitIInv DEF QuotaInv, RoomLeft

\* A call that counts either ends, or joins those allowed a row: then the rows
\* it counted, and with them its own, were fewer than the limit it had read, and
\* the calls allowed one are no more than all calls.
LEMMA CheckCountQuota ==
    ASSUME QuotaInv, NEW k \in Calls, CheckCount(k)
    PROVE  RowsPlaced' /\ CallsMade' /\ RoomLeft'
  <1> USE DEF QuotaInv, IInv
  <1>1. /\ UNCHANGED <<member, plan, status, project, byGateway, sessions, checkouts, events>>
        /\ pc[k] = "counting"
    BY DEF CheckCount
  <1>2. RowsPlaced'
    BY <1>1, PlacedStays DEF Stored
  <1>3. \A w : Counted(w)' = Counted(w) /\ ApiRows(w)' = ApiRows(w) /\ PlansHad(w)' = PlansHad(w)
    BY <1>1 DEF ApiRows, Counted, Stored, PlansHad
  <1>4. CASE End(k)
    <2>1. \A w \in Users : Waiting(w)' \subseteq Waiting(w)
      BY <1>4 DEF End, Waiting, TypeOK
    <2>2. RoomLeft'
      BY <1>1, <1>3, <2>1, RoomStays
    <2>3. CallsMade'
      BY <1>1, <1>3, <1>4 DEF End, CallsMade, TypeOK
    <2> QED
      BY <1>2, <2>2, <2>3
  <1>5. CASE /\ WithinLimit(Cardinality(Counted(call[k].user)), MaxTunnels[PlanFor(call[k].plan)])
             /\ pc' = [pc EXCEPT ![k] = "allowed"] /\ call' = call
    <2>1. CallsMade'
      BY <1>1, <1>3, <1>5 DEF CallsMade, TypeOK
    <2> SUFFICES ASSUME Stripe, NEW w \in Users
                 PROVE  Room(w)'
      BY <1>2, <2>1 DEF RoomLeft
    <2>2. CASE w = call[k].user
      <3> DEFINE p == call[k].plan
      <3>1. p \in PlansHad(w)' /\ p \in Plans /\ MaxTunnels[p] \in Int
        BY <1>1, <1>3, <2>2 DEF CallsMade, TypeOK
      <3>2. MaxTunnels[p] < 0 \/ Cardinality(Counted(w)) < MaxTunnels[p]
        BY <1>5, <2>2, <3>1 DEF WithinLimit, PlanFor
      <3>3. /\ Cardinality(ApiRows(w)) \in Nat /\ Cardinality(Counted(w)) \in Nat
            /\ Cardinality(ApiRows(w)) <= Cardinality(Counted(w))
            /\ Cardinality(Calls) \in Nat
        BY CountsFinite
      <3>4. Cardinality(Waiting(w)') \in Nat /\ Cardinality(Waiting(w)') <= Cardinality(Calls)
        <4>1. Waiting(w)' \in SUBSET Calls /\ IsFiniteSet(Calls)
          BY QuotaFinite DEF Waiting
        <4>2. IsFiniteSet(Waiting(w)') /\ Cardinality(Waiting(w)') <= Cardinality(Calls)
          BY <4>1, FS_Subset
        <4> QED
          BY <4>2, FS_CardinalityType
      <3>5. \/ MaxTunnels[p] < 0
            \/ Cardinality(ApiRows(w)') + Cardinality(Waiting(w)')
                   <= MaxTunnels[p] + Cardinality(Calls) - 1
        <4> HIDE DEF p
        <4>1. ApiRows(w)' = ApiRows(w)
          BY <1>3
        <4> QED
          BY <4>1, <3>1, <3>2, <3>3, <3>4
      <3> QED
        BY <3>1, <3>5 DEF Room
    <2>3. CASE w # call[k].user
      <3>1. Waiting(w)' = Waiting(w)
        BY <1>1, <1>5, <2>3 DEF Waiting, TypeOK
      <3> QED
        BY <1>3, <3>1 DEF RoomLeft, Room
    <2> QED
      BY <2>2, <2>3
  <1> QED
    BY <1>4, <1>5 DEF CheckCount

\* A creation turns a row its call was allowed into a row of the workspace.
LEMMA CreateTunnelQuota ==
    ASSUME QuotaInv, NEW k \in Calls, NEW t \in Tunnels, CreateTunnel(k, t)
    PROVE  RowsPlaced' /\ CallsMade' /\ RoomLeft'
  <1> USE DEF QuotaInv, IInv
  <1>1. /\ UNCHANGED <<member, plan, byGateway, sessions, checkouts, events>>
        /\ pc[k] = "allowed" /\ Insert(t, call[k].project) /\ End(k)
    BY DEF CreateTunnel
  <1>2. /\ call[k].project \in Projects
        /\ call[k].user \in Users
        /\ member[call[k].project] \in {call[k].user, "deleted"}
    BY <1>1 DEF CallsMade
  <1>3. member[call[k].project] = call[k].user
    BY <1>1, <1>2 DEF Insert, Exists
  <1>4. RowsPlaced'
    BY <1>1, <1>2, PlacedStays
  <1>5. \A w : PlansHad(w)' = PlansHad(w)
    BY <1>1 DEF PlansHad
  <1>6. CallsMade'
    BY <1>1, <1>5 DEF End, CallsMade, TypeOK
  <1> SUFFICES ASSUME Stripe, NEW w \in Users
               PROVE  Room(w)'
    BY <1>4, <1>6 DEF RoomLeft
  <1>7. t \notin Stored /\ Stored' = Stored \cup {t}
    BY <1>1 DEF Insert, Stored, TypeOK
  <1>8. CASE w = call[k].user
    <2>1. ApiRows(w)' \subseteq ApiRows(w) \cup {t}
      BY <1>1, <1>7 DEF ApiRows, Counted, Insert, TypeOK
    <2>2. Waiting(w)' = Waiting(w) \ {k} /\ k \in Waiting(w)
      BY <1>1, <1>8 DEF Waiting, End, TypeOK
    <2>3. IsFiniteSet(ApiRows(w)) /\ IsFiniteSet(Waiting(w))
      BY CountsFinite
    <2>4. /\ IsFiniteSet(ApiRows(w) \cup {t})
          /\ Cardinality(ApiRows(w) \cup {t}) <= Cardinality(ApiRows(w)) + 1
      <3>1. Cardinality(ApiRows(w)) \in Nat
        BY CountsFinite
      <3>2. /\ IsFiniteSet(ApiRows(w) \cup {t})
            /\ \/ Cardinality(ApiRows(w) \cup {t}) = Cardinality(ApiRows(w))
               \/ Cardinality(ApiRows(w) \cup {t}) = Cardinality(ApiRows(w)) + 1
        BY <2>3, FS_AddElement
      <3> QED
        BY <3>1, <3>2
    <2>5. /\ IsFiniteSet(ApiRows(w)')
          /\ Cardinality(ApiRows(w)') <= Cardinality(ApiRows(w) \cup {t})
      BY <2>1, <2>4, FS_Subset
    <2>6. Cardinality(Waiting(w)') = Cardinality(Waiting(w)) - 1
      BY <2>2, <2>3, FS_RemoveElement
    <2>7. /\ Cardinality(ApiRows(w)) \in Nat /\ Cardinality(Waiting(w)) \in Nat
          /\ Cardinality(ApiRows(w)') \in Nat /\ Cardinality(ApiRows(w) \cup {t}) \in Nat
          /\ Cardinality(Calls) \in Nat
      BY <2>4, <2>5, CountsFinite, FS_CardinalityType
    <2>8. PICK p \in PlansHad(w) :
              \/ MaxTunnels[p] < 0
              \/ Cardinality(ApiRows(w)) + Cardinality(Waiting(w))
                     <= MaxTunnels[p] + Cardinality(Calls) - 1
      BY DEF RoomLeft, Room
    <2>9. MaxTunnels[p] \in Int /\ p \in PlansHad(w)'
      BY <1>5 DEF PlansHad
    <2>10. \/ MaxTunnels[p] < 0
           \/ Cardinality(ApiRows(w)') + Cardinality(Waiting(w)')
                  <= MaxTunnels[p] + Cardinality(Calls) - 1
      BY <2>4, <2>5, <2>6, <2>7, <2>8, <2>9
    <2> QED
      BY <2>9, <2>10 DEF Room
  <1>9. CASE w # call[k].user
    <2>1. ApiRows(w)' = ApiRows(w)
      <3>1. t \notin Counted(w)'
        BY <1>1, <1>2, <1>3, <1>9 DEF Counted, Insert, TypeOK
      <3>2. t \notin Counted(w)
        BY <1>7 DEF Counted
      <3>3. \A s \in Tunnels \ {t} : s \in Counted(w)' <=> s \in Counted(w)
        BY <1>1 DEF Counted, Stored, Insert, TypeOK
      <3>4. Counted(w) \subseteq Tunnels /\ Counted(w)' \subseteq Tunnels
        BY DEF Counted, Stored
      <3> QED
        BY <1>1, <3>1, <3>2, <3>3, <3>4 DEF ApiRows
    <2>2. Waiting(w)' = Waiting(w)
      BY <1>1, <1>9 DEF Waiting, End, TypeOK
    <2> QED
      BY <1>5, <2>1, <2>2 DEF RoomLeft, Room
  <1> QED
    BY <1>8, <1>9

\* A call that reads its plan, or is given up on, is not allowed a row by that.
LEMMA OtherCallQuota ==
    ASSUME QuotaInv, NEW k \in Calls,
           CallFails(k) \/ \E u \in Users, p \in Projects : ReadPlan(k, u, p)
    PROVE  RowsPlaced' /\ CallsMade' /\ RoomLeft'
  <1> USE DEF QuotaInv, IInv
  <1>1. UNCHANGED <<member, plan, status, project, byGateway, sessions, checkouts, events>>
    BY DEF CallFails, ReadPlan
  <1>2. RowsPlaced'
    BY <1>1, PlacedStays DEF Stored
  <1>3. \A w : ApiRows(w)' = ApiRows(w) /\ PlansHad(w)' = PlansHad(w)
    BY <1>1 DEF ApiRows, Counted, Stored, PlansHad
  <1>4. CASE CallFails(k)
    <2>1. \A w \in Users : Waiting(w)' \subseteq Waiting(w)
      BY <1>4 DEF CallFails, End, Waiting, TypeOK
    <2>2. CallsMade'
      BY <1>1, <1>3, <1>4 DEF CallFails, End, CallsMade, TypeOK
    <2> QED
      BY <1>1, <1>2, <1>3, <2>1, <2>2, RoomStays
  <1>5. ASSUME NEW u \in Users, NEW p \in Projects, ReadPlan(k, u, p)
        PROVE  CallsMade' /\ RoomLeft'
    <2>1. \A w \in Users : Waiting(w)' \subseteq Waiting(w)
      BY <1>5 DEF ReadPlan, Begin, Waiting, TypeOK
    <2>2. member[p] = u
      BY <1>5 DEF ReadPlan, MayOpen, ProjectRole
    <2>3. Stripe => plan[u] \in PlansHad(u)
      BY DEF PaidPlansPaid, PlansHad, TypeOK
    <2>4. CallsMade'
      BY <1>1, <1>3, <1>5, <2>2, <2>3 DEF ReadPlan, Begin, CallsMade, TypeOK
    <2> QED
      BY <1>1, <1>3, <2>1, <2>4, RoomStays
  <1> QED
    BY <1>2, <1>4, <1>5

\* The other operations on tunnels leave calls alone, and no workspace gets a
\* row by them that the API made.
LEMMA TunnelQuotaSteps ==
    ASSUME QuotaInv, NEW t \in Tunnels,
           \/ \E u \in Users : DeleteTunnel(u, t)
           \/ \E u \in Users, p \in Projects : GatewayCreate(t, u, p)
           \/ GatewayStatus(t)
    PROVE  RowsPlaced' /\ CallsMade' /\ RoomLeft'
  <1> USE DEF QuotaInv, IInv
  <1>1. UNCHANGED <<member, plan, pc, call, sessions, checkouts, events>>
    BY DEF DeleteTunnel, GatewayCreate, GatewayStatus
  <1>2. CallsMade'
    BY <1>1, MadeStays
  <1>3. \A w : Waiting(w)' = Waiting(w)
    BY <1>1 DEF Waiting
  <1>4. RowsPlaced' /\ \A w \in Users : ApiRows(w)' \subseteq ApiRows(w)
    <2>1. ASSUME NEW u \in Users, DeleteTunnel(u, t)
          PROVE  RowsPlaced' /\ \A w \in Users : ApiRows(w)' \subseteq ApiRows(w)
      <3>1. Stored' \subseteq Stored /\ project' = project
        BY <2>1 DEF DeleteTunnel, Stored, TypeOK
      <3>2. \A w \in Users : ApiRows(w)' \subseteq ApiRows(w)
        BY <2>1 DEF DeleteTunnel, ApiRows, Counted, Stored, TypeOK
      <3> QED
        BY <3>1, <3>2, PlacedStays
    <2>2. ASSUME NEW u \in Users, NEW p \in Projects, GatewayCreate(t, u, p)
          PROVE  RowsPlaced' /\ \A w \in Users : ApiRows(w)' \subseteq ApiRows(w)
      <3>1. Insert(t, p) /\ byGateway' = byGateway \cup {t} /\ member' = member
        BY <2>2 DEF GatewayCreate
      <3>2. RowsPlaced'
        BY <3>1, PlacedStays
      <3>3. ASSUME NEW w \in Users, NEW s \in ApiRows(w)'
            PROVE  s \in ApiRows(w)
        <4>1. s \in Tunnels /\ s # t
          BY <3>1 DEF ApiRows, Counted, Stored
        <4>2. status'[s] = status[s] /\ project'[s] = project[s]
          BY <3>1, <4>1 DEF Insert, TypeOK
        <4> QED
          BY <3>1, <4>1, <4>2 DEF ApiRows, Counted, Stored
      <3> QED
        BY <3>2, <3>3
    <2>3. CASE GatewayStatus(t)
      <3>1. Stored' \subseteq Stored /\ project' = project
        BY <2>3 DEF GatewayStatus, Stored, TypeOK
      <3>2. ASSUME NEW w \in Users, NEW s \in ApiRows(w)'
            PROVE  s \in ApiRows(w)
        <4>1. s \in Tunnels /\ s # t
          BY <2>3 DEF GatewayStatus, ApiRows, Counted, Stored
        <4>2. status'[s] = status[s]
          BY <2>3, <4>1 DEF GatewayStatus, TypeOK
        <4> QED
          BY <2>3, <4>1, <4>2 DEF GatewayStatus, ApiRows, Counted, Stored
      <3> QED
        BY <3>1, <3>2, PlacedStays
    <2> QED
      BY <2>1, <2>2, <2>3
  <1> QED
    BY <1>1, <1>2, <1>3, <1>4, RoomStays

\* A project that was made has no rows yet, and one that goes takes its own.
LEMMA ProjectQuotaSteps ==
    ASSUME QuotaInv, NEW u \in Users, NEW p \in Projects, ProjectStep(u, p)
    PROVE  RowsPlaced' /\ CallsMade' /\ RoomLeft'
  <1> USE DEF QuotaInv, IInv
  <1>1. /\ UNCHANGED <<plan, project, byGateway, pc, call, sessions, checkouts, events>>
        /\ \/ member[p] = "none" /\ member' = [member EXCEPT ![p] = u] /\ status' = status
           \/ /\ Exists(p) /\ member' = [member EXCEPT ![p] = "deleted"]
              /\ status' = [t \in Tunnels |->
                               IF t \in Stored /\ project[t] = p THEN "deleted" ELSE status[t]]
    BY DEF ProjectStep, CreateProject, DeleteProject, InsertProject, RemoveProject
  <1>2. CallsMade'
    BY <1>1, MadeStays DEF TypeOK
  <1>3. Stored' \subseteq Stored
    BY <1>1 DEF Stored, TypeOK
  <1>4. ASSUME NEW w \in Users, NEW t \in ApiRows(w)'
        PROVE  t \in ApiRows(w)
    <2>1. t \in Stored' /\ t \in Stored /\ t \in Tunnels
      BY <1>3 DEF ApiRows, Counted, Stored
    <2>2. project[t] \in Projects /\ member[project[t]] \in Users
      BY <2>1 DEF RowsPlaced, TunnelsHaveProjects, Exists
    <2>3. project[t] # p
      BY <1>1, <2>1, <2>2 DEF Stored, TypeOK
    <2>4. status'[t] = status[t] /\ member'[project[t]] = member[project[t]]
      BY <1>1, <2>1, <2>2, <2>3 DEF TypeOK
    <2> QED
      BY <1>1, <2>1, <2>4 DEF ApiRows, Counted
  <1>5. \A w : Waiting(w)' = Waiting(w)
    BY <1>1 DEF Waiting
  <1> QED
    BY <1>1, <1>2, <1>3, <1>4, <1>5, PlacedStays, RoomStays

\* Plans and checkouts: no row, no call, and nothing that was paid is lost.
LEMMA PlanQuotaSteps ==
    ASSUME QuotaInv, NEW u \in Users, NEW p \in Plans, PlanStep(u, p)
    PROVE  RowsPlaced' /\ CallsMade' /\ RoomLeft'
  <1> USE DEF QuotaInv, IInv
  <1>1. /\ UNCHANGED <<member, status, project, byGateway, pc, call>>
        /\ checkouts \subseteq checkouts'
    BY DEF PlanStep, ChangePlan, StartCheckout, CompleteCheckout, ApplyWebhook
  <1>2. Stored' = Stored /\ \A w : ApiRows(w)' = ApiRows(w) /\ Waiting(w)' = Waiting(w)
    BY <1>1 DEF ApiRows, Counted, Waiting, Stored
  <1> QED
    BY <1>1, <1>2, PlacedStays, MadeStays, RoomStays

\* Every step keeps the invariant.
LEMMA NextQuotaInv == QuotaInv /\ [Next]_vars => QuotaInv'
  <1> SUFFICES ASSUME QuotaInv, [Next]_vars PROVE QuotaInv'
    OBVIOUS
  <1>1. IInv'
    BY NextIInv DEF QuotaInv
  <1>2. RowsPlaced' /\ CallsMade' /\ RoomLeft'
    <2>1. CASE Next
      BY <2>1, CheckCountQuota, CreateTunnelQuota, OtherCallQuota, TunnelQuotaSteps,
         ProjectQuotaSteps, PlanQuotaSteps DEF Next, TunnelStep
    <2>2. CASE UNCHANGED vars
      <3>1. Stored' = Stored /\ \A w : ApiRows(w)' = ApiRows(w) /\ Waiting(w)' = Waiting(w)
        BY <2>2 DEF vars, ApiRows, Counted, Waiting, Stored
      <3> QED
        BY <2>2, <3>1, PlacedStays, MadeStays, RoomStays DEF vars, QuotaInv, IInv
    <2> QED
      BY <2>1, <2>2
  <1> QED
    BY <1>1, <1>2 DEF QuotaInv
-----------------------------------------------------------------------------
\* Racing creations overshoot the limit of the best plan a workspace paid for
\* by less than their number, whatever the gateway, deletions and plan changes
\* do meanwhile (Service.Create against CheckTunnelQuota).
THEOREM OvershootIsBounded == Spec => []OvershootBounded
  <1>1. ASSUME QuotaInv
        PROVE  OvershootBounded
    <2> SUFFICES ASSUME Stripe, NEW w \in Users
                 PROVE  \E p \in PlansHad(w) :
                            Within(Cardinality(ApiRows(w)) - Cardinality(Calls) + 1, MaxTunnels[p])
      BY DEF OvershootBounded, ApiRows
    <2>1. PICK p \in PlansHad(w) :
              \/ MaxTunnels[p] < 0
              \/ Cardinality(ApiRows(w)) + Cardinality(Waiting(w))
                     <= MaxTunnels[p] + Cardinality(Calls) - 1
      BY <1>1 DEF QuotaInv, RoomLeft, Room
    <2>2. /\ Cardinality(ApiRows(w)) \in Nat /\ Cardinality(Waiting(w)) \in Nat
          /\ Cardinality(Calls) \in Nat
      BY <1>1, CountsFinite DEF QuotaInv
    <2>3. MaxTunnels[p] \in Int
      BY DEF PlansHad
    <2>4. Within(Cardinality(ApiRows(w)) - Cardinality(Calls) + 1, MaxTunnels[p])
      BY <2>1, <2>2, <2>3 DEF Within
    <2> QED
      BY <2>4
  <1> QED
    BY InitQuotaInv, NextQuotaInv, <1>1, PTL DEF Spec
=============================================================================
