---------------------------- MODULE RecordsProofs ----------------------------
(***************************************************************************)
(* Theorems about what is kept of the traffic, for any number of events:   *)
(* the rows of TrafficRecords (no row names another that is gone, and what *)
(* a caller was told is what was kept), and the analytics of               *)
(* AnalyticsStore (no event counts twice and none disappears).             *)
(***************************************************************************)
EXTENDS TrafficRecords, AnalyticsStore, SequenceTheorems, FiniteSetTheorems, TLAPS
-----------------------------------------------------------------------------
(* The rows of the traffic.                                                *)

\* An exchange has a state of capture once it went through a tunnel; the tunnel
\* of a row that is inserted and not yet committed is there; and a row that can
\* be seen was committed.
CapturesHeld ==
    \A e \in Exchanges :
        /\ via[e] = None <=> capture[e] = "none"
        /\ capture[e] = "inserted" => via[e] \in tunnels
        /\ e \in requests => capture[e] = "ended"

\* The row that call k stores, if it is not a replay.
Result(k) == IF kind[k] = "incident" THEN k \in incidents ELSE k \in analyses

\* What a call is about fits its kind, and how far it is tells what it has
\* stored: nothing before the INSERT, whose answer may be lost.  A replay that was
\* served was of a request whose capture had ended: once it is deleted it does
\* not come again.
CallsHeld ==
    \A k \in Calls :
        /\ kind[k] \in ProjectKinds => about[k] = None
        /\ kind[k] \in RequestKinds => about[k] \in Exchanges /\ via[about[k]] # None
        /\ pc[k] = "sending" => kind[k] = "replay"
        /\ pc[k] \notin {"accounting", "unheard", "served"} =>
              k \notin replays \cup analyses \cup incidents
        /\ pc[k] = "accounting" => kind[k] # "replay" /\ (project => Result(k))
        /\ pc[k] = "served" /\ kind[k] = "replay" => capture[about[k]] = "ended"

IInv == NoDangling /\ ToldAsKept /\ CapturesHeld /\ CallsHeld

USE TrafficConstants
-----------------------------------------------------------------------------
\* The invariant holds in the initial state.
LEMMA InitIInv == Init => IInv
  <1> SUFFICES ASSUME Init PROVE IInv
    OBVIOUS
  <1>1. TypeOK
    BY DEF Init, TypeOK, Kinds, RequestKinds, ProjectKinds, Ended, Stub
  <1>2. NoDangling
    BY <1>1 DEF Init, NoDangling
  <1>3. ToldAsKept
    BY DEF Init, ToldAsKept
  <1>4. CapturesHeld /\ CallsHeld
    BY DEF Init, CapturesHeld, CallsHeld, Result, RequestKinds, ProjectKinds
  <1> QED
    BY <1>2, <1>3, <1>4 DEF IInv

\* An exchange goes through a tunnel, for a user or a replay, once: nothing that
\* is kept is about it.
LEMMA AnsweredStep ==
    ASSUME IInv, NEW e \in Exchanges, NEW t \in Tunnels, Answered(e, t),
           UNCHANGED <<project, tunnels, rows>>
    PROVE  /\ CapturesHeld'
           /\ via' \in [Exchanges -> Tunnels \cup {None}]
           /\ capture' \in [Exchanges -> {"none", "saving", "inserted", "ended"}]
           /\ \A f \in Exchanges : f # e => via'[f] = via[f] /\ capture'[f] = capture[f]
           /\ via[e] = None /\ via'[e] # None /\ capture[e] = "none" /\ e \notin requests
  BY DEF IInv, NoDangling, TypeOK, CapturesHeld, Answered, rows

LEMMA ExchangeStep ==
    ASSUME IInv, NEW e \in Exchanges, NEW t \in Tunnels, Exchange(e, t)
    PROVE  IInv'
  <1> USE DEF IInv
  <1>1. /\ Answered(e, t) /\ UNCHANGED <<project, tunnels, rows, calls>>
        /\ UNCHANGED <<requests, responses, replays, analyses, named, incidents, usage>>
        /\ UNCHANGED <<kind, about, pc, provider>>
    BY DEF Exchange, rows, calls
  <1>2. NoDangling'
    <2>1. TypeOK'
      BY <1>1, AnsweredStep DEF NoDangling, TypeOK
    <2> QED
      BY <1>1, <2>1, AnsweredStep DEF NoDangling, TypeOK
  <1>3. ToldAsKept'
    BY <1>1 DEF ToldAsKept
  <1>4. CallsHeld'
    BY <1>1, AnsweredStep DEF CallsHeld, Result, RequestKinds
  <1> QED
    BY <1>1, <1>2, <1>3, <1>4, AnsweredStep

\* A capture is inserted while its tunnel is there, and seen with its response.
LEMMA CaptureSteps ==
    ASSUME IInv, NEW e \in Exchanges, CaptureStep(e)
    PROVE  IInv'
  <1> USE DEF IInv
  <1>1. CASE InsertRequest(e) \/ CaptureFails(e)
    <2>1. /\ UNCHANGED <<project, tunnels, via>>
          /\ UNCHANGED <<requests, responses, replays, analyses, named, incidents, usage>>
          /\ UNCHANGED <<kind, about, pc, provider>>
          /\ capture[e] \in {"saving", "inserted"}
          /\ \/ capture' = [capture EXCEPT ![e] = "inserted"] /\ via[e] \in tunnels
             \/ capture' = [capture EXCEPT ![e] = "ended"]
      BY <1>1 DEF InsertRequest, CaptureFails, rows, calls
    <2>2. NoDangling'
      <3>1. TypeOK'
        BY <2>1 DEF NoDangling, TypeOK
      <3> QED
        BY <2>1, <3>1 DEF NoDangling
    <2>3. ToldAsKept'
      BY <2>1 DEF ToldAsKept
    <2>4. CapturesHeld'
      BY <2>1 DEF NoDangling, TypeOK, CapturesHeld
    <2>5. CallsHeld'
      BY <2>1 DEF NoDangling, TypeOK, CallsHeld, Result, RequestKinds
    <2> QED
      BY <2>2, <2>3, <2>4, <2>5
  <1>2. CASE CommitCapture(e)
    <2>1. /\ UNCHANGED <<project, tunnels, via, replays, analyses, named, incidents, usage>>
          /\ UNCHANGED <<kind, about, pc, provider>>
          /\ capture[e] = "inserted" /\ capture' = [capture EXCEPT ![e] = "ended"]
          /\ requests' = requests \cup {e} /\ responses' = responses \cup {e}
      BY <1>2 DEF CommitCapture, calls
    <2>2. NoDangling'
      <3>1. TypeOK'
        BY <2>1 DEF NoDangling, TypeOK
      <3> QED
        BY <2>1, <3>1 DEF NoDangling, CapturesHeld
    <2>3. ToldAsKept'
      BY <2>1 DEF ToldAsKept, CallsHeld, NoDangling, TypeOK
    <2>4. CapturesHeld'
      BY <2>1 DEF NoDangling, TypeOK, CapturesHeld
    <2>5. CallsHeld'
      BY <2>1 DEF NoDangling, TypeOK, CallsHeld, Result, RequestKinds
    <2> QED
      BY <2>2, <2>3, <2>4, <2>5
  <1> QED
    BY <1>1, <1>2 DEF CaptureStep

\* What is deleted takes with it all that refers to it; a call that was served
\* then has nothing left to be told of.
LEMMA DeletionSteps ==
    ASSUME IInv, DeleteProject \/ \E t \in Tunnels : DeleteTunnel(t)
    PROVE  IInv'
  <1> USE DEF IInv
  <1>1. ASSUME NEW t \in Tunnels, DeleteTunnel(t)
        PROVE  IInv'
    <2> DEFINE E == {e \in requests : via[e] = t}
    <2>1. /\ UNCHANGED <<project, via, capture, analyses, incidents, usage>>
          /\ UNCHANGED <<kind, about, pc, provider>>
          /\ tunnels' = tunnels \ {t} /\ ~Saving(t)
          /\ Remove(E)
      BY <1>1 DEF DeleteTunnel, calls
    <2>2. NoDangling'
      <3>1. TypeOK'
        BY <2>1 DEF NoDangling, TypeOK, Remove
      <3>2. requests' = responses' /\ (tunnels' # {} => project')
        BY <2>1 DEF NoDangling, Remove
      <3>3. \A e \in requests' : via'[e] \in tunnels'
        BY <2>1 DEF NoDangling, Remove
      <3>4. \A k \in replays' : about'[k] \in requests'
        BY <2>1 DEF NoDangling, Remove
      <3>5. \A k \in analyses' : named'[k] \in requests' \cup {None}
        BY <2>1 DEF NoDangling, TypeOK, Remove
      <3>6. analyses' \cup incidents' \cup usage' # {} => project'
        BY <2>1 DEF NoDangling
      <3> QED
        BY <3>1, <3>2, <3>3, <3>4, <3>5, <3>6 DEF NoDangling
    <2>3. ToldAsKept'
      BY <2>1 DEF ToldAsKept, Remove
    <2>4. CapturesHeld'
      BY <2>1 DEF CapturesHeld, Remove, Saving
    <2>5. CallsHeld'
      BY <2>1 DEF CallsHeld, Result, Remove
    <2> QED
      BY <2>2, <2>3, <2>4, <2>5
  <1>2. CASE DeleteProject
    <2>1. /\ UNCHANGED <<via, capture>>
          /\ UNCHANGED <<kind, about, pc, provider>>
          /\ \A t \in tunnels : ~Saving(t)
          /\ project' = FALSE /\ tunnels' = {}
          /\ requests' = {} /\ responses' = responses \ requests
          /\ replays' = {k \in replays : about[k] \notin requests}
          /\ named' = [k \in Calls |-> IF named[k] \in requests THEN None ELSE named[k]]
          /\ analyses' = {} /\ incidents' = {} /\ usage' = {}
      BY <1>2 DEF DeleteProject, calls, Remove
    <2>2. NoDangling'
      <3>1. TypeOK'
        BY <2>1 DEF NoDangling, TypeOK
      <3> QED
        BY <2>1, <3>1 DEF NoDangling
    <2>3. ToldAsKept'
      BY <2>1 DEF ToldAsKept
    <2>4. CapturesHeld'
      BY <2>1 DEF CapturesHeld, Saving
    <2>5. CallsHeld'
      BY <2>1 DEF CallsHeld
    <2> QED
      BY <2>2, <2>3, <2>4, <2>5
  <1> QED
    BY <1>1, <1>2

\* A call begins: nothing is stored for it yet.
LEMMA BeginStep ==
    ASSUME IInv, NEW k \in Calls, CallBegins(k)
    PROVE  IInv'
  <1> USE DEF IInv
  <1>1. PICK q \in Kinds, e \in Exchanges \cup {None} :
            /\ Begin(k, q, e)
            /\ q \in ProjectKinds => e = None
            /\ q \in RequestKinds => e \in Exchanges /\ via[e] # None
    BY DEF CallBegins, BeginReplay, BeginAnalysis, BeginOfProject, Kinds, RequestKinds, ProjectKinds
  <1>2. /\ UNCHANGED <<project, tunnels, via, capture, provider>>
        /\ UNCHANGED <<requests, responses, replays, analyses, named, incidents, usage>>
        /\ pc[k] = "idle" /\ pc' = [pc EXCEPT ![k] = "reading"]
        /\ kind' = [kind EXCEPT ![k] = q] /\ about' = [about EXCEPT ![k] = e]
    BY <1>1 DEF Begin, Goto, rows
  <1>3. k \notin replays \cup analyses \cup incidents
    BY <1>2 DEF CallsHeld
  <1>4. NoDangling'
    <2>1. TypeOK'
      BY <1>1, <1>2 DEF NoDangling, TypeOK, Ended
    <2> QED
      BY <1>2, <1>3, <2>1 DEF NoDangling, TypeOK
  <1>5. ToldAsKept'
    BY <1>2 DEF ToldAsKept, NoDangling, TypeOK
  <1>6. CapturesHeld'
    BY <1>2 DEF CapturesHeld
  <1>7. CallsHeld'
    <2> SUFFICES ASSUME NEW j \in Calls
                 PROVE  CallsHeld!(j)'
      BY DEF CallsHeld
    <2>1. CASE j = k
      BY <1>1, <1>2, <1>3, <2>1 DEF NoDangling, TypeOK
    <2>2. CASE j # k
      BY <1>2, <2>2 DEF CallsHeld, NoDangling, TypeOK, Result
    <2> QED
      BY <2>1, <2>2
  <1> QED
    BY <1>4, <1>5, <1>6, <1>7

\* A call goes on, or ends without having stored anything.
LEMMA MoveStep ==
    ASSUME IInv, NEW k \in Calls,
           NEW at \in Ended \cup {"collecting", "sending", "asking", "storing"},
           pc[k] \notin {"accounting", "unheard", "served"}, at # "served",
           at = "sending" => kind[k] = "replay",
           UNCHANGED <<project, tunnels, via, capture, rows, kind, about>>,
           provider' \in [Calls -> 1..Stub],
           Goto(k, at)
    PROVE  IInv'
  <1> USE DEF IInv
  <1>1. /\ UNCHANGED <<requests, responses, replays, analyses, named, incidents, usage>>
        /\ pc' = [pc EXCEPT ![k] = at]
    BY DEF rows, Goto
  <1>2. NoDangling'
    <2>1. TypeOK'
      BY <1>1 DEF NoDangling, TypeOK, Ended
    <2> QED
      BY <1>1, <2>1 DEF NoDangling
  <1>3. ToldAsKept'
    BY <1>1 DEF ToldAsKept, CallsHeld, NoDangling, TypeOK
  <1>4. CapturesHeld'
    BY <1>1 DEF CapturesHeld
  <1>5. CallsHeld'
    BY <1>1 DEF CallsHeld, Result, NoDangling, TypeOK, Ended
  <1> QED
    BY <1>2, <1>3, <1>4, <1>5

\* The steps of a call that only move it.
LEMMA MoveSteps ==
    ASSUME IInv, NEW k \in Calls,
           \/ ReadOriginal(k) \/ ReadContext(k) \/ EnsureMember(k) \/ CollectFailures(k)
           \/ Refuse(k) \/ GatewayAnswers(k) \/ SendFails(k)
           \/ Completes(k) \/ ProviderFails(k) \/ StoreFails(k)
    PROVE  IInv'
  <1> USE DEF IInv
  <1>1. provider \in [Calls -> 1..Stub] /\ provider[k] \in 1..Stub /\ Stub \in Nat
    BY DEF NoDangling, TypeOK, Stub
  <1>2. CASE ReadOriginal(k)
    BY <1>1, <1>2, MoveStep DEF ReadOriginal, Reads
  <1>3. CASE ReadContext(k)
    BY <1>1, <1>3, MoveStep DEF ReadContext, Reads
  <1>4. CASE EnsureMember(k)
    BY <1>1, <1>4, MoveStep DEF EnsureMember, Reads
  <1>5. CASE CollectFailures(k)
    BY <1>1, <1>5, MoveStep DEF CollectFailures, Reads
  <1>6. CASE Refuse(k)
    BY <1>1, <1>6, MoveStep DEF Refuse, Reads, Ended
  <1>7. CASE GatewayAnswers(k)
    BY <1>1, <1>7, MoveStep DEF GatewayAnswers
  <1>8. CASE SendFails(k)
    BY <1>1, <1>8, MoveStep DEF SendFails, Ended
  <1>9. CASE Completes(k)
    <2>1. provider' \in [Calls -> 1..Stub]
      BY <1>1, <1>9 DEF Completes, Stub
    <2>2. Goto(k, "storing") \/ Goto(k, "failed")
      BY <1>9 DEF Completes
    <2> QED
      BY <1>9, <2>1, <2>2, MoveStep DEF Completes, Ended
  <1>10. CASE ProviderFails(k)
    <2>1. provider' \in [Calls -> 1..Stub]
      BY <1>1, <1>10 DEF ProviderFails
    <2>2. Goto(k, "asking") /\ pc[k] = "asking"
      BY <1>10 DEF ProviderFails, Goto, NoDangling, TypeOK
    <2> QED
      BY <1>10, <2>1, <2>2, MoveStep DEF ProviderFails
  <1>11. CASE StoreFails(k)
    BY <1>1, <1>11, MoveStep DEF StoreFails, Ended
  <1> QED
    BY <1>2, <1>3, <1>4, <1>5, <1>6, <1>7, <1>8, <1>9, <1>10, <1>11

\* A replay goes out, and the exchange it makes is captured like any other.
LEMMA SendStep ==
    ASSUME IInv, NEW k \in Calls, NEW e \in Exchanges, SendReplay(k, e)
    PROVE  IInv'
  <1> USE DEF IInv
  <1>1. /\ pc[k] = "sending" /\ pc' = [pc EXCEPT ![k] = "storing"]
        /\ Answered(e, via[about[k]])
        /\ UNCHANGED <<project, tunnels, rows, kind, about, provider>>
        /\ UNCHANGED <<requests, responses, replays, analyses, named, incidents, usage>>
    BY DEF SendReplay, Goto, rows
  <1>2. via[about[k]] \in Tunnels
    BY <1>1 DEF CallsHeld, RequestKinds, NoDangling, TypeOK
  <1>3. /\ CapturesHeld'
        /\ via' \in [Exchanges -> Tunnels \cup {None}]
        /\ capture' \in [Exchanges -> {"none", "saving", "inserted", "ended"}]
        /\ \A f \in Exchanges : f # e => via'[f] = via[f] /\ capture'[f] = capture[f]
        /\ via[e] = None /\ via'[e] # None /\ capture[e] = "none" /\ e \notin requests
    BY <1>1, <1>2, AnsweredStep
  <1>4. NoDangling'
    <2>1. TypeOK'
      BY <1>1, <1>3 DEF NoDangling, TypeOK, Ended
    <2> QED
      BY <1>1, <1>3, <2>1 DEF NoDangling, TypeOK
  <1>5. ToldAsKept'
    BY <1>1 DEF ToldAsKept, NoDangling, TypeOK
  <1>6. CallsHeld'
    BY <1>1, <1>3 DEF CallsHeld, Result, RequestKinds, NoDangling, TypeOK
  <1> QED
    BY <1>3, <1>4, <1>5, <1>6

\* A result is stored while what it refers to is there, and nothing is accounted
\* for it yet, nor ever if the call does not hear of the row.
LEMMA StoreStep ==
    ASSUME IInv, NEW k \in Calls, Store(k) \/ StoreUnheard(k)
    PROVE  IInv'
  <1> USE DEF IInv
  <1>1. /\ UNCHANGED <<project, tunnels, via, capture, requests, responses, usage>>
        /\ UNCHANGED <<kind, about, provider>>
        /\ pc[k] = "storing" /\ project
        /\ kind[k] \in RequestKinds => about[k] \in requests
        /\ SaveReplay(k) \/ SaveAnalysis(k) \/ SaveIncident(k)
    BY DEF Store, StoreUnheard, Insert, Storable
  <1>2. /\ \E at \in {"unheard", IF kind[k] = "replay" THEN "served" ELSE "accounting"} :
              pc' = [pc EXCEPT ![k] = at]
        /\ k \notin usage
    BY <1>1 DEF Store, StoreUnheard, Goto, ToldAsKept, CallsHeld
  <1>3. CapturesHeld'
    BY <1>1 DEF CapturesHeld
  <1>4. CASE SaveReplay(k)
    <2>1. /\ kind[k] = "replay" /\ about[k] \in requests
          /\ replays' = replays \cup {k}
          /\ \E at \in {"unheard", "served"} : pc' = [pc EXCEPT ![k] = at]
          /\ UNCHANGED <<analyses, named, incidents>>
      BY <1>2, <1>1, <1>4 DEF SaveReplay, RequestKinds
    <2>2. NoDangling'
      <3>1. TypeOK'
        BY <1>1, <2>1 DEF NoDangling, TypeOK, Ended
      <3> QED
        BY <1>1, <2>1, <3>1 DEF NoDangling
    <2>3. ToldAsKept'
      BY <1>2, <1>1, <2>1 DEF ToldAsKept, NoDangling, TypeOK
    <2>4. CallsHeld'
      BY <1>1, <2>1 DEF CallsHeld, CapturesHeld, Result, NoDangling, TypeOK
    <2> QED
      BY <1>3, <2>2, <2>3, <2>4
  <1>5. CASE SaveAnalysis(k)
    <2>1. /\ kind[k] \in {"analysis", "logs"}
          /\ about[k] \in requests \cup {None}
          /\ analyses' = analyses \cup {k}
          /\ \E at \in {"unheard", "accounting"} : pc' = [pc EXCEPT ![k] = at]
          /\ named' = [named EXCEPT ![k] = about[k]]
          /\ UNCHANGED <<replays, incidents>>
      BY <1>2, <1>1, <1>5 DEF SaveAnalysis, RequestKinds, ProjectKinds, CallsHeld
    <2>2. NoDangling'
      <3>1. TypeOK'
        BY <1>1, <2>1 DEF NoDangling, TypeOK, Ended
      <3> QED
        BY <1>1, <2>1, <3>1 DEF NoDangling, TypeOK
    <2>3. ToldAsKept'
      BY <1>2, <1>1, <2>1 DEF ToldAsKept, NoDangling, TypeOK
    <2>4. CallsHeld'
      BY <1>1, <2>1 DEF CallsHeld, Result, NoDangling, TypeOK
    <2> QED
      BY <1>3, <2>2, <2>3, <2>4
  <1>6. CASE SaveIncident(k)
    <2>1. /\ kind[k] = "incident"
          /\ incidents' = incidents \cup {k}
          /\ \E at \in {"unheard", "accounting"} : pc' = [pc EXCEPT ![k] = at]
          /\ UNCHANGED <<replays, analyses, named>>
      BY <1>2, <1>1, <1>6 DEF SaveIncident
    <2>2. NoDangling'
      <3>1. TypeOK'
        BY <1>1, <2>1 DEF NoDangling, TypeOK, Ended
      <3> QED
        BY <1>1, <2>1, <3>1 DEF NoDangling
    <2>3. ToldAsKept'
      BY <1>2, <1>1, <2>1 DEF ToldAsKept, NoDangling, TypeOK
    <2>4. CallsHeld'
      BY <1>1, <2>1 DEF CallsHeld, Result, NoDangling, TypeOK
    <2> QED
      BY <1>3, <2>2, <2>3, <2>4
  <1> QED
    BY <1>1, <1>4, <1>5, <1>6

\* What was stored is accounted for, or not; the call is served either way.
LEMMA UsageSteps ==
    ASSUME IInv, NEW k \in Calls, RecordUsage(k) \/ UsageFails(k)
    PROVE  IInv'
  <1> USE DEF IInv
  <1>1. /\ UNCHANGED <<project, tunnels, via, capture, requests, responses, replays, analyses>>
        /\ UNCHANGED <<named, incidents, kind, about, provider>>
        /\ pc[k] = "accounting" /\ pc' = [pc EXCEPT ![k] = "served"]
        /\ usage' = usage \/ (project /\ usage' = usage \cup {k})
    BY DEF RecordUsage, UsageFails, Goto, rows
  <1>2. kind[k] # "replay" /\ (project => Result(k))
    BY <1>1 DEF CallsHeld
  <1>3. NoDangling'
    <2>1. TypeOK'
      BY <1>1 DEF NoDangling, TypeOK, Ended
    <2> QED
      BY <1>1, <2>1 DEF NoDangling
  <1>4. ToldAsKept'
    <2>1. usage' \subseteq analyses' \cup incidents'
      BY <1>1, <1>2 DEF ToldAsKept, Result
    <2>2. kind[k] = "incident" => (project => k \in incidents)
      BY <1>2 DEF Result
    <2>3. kind[k] # "incident" => (project => k \in analyses)
      BY <1>2 DEF Result
    <2> QED
      BY <1>1, <1>2, <2>1, <2>2, <2>3 DEF ToldAsKept, NoDangling, TypeOK
  <1>5. CapturesHeld'
    BY <1>1 DEF CapturesHeld
  <1>6. CallsHeld'
    BY <1>1, <1>2 DEF CallsHeld, Result, NoDangling, TypeOK
  <1> QED
    BY <1>3, <1>4, <1>5, <1>6

\* Every step keeps the invariant.
LEMMA NextIInv == IInv /\ [Next]_vars => IInv'
  <1> SUFFICES ASSUME IInv, [Next]_vars PROVE IInv'
    OBVIOUS
  <1>1. CASE Next
    <2>1. ASSUME NEW k \in Calls, CallStep(k)
          PROVE  IInv'
      BY <2>1, MoveSteps, SendStep, StoreStep, UsageSteps DEF CallStep
    <2> QED
      BY <1>1, <2>1, CaptureSteps, ExchangeStep, BeginStep, DeletionSteps DEF Next
  <1>2. CASE UNCHANGED vars
    <2>1. /\ UNCHANGED <<project, tunnels, via, capture, kind, about, pc, provider>>
          /\ UNCHANGED <<requests, responses, replays, analyses, named, incidents, usage>>
      BY <1>2 DEF vars, rows, calls
    <2> QED
      BY <2>1 DEF IInv, NoDangling, TypeOK, ToldAsKept, CapturesHeld, CallsHeld, Result
  <1> QED
    BY <1>1, <1>2
-----------------------------------------------------------------------------
\* The invariant holds in every state of the rows (gateway/capture.go, requests,
\* replays and ai, with the foreign keys of their migrations).
THEOREM Invariance == Spec => []IInv
  BY InitIInv, NextIInv, PTL DEF Spec

\* No row names another that is gone, however deletions of tunnels and of the
\* project fall between the steps of captures, replays and analyses.
THEOREM RowsReferToRows == Spec => []NoDangling
  BY Invariance, PTL DEF IInv

\* What a served call stored is there until what it is about is deleted; an error
\* leaves a row behind only when the answer to its INSERT was lost; and usage
\* counts only what was stored and heard of.
THEOREM CallersToldTheTruth == Spec => []ToldAsKept
  BY Invariance, PTL DEF IInv
-----------------------------------------------------------------------------
(* The analytics of the traffic: the channel, the batches and the table.   *)

Once(s) == \A i, j \in DOMAIN s : s[i] = s[j] => i = j

InQueue == Range(queue)
InBuf == Range(buf)
InBatch == Range(batch)

\* An event is in one place, and in the channel once; a loop that is not in a
\* flush has no batch, which the next flush would lose.
Apart ==
    /\ Once(queue)
    /\ InQueue \cap InBuf = {} /\ InQueue \cap InBatch = {} /\ InBuf \cap InBatch = {}
    /\ loop \in {"select", "ended"} => batch = <<>>

\* What is anywhere was recorded, so that what is recorded next is nowhere yet.
Known ==
    /\ InHand \cup dropped \cup failed \subseteq recorded
    /\ \A e \in Events : table[e] > 0 => e \in recorded

PipelineInv == Accounted /\ Apart /\ Known
-----------------------------------------------------------------------------
\* What an event added to a sequence, or taken from its head, does to the set of
\* its elements.
LEMMA RangeAppend ==
    ASSUME NEW S, NEW s \in Seq(S), NEW e \in S
    PROVE  /\ Append(s, e) \in Seq(S) /\ Len(Append(s, e)) = Len(s) + 1
           /\ Range(Append(s, e)) = Range(s) \cup {e}
           /\ Once(s) /\ e \notin Range(s) => Once(Append(s, e))
  <1> DEFINE a == Append(s, e)
  <1>1. /\ a \in Seq(S) /\ Len(a) = Len(s) + 1 /\ Len(s) \in Nat
        /\ DOMAIN s = 1..Len(s) /\ DOMAIN a = 1..(Len(s) + 1)
        /\ \A k \in 1..Len(s) : a[k] = s[k]
        /\ a[Len(s) + 1] = e
    BY AppendProperties
  <1> HIDE DEF a
  <1>2. DOMAIN a = DOMAIN s \cup {Len(s) + 1} /\ Len(s) + 1 \notin DOMAIN s
    BY <1>1
  <1>3. Range(a) = Range(s) \cup {e}
    BY <1>1, <1>2 DEF Range
  <1>4. Once(s) /\ e \notin Range(s) => Once(a)
    BY <1>1, <1>2 DEF Range, Once
  <1> QED
    BY <1>1, <1>3, <1>4 DEF a

LEMMA RangeTail ==
    ASSUME NEW S, NEW s \in Seq(S), s # <<>>
    PROVE  /\ Tail(s) \in Seq(S) /\ Len(Tail(s)) = Len(s) - 1 /\ Len(s) \in Nat /\ Head(s) \in S
           /\ Range(s) = Range(Tail(s)) \cup {Head(s)}
           /\ Once(s) => Once(Tail(s)) /\ Head(s) \notin Range(Tail(s))
  <1> DEFINE t == Tail(s)
             h == Head(s)
  <1>1. /\ t \in Seq(S) /\ Len(t) = Len(s) - 1 /\ Len(s) \in Nat /\ h \in S /\ h = s[1]
        /\ DOMAIN s = 1..Len(s) /\ DOMAIN t = 1..(Len(s) - 1) /\ Len(s) # 0
        /\ \A k \in DOMAIN t : t[k] = s[k + 1]
    BY HeadTailProperties
  <1> HIDE DEF t, h
  <1>2. /\ 1 \in DOMAIN s
        /\ \A k \in DOMAIN t : k + 1 \in DOMAIN s /\ k + 1 # 1
        /\ \A k \in DOMAIN s : k # 1 => k - 1 \in DOMAIN t /\ (k - 1) + 1 = k
    BY <1>1
  <1>3. Range(s) = Range(t) \cup {h}
    <2>1. ASSUME NEW k \in DOMAIN s PROVE s[k] \in Range(t) \cup {h}
      <3>1. CASE k = 1
        BY <1>1, <3>1
      <3>2. CASE k # 1
        <4>1. k - 1 \in DOMAIN t /\ t[k - 1] = s[k]
          BY <1>1, <1>2, <3>2
        <4> QED
          BY <4>1 DEF Range
      <3> QED
        BY <3>1, <3>2
    <2>2. \A k \in DOMAIN t : t[k] \in Range(s)
      BY <1>1, <1>2 DEF Range
    <2>3. h \in Range(s)
      BY <1>1, <1>2 DEF Range
    <2> QED
      BY <2>1, <2>2, <2>3 DEF Range
  <1>4. ASSUME Once(s) PROVE Once(t) /\ h \notin Range(t)
    <2>1. \A i, j \in DOMAIN t : t[i] = t[j] => i = j
      <3> SUFFICES ASSUME NEW i \in DOMAIN t, NEW j \in DOMAIN t, t[i] = t[j]
                   PROVE  i = j
        OBVIOUS
      <3>1. i + 1 = j + 1
        BY <1>1, <1>2, <1>4 DEF Once
      <3> QED
        BY <1>1, <3>1
    <2>2. \A i \in DOMAIN t : t[i] # h
      BY <1>1, <1>2, <1>4 DEF Once
    <2> QED
      BY <2>1, <2>2 DEF Once, Range
  <1> QED
    BY <1>1, <1>3, <1>4 DEF t, h

LEMMA RangeEmpty == Range(<<>>) = {} /\ Once(<<>>)
  BY DEF Range, Once

\* The pipeline's invariant holds in the initial state.
LEMMA InitPipeline == AnalyticsInit => PipelineInv
  <1> SUFFICES ASSUME AnalyticsInit PROVE PipelineInv
    OBVIOUS
  <1> USE DEF AnalyticsInit
  <1>1. Capacity \in Nat \ {0} /\ BatchSize \in Nat \ {0}
    BY AnalyticsConstants
  <1>2. Len(<<>>) = 0 /\ <<>> \in Seq(Events)
    OBVIOUS
  <1>3. InHand = {}
    BY RangeEmpty DEF InHand
  <1>4. AnalyticsTypeOK
    <2>1. Len(Queries) = 2
      BY DEF Queries
    <2>2. table \in [Events -> Nat]
      OBVIOUS
    <2>3. /\ queue \in Seq(Events) /\ Len(queue) <= Capacity
          /\ buf \in Seq(Events) /\ Len(buf) < BatchSize
          /\ batch \in Seq(Events) /\ Len(batch) <= BatchSize
      BY <1>1, <1>2
    <2>4. loop \in {"select", "preparing", "sending", "ended"} /\ conn \in {"disabled", "open", "closed"}
      OBVIOUS
    <2>5. Len(answers) <= Len(Queries)
      BY <1>2, <2>1
    <2> HIDE DEF AnalyticsInit
    <2>6. /\ done \in BOOLEAN /\ final \in BOOLEAN
          /\ recorded \subseteq Events /\ dropped \subseteq Events /\ failed \subseteq Events
      BY DEF AnalyticsInit
    <2> QED
      BY <2>2, <2>3, <2>4, <2>5, <2>6 DEF AnalyticsTypeOK
  <1>5. Accounted
    BY <1>3, <1>4 DEF Accounted
  <1>6. Apart /\ Known
    BY <1>3, RangeEmpty DEF Apart, Known, InQueue, InBuf, InBatch
  <1> QED
    BY <1>5, <1>6 DEF PipelineInv

\* What the parts of the invariant say of the events in the three places.
LEMMA PipelineFacts ==
    ASSUME PipelineInv
    PROVE  /\ AnalyticsTypeOK
           /\ \A e \in Events : table[e] <= 1
           /\ \A e \in InQueue \cup InBuf \cup InBatch :
                 table[e] = 0 /\ e \notin failed \cup dropped
           /\ \A e \in recorded :
                 e \in InQueue \cup InBuf \cup InBatch \cup dropped \cup failed \/ table[e] > 0
           /\ InQueue \cup InBuf \cup InBatch \cup dropped \cup failed \subseteq recorded
           /\ \A e \in Events : table[e] > 0 => e \in recorded
           /\ Once(queue)
           /\ InQueue \cap InBuf = {} /\ InQueue \cap InBatch = {} /\ InBuf \cap InBatch = {}
           /\ loop \in {"select", "ended"} => batch = <<>>
  BY DEF PipelineInv, Apart, Known, Accounted, InHand, InQueue, InBuf, InBatch

\* The same read the other way, in the next state.
LEMMA PipelineFrom ==
    ASSUME /\ AnalyticsTypeOK'
           /\ \A e \in Events : table'[e] <= 1
           /\ \A e \in InQueue' \cup InBuf' \cup InBatch' :
                 table'[e] = 0 /\ e \notin failed' \cup dropped'
           /\ \A e \in recorded' :
                 e \in InQueue' \cup InBuf' \cup InBatch' \cup dropped' \cup failed' \/ table'[e] > 0
           /\ InQueue' \cup InBuf' \cup InBatch' \cup dropped' \cup failed' \subseteq recorded'
           /\ \A e \in Events : table'[e] > 0 => e \in recorded'
           /\ Once(queue)'
           /\ InQueue' \cap InBuf' = {} /\ InQueue' \cap InBatch' = {} /\ InBuf' \cap InBatch' = {}
           /\ loop' \in {"select", "ended"} => batch' = <<>>
    PROVE  PipelineInv'
  BY DEF PipelineInv, Apart, Known, Accounted, InHand, InQueue, InBuf, InBatch

\* Record puts an event that is nowhere yet into the channel, or lets it fall.
LEMMA RecordStep ==
    ASSUME PipelineInv, NEW e \in Events, Record(e)
    PROVE  PipelineInv'
  <1>1. /\ UNCHANGED <<conn, done, buf, batch, failed, loop, final, table, answers>>
        /\ e \notin recorded /\ recorded' = recorded \cup {e}
        /\ \/ queue' = Append(queue, e) /\ dropped' = dropped /\ Len(queue) < Capacity
           \/ queue' = queue /\ dropped' = dropped \cup {e}
    BY DEF Record, Room
  <1>2. /\ e \notin InQueue \cup InBuf \cup InBatch \cup dropped \cup failed
        /\ table[e] = 0
    BY <1>1, PipelineFacts DEF AnalyticsTypeOK
  <1>3. InBuf' = InBuf /\ InBatch' = InBatch
    BY <1>1 DEF InBuf, InBatch
  <1>4. CASE queue' = Append(queue, e) /\ dropped' = dropped /\ Len(queue) < Capacity
    <2>1. queue \in Seq(Events) /\ Capacity \in Nat
      BY AnalyticsConstants, PipelineFacts DEF AnalyticsTypeOK
    <2>2. /\ queue' \in Seq(Events) /\ Len(queue') = Len(queue) + 1
          /\ InQueue' = InQueue \cup {e} /\ Once(queue)'
      <3>1. Once(queue) /\ e \notin Range(queue)
        BY <1>2, PipelineFacts DEF InQueue
      <3> QED
        BY <1>4, <2>1, <3>1, RangeAppend DEF InQueue, Once
    <2>3. AnalyticsTypeOK'
      BY <1>1, <1>4, <2>1, <2>2, PipelineFacts DEF AnalyticsTypeOK
    <2> QED
      BY <1>1, <1>2, <1>3, <1>4, <2>2, <2>3, PipelineFacts, PipelineFrom
  <1>5. CASE queue' = queue /\ dropped' = dropped \cup {e}
    <2>1. InQueue' = InQueue /\ Once(queue)'
      BY <1>5, PipelineFacts DEF InQueue, Once
    <2>2. AnalyticsTypeOK'
      BY <1>1, <1>5, PipelineFacts DEF AnalyticsTypeOK
    <2> QED
      BY <1>1, <1>2, <1>3, <1>5, <2>1, <2>2, PipelineFacts, PipelineFrom
  <1> QED
    BY <1>1, <1>4, <1>5

\* A flush takes all that was gathered, and nothing is lost between the two.
LEMMA FlushStep ==
    ASSUME PipelineInv,
           \/ Tick \/ SeeDone
    PROVE  PipelineInv'
  <1>1. /\ UNCHANGED <<conn, done, recorded, dropped, queue, failed, table, answers>>
        /\ loop = "select" /\ final' \in {final, TRUE}
        /\ \/ batch' = buf /\ buf' = <<>> /\ loop' = "preparing"
           \/ batch' = batch /\ buf' = buf /\ loop' = "ended"
    BY DEF Tick, SeeDone, Flush
  <1>2. InQueue' = InQueue /\ Once(queue)' /\ batch = <<>> /\ InBatch = {}
    BY <1>1, PipelineFacts, RangeEmpty DEF InQueue, InBatch, Once
  <1>3. AnalyticsTypeOK /\ BatchSize \in Nat \ {0}
    BY AnalyticsConstants, PipelineFacts
  <1>4. CASE batch' = buf /\ buf' = <<>> /\ loop' = "preparing"
    <2>1. InBatch' = InBuf /\ InBuf' = {}
      BY <1>4, RangeEmpty DEF InBuf, InBatch
    <2>2. Len(buf') = 0 /\ buf' \in Seq(Events) /\ Len(buf) \in Nat
      BY <1>3, <1>4 DEF AnalyticsTypeOK
    <2>3. /\ batch' \in Seq(Events) /\ Len(batch') <= BatchSize
          /\ buf' \in Seq(Events) /\ Len(buf') < BatchSize
      BY <1>3, <1>4, <2>2 DEF AnalyticsTypeOK
    <2>4. final' \in BOOLEAN
      BY <1>1, <1>3 DEF AnalyticsTypeOK
    <2>5. AnalyticsTypeOK'
      BY <1>1, <1>3, <1>4, <2>3, <2>4 DEF AnalyticsTypeOK
    <2> QED
      BY <1>1, <1>2, <1>4, <2>1, <2>5, PipelineFacts, PipelineFrom
  <1>5. CASE batch' = batch /\ buf' = buf /\ loop' = "ended"
    <2>1. InBatch' = InBatch /\ InBuf' = InBuf
      BY <1>5 DEF InBuf, InBatch
    <2>2. AnalyticsTypeOK'
      BY <1>1, <1>3, <1>5 DEF AnalyticsTypeOK
    <2> QED
      BY <1>1, <1>2, <1>5, <2>1, <2>2, PipelineFacts, PipelineFrom
  <1> QED
    BY <1>1, <1>4, <1>5

\* An event goes from the channel into the batch that is gathered, which is sent
\* when it is full.
LEMMA TakeStep ==
    ASSUME PipelineInv, TakeEvent
    PROVE  PipelineInv'
  <1> DEFINE h == Head(queue)
             gathered == Append(buf, h)
  <1>1. /\ UNCHANGED <<conn, done, recorded, dropped, failed, final, table, answers>>
        /\ loop = "select" /\ queue # <<>> /\ queue' = Tail(queue)
        /\ \/ batch' = gathered /\ buf' = <<>> /\ loop' = "preparing"
           \/ /\ ~(Len(gathered) >= BatchSize)
              /\ buf' = gathered /\ batch' = batch /\ loop' = loop
    BY DEF TakeEvent, Flush
  <1>2. AnalyticsTypeOK /\ BatchSize \in Nat \ {0} /\ Capacity \in Nat
    BY AnalyticsConstants, PipelineFacts
  <1>3. queue \in Seq(Events) /\ buf \in Seq(Events) /\ Once(queue) /\ batch = <<>> /\ InBatch = {}
    BY <1>1, <1>2, PipelineFacts, RangeEmpty DEF AnalyticsTypeOK, InBatch
  <1>4. /\ queue' \in Seq(Events) /\ Len(queue') = Len(queue) - 1 /\ Len(queue) \in Nat
        /\ h \in Events /\ Once(queue)'
        /\ InQueue = InQueue' \cup {h} /\ h \notin InQueue'
    <2>1. Once(Tail(queue)) /\ h \notin Range(Tail(queue))
      BY <1>1, <1>3, RangeTail
    <2> QED
      BY <1>1, <1>3, <2>1, RangeTail DEF InQueue, Once
  <1>5. /\ gathered \in Seq(Events) /\ Len(gathered) = Len(buf) + 1 /\ Len(buf) \in Nat
        /\ Range(gathered) = InBuf \cup {h}
    BY <1>3, <1>4, RangeAppend DEF InBuf
  <1> HIDE DEF h, gathered
  <1>6. CASE batch' = gathered /\ buf' = <<>> /\ loop' = "preparing"
    <2>1. InBatch' = InBuf \cup {h} /\ InBuf' = {}
      BY <1>5, <1>6, RangeEmpty DEF InBuf, InBatch
    <2>2. Len(buf') = 0 /\ buf' \in Seq(Events)
      BY <1>6
    <2>3. AnalyticsTypeOK'
      BY <1>1, <1>2, <1>4, <1>5, <1>6, <2>2 DEF AnalyticsTypeOK
    <2> QED
      BY <1>1, <1>3, <1>4, <1>6, <2>1, <2>3, PipelineFacts, PipelineFrom
  <1>7. CASE ~(Len(gathered) >= BatchSize) /\ buf' = gathered /\ batch' = batch /\ loop' = loop
    <2>1. InBatch' = {} /\ InBuf' = InBuf \cup {h}
      BY <1>3, <1>5, <1>7, RangeEmpty DEF InBuf, InBatch
    <2>2. AnalyticsTypeOK'
      BY <1>1, <1>2, <1>4, <1>5, <1>7 DEF AnalyticsTypeOK
    <2> QED
      BY <1>1, <1>3, <1>4, <1>7, <2>1, <2>2, PipelineFacts, PipelineFrom
  <1> QED
    BY <1>1, <1>6, <1>7

\* A batch that was refused is given up; of one that was sent, what is stored has
\* a row, which it had not before, and the rest is given up.
LEMMA SentStep ==
    ASSUME PipelineInv,
           \/ PrepareFails
           \/ \E stored \in SUBSET Range(batch) : Send(stored)
    PROVE  PipelineInv'
  <1>1. PICK stored \in SUBSET InBatch :
            /\ table' = [e \in Events |-> IF e \in stored THEN table[e] + 1 ELSE table[e]]
            /\ failed' = failed \cup (InBatch \ stored)
            /\ batch' = <<>> /\ loop' \in {"ended", "select"}
            /\ UNCHANGED <<conn, done, recorded, dropped, queue, buf, final, answers>>
    <2>1. CASE PrepareFails
      <3>1. table' = [e \in Events |-> IF e \in {} THEN table[e] + 1 ELSE table[e]]
        BY <2>1, PipelineFacts DEF PrepareFails, AnalyticsTypeOK
      <3>2. failed' = failed \cup (InBatch \ {})
        BY <2>1 DEF PrepareFails, InBatch
      <3>3. /\ batch' = <<>> /\ loop' \in {"ended", "select"}
            /\ UNCHANGED <<conn, done, recorded, dropped, queue, buf, final, answers>>
        BY <2>1 DEF PrepareFails, Returned
      <3>4. {} \in SUBSET InBatch
        OBVIOUS
      <3> QED
        BY <3>1, <3>2, <3>3, <3>4
    <2>2. ASSUME NEW stored \in SUBSET Range(batch), Send(stored)
          PROVE  /\ stored \in SUBSET InBatch
                 /\ table' = [e \in Events |-> IF e \in stored THEN table[e] + 1 ELSE table[e]]
                 /\ failed' = failed \cup (InBatch \ stored)
                 /\ batch' = <<>> /\ loop' \in {"ended", "select"}
                 /\ UNCHANGED <<conn, done, recorded, dropped, queue, buf, final, answers>>
      BY <2>2 DEF Send, Returned, InBatch
    <2> QED
      BY <2>1, <2>2
  <1>2. InQueue' = InQueue /\ Once(queue)' /\ InBuf' = InBuf /\ InBatch' = {}
    BY <1>1, PipelineFacts, RangeEmpty DEF InQueue, InBuf, InBatch, Once
  <1>3. AnalyticsTypeOK /\ BatchSize \in Nat
    BY AnalyticsConstants, PipelineFacts
  <1>4. recorded \subseteq Events /\ InBatch \subseteq recorded
    BY <1>3, PipelineFacts DEF AnalyticsTypeOK
  <1>5. AnalyticsTypeOK'
    <2>1. table' \in [Events -> Nat]
      BY <1>1, <1>3 DEF AnalyticsTypeOK
    <2>2. Len(batch') = 0 /\ batch' \in Seq(Events)
      BY <1>1
    <2>3. failed' \subseteq Events
      BY <1>1, <1>3, <1>4 DEF AnalyticsTypeOK
    <2> QED
      BY <1>1, <1>3, <2>1, <2>2, <2>3 DEF AnalyticsTypeOK
  <1>6. \A e \in Events : /\ e \notin stored => table'[e] = table[e]
                          /\ e \in stored => table[e] = 0 /\ table'[e] = 1
    BY <1>1, PipelineFacts
  <1>7. \A e \in Events : table'[e] <= 1 /\ (table'[e] > 0 => e \in recorded)
    BY <1>1, <1>4, <1>6, PipelineFacts
  <1>8. \A e \in InQueue \cup InBuf : table'[e] = 0 /\ e \notin failed' \cup dropped
    BY <1>1, <1>4, <1>6, PipelineFacts
  <1>9. \A e \in recorded : e \in InQueue \cup InBuf \cup dropped \cup failed' \/ table'[e] > 0
    BY <1>1, <1>4, <1>6, PipelineFacts
  <1>10. InQueue \cup InBuf \cup dropped \cup failed' \subseteq recorded
    BY <1>1, PipelineFacts
  <1>11. InQueue \cap InBuf = {}
    BY PipelineFacts
  <1> QED
    BY <1>1, <1>2, <1>5, <1>7, <1>8, <1>9, <1>10, <1>11, PipelineFrom

\* The other steps move no event.
LEMMA QuietStep ==
    ASSUME PipelineInv,
           \/ Prepare \/ CloseDone \/ CloseConn \/ Query
           \/ UNCHANGED analyticsVars
    PROVE  PipelineInv'
  <1>1. /\ UNCHANGED <<recorded, dropped, queue, buf, batch, failed, final, table>>
        /\ conn' \in {conn, "closed"} /\ done' \in {done, TRUE}
        /\ loop' \in {loop, "sending"}
    BY DEF Prepare, CloseDone, CloseConn, Query,
           analyticsVars
  <1>2. Len(answers') <= Len(Queries)
    <2>1. Len(Queries) = 2 /\ Len(answers) <= Len(Queries)
      BY PipelineFacts DEF Queries, AnalyticsTypeOK
    <2>2. CASE Query
      <3>1. PICK a : answers' = Append(answers, a) /\ Len(answers) < Len(Queries)
        BY <2>2 DEF Query
      <3> QED
        BY <2>1, <3>1
    <2>3. CASE answers' = answers
      BY <2>1, <2>3
    <2> QED
      BY <2>2, <2>3 DEF Prepare, CloseDone, CloseConn, analyticsVars
  <1>3. AnalyticsTypeOK'
    BY <1>1, <1>2, PipelineFacts DEF AnalyticsTypeOK
  <1>4. InQueue' = InQueue /\ Once(queue)' /\ InBuf' = InBuf /\ InBatch' = InBatch
    BY <1>1, PipelineFacts DEF InQueue, InBuf, InBatch, Once
  <1>5. loop' \in {"select", "ended"} => batch' = <<>>
    BY <1>1, PipelineFacts
  <1> QED
    BY <1>1, <1>3, <1>4, <1>5, PipelineFacts, PipelineFrom

\* Every step of the pipeline keeps its invariant.
LEMMA NextPipeline == PipelineInv /\ [AnalyticsNext]_analyticsVars => PipelineInv'
  BY RecordStep, FlushStep, TakeStep, SentStep, QuietStep DEF AnalyticsNext, Loop
-----------------------------------------------------------------------------
(* A summary: what its two queries count while events arrive.              *)

Answer == [to : {"totals", "series"}, rows : {"all", "some"}, requests : Nat, errors : Nat]

\* The answers so far: from the queries in their order, each with no more than
\* there is to count now, and none that was read whole with less than an earlier
\* one.
AnswersOrdered ==
    /\ answers \in Seq(Answer)
    /\ \A i \in DOMAIN answers :
          /\ answers[i].to = Queries[i]
          /\ answers[i].requests <= Count(Events)
          /\ answers[i].errors <= Count(Errors)
          /\ answers[i].errors <= answers[i].requests
    /\ \A i, j \in DOMAIN answers : i <= j /\ answers[j].rows = "all" =>
          /\ answers[i].requests <= answers[j].requests
          /\ answers[i].errors <= answers[j].errors

\* Counts are numbers because only so many events were recorded so far.
SummaryInv == PipelineInv /\ IsFiniteSet(recorded) /\ AnswersOrdered

CountsBounded ==
    \A E \in SUBSET Events :
        /\ IsFiniteSet(Rows(E)) /\ Count(E) \in Nat
        /\ Cardinality(recorded) \in Nat /\ Count(E) <= Cardinality(recorded)

\* No event has more than one row, so that no more are counted than recorded.
LEMMA CountBounded ==
    PipelineInv /\ IsFiniteSet(recorded) => CountsBounded
  <1> SUFFICES ASSUME PipelineInv, IsFiniteSet(recorded), NEW E \in SUBSET Events
               PROVE  /\ IsFiniteSet(Rows(E)) /\ Count(E) \in Nat
                      /\ Cardinality(recorded) \in Nat /\ Count(E) <= Cardinality(recorded)
    BY DEF CountsBounded
  <1>1. Rows(E) \subseteq recorded \X {1}
    <2> SUFFICES ASSUME NEW e \in E, NEW n \in 1..table[e]
                 PROVE  e \in recorded /\ n = 1
      BY DEF Rows
    <2>1. table[e] \in Nat /\ table[e] <= 1 /\ (table[e] > 0 => e \in recorded)
      BY PipelineFacts DEF AnalyticsTypeOK
    <2> QED
      BY <2>1
  <1>2. IsFiniteSet({1}) /\ Cardinality({1}) = 1
    BY FS_Singleton
  <1>3. Cardinality(recorded) \in Nat
    BY FS_CardinalityType
  <1>4. IsFiniteSet(recorded \X {1}) /\ Cardinality(recorded \X {1}) = Cardinality(recorded)
    BY <1>2, <1>3, FS_Product
  <1>5. IsFiniteSet(Rows(E)) /\ Cardinality(Rows(E)) <= Cardinality(recorded)
    BY <1>1, <1>4, FS_Subset
  <1> QED
    BY <1>3, <1>5, FS_CardinalityType DEF Count

\* More events are counted than are errors among them.
LEMMA CountMonotone ==
    ASSUME PipelineInv, IsFiniteSet(recorded), NEW E \in SUBSET Events, NEW D \in SUBSET E
    PROVE  Count(D) <= Count(E)
  <1>1. Rows(D) \subseteq Rows(E)
    BY DEF Rows
  <1> QED
    BY <1>1, CountBounded, FS_Subset DEF Count, CountsBounded

\* No step takes a row away.
LEMMA RowsStay ==
    ASSUME PipelineInv, [AnalyticsNext]_analyticsVars
    PROVE  \A e \in Events : table[e] <= table'[e]
  <1> SUFFICES ASSUME NEW e \in Events PROVE table[e] <= table'[e]
    OBVIOUS
  <1>1. table[e] \in Nat
    BY PipelineFacts DEF AnalyticsTypeOK
  <1>2. CASE table' = table
    BY <1>1, <1>2
  <1>3. ASSUME NEW stored, Send(stored) PROVE table[e] <= table'[e]
    BY <1>1, <1>3 DEF Send
  <1> QED
    BY <1>2, <1>3 DEF AnalyticsNext, Loop, Record, TakeEvent, Tick, SeeDone, Prepare,
       PrepareFails, CloseDone, CloseConn, Query, analyticsVars

\* A later count of the same events is no smaller.
LEMMA CountGrows ==
    ASSUME PipelineInv, IsFiniteSet(recorded), PipelineInv', IsFiniteSet(recorded)',
           [AnalyticsNext]_analyticsVars, NEW CONSTANT E \in SUBSET Events
    PROVE  /\ Count(E) \in Nat /\ Count(E)' \in Nat /\ Count(E) <= Count(E)'
  <1>1. Rows(E) \subseteq Rows(E)'
    <2> SUFFICES ASSUME NEW e \in E, NEW n \in 1..table[e] PROVE n \in 1..table'[e]
      BY DEF Rows
    <2>1. table[e] \in Nat /\ table'[e] \in Nat /\ table[e] <= table'[e]
      BY RowsStay, PipelineFacts DEF PipelineInv, Accounted, AnalyticsTypeOK
    <2> QED
      BY <2>1
  <1>2. IsFiniteSet(Rows(E)') /\ Count(E)' \in Nat
    <2>1. CountsBounded'
      BY CountBounded, PTL
    <2> QED
      BY <2>1 DEF CountsBounded
  <1>3. Cardinality(Rows(E)) <= Cardinality(Rows(E)')
    BY <1>1, <1>2, FS_Subset
  <1> QED
    BY <1>2, <1>3, CountBounded DEF Count, CountsBounded

LEMMA InitSummary == AnalyticsInit => SummaryInv
  <1> SUFFICES ASSUME AnalyticsInit PROVE SummaryInv
    OBVIOUS
  <1>1. recorded = {} /\ answers = <<>>
    BY DEF AnalyticsInit
  <1>2. AnswersOrdered
    BY <1>1 DEF AnswersOrdered
  <1> QED
    BY <1>1, <1>2, InitPipeline, FS_EmptySet DEF SummaryInv

\* The recorded events stay finitely many.
LEMMA RecordedFinite ==
    ASSUME IsFiniteSet(recorded), [AnalyticsNext]_analyticsVars
    PROVE  IsFiniteSet(recorded)'
  <1>1. recorded' = recorded \/ \E e \in Events : recorded' = recorded \cup {e}
    BY DEF AnalyticsNext, Loop, Record, TakeEvent, Tick, SeeDone, Prepare, PrepareFails, Send,
       CloseDone, CloseConn, Query, analyticsVars
  <1> QED
    BY <1>1, FS_AddElement

\* An answer stays true while rows are added, and the next one counts them all
\* if it is read whole.
LEMMA AnswersStep ==
    ASSUME SummaryInv, [AnalyticsNext]_analyticsVars, PipelineInv', IsFiniteSet(recorded)'
    PROVE  AnswersOrdered'
  <1> DEFINE all == Count(Events)
             bad == Count(Errors)
  <1>1. /\ all \in Nat /\ all' \in Nat /\ all <= all'
        /\ bad \in Nat /\ bad' \in Nat /\ bad <= bad'
        /\ bad <= all
    BY AnalyticsConstants, CountGrows, CountMonotone DEF SummaryInv
  <1>2. answers \in Seq(Answer) /\ answers \in [1..Len(answers) -> Answer] /\ Len(answers) \in Nat
    BY DEF SummaryInv, AnswersOrdered
  <1>3. \A i \in 1..Len(answers) :
           /\ answers[i].requests \in Nat /\ answers[i].errors \in Nat
           /\ answers[i].to = Queries[i]
           /\ answers[i].requests <= all /\ answers[i].errors <= bad
           /\ answers[i].errors <= answers[i].requests
    BY <1>2 DEF SummaryInv, AnswersOrdered, Answer
  <1>4. \A i, j \in 1..Len(answers) : i <= j /\ answers[j].rows = "all" =>
           /\ answers[i].requests <= answers[j].requests
           /\ answers[i].errors <= answers[j].errors
    BY <1>2 DEF SummaryInv, AnswersOrdered
  <1>5. CASE answers' = answers
    <2>1. \A i \in 1..Len(answers) : answers[i].requests <= all' /\ answers[i].errors <= bad'
      BY <1>1, <1>3
    <2> QED
      BY <1>2, <1>3, <1>4, <1>5, <2>1 DEF AnswersOrdered
  <1>6. CASE Query
    <2>1. PICK read \in SUBSET Events :
             /\ answers' = Append(answers, [to |-> Queries[Len(answers) + 1],
                                            rows |-> IF read = Events THEN "all" ELSE "some",
                                            requests |-> Count(read),
                                            errors |-> Count(read \cap Errors)])
             /\ UNCHANGED table
             /\ Len(answers) < Len(Queries)
      BY <1>6 DEF Query, ReadBy
    <2> DEFINE seen == Count(read)
               wrong == Count(read \cap Errors)
               a == [to |-> Queries[Len(answers) + 1],
                     rows |-> IF read = Events THEN "all" ELSE "some",
                     requests |-> seen, errors |-> wrong]
    <2>2. /\ answers' = Append(answers, a) /\ UNCHANGED table
          /\ Len(answers) < Len(Queries)
      BY <2>1
    <2>3. /\ seen \in Nat /\ wrong \in Nat
           /\ seen <= all /\ wrong <= bad /\ wrong <= seen
      <3>1. read \cap Errors \in SUBSET Events /\ Errors \in SUBSET Events
        BY AnalyticsConstants
      <3>2. seen \in Nat /\ wrong \in Nat
        BY <3>1, CountBounded DEF SummaryInv, CountsBounded
      <3>3. seen <= all /\ wrong <= seen
        BY CountMonotone DEF SummaryInv
      <3>4. wrong <= bad
        BY <3>1, CountMonotone DEF SummaryInv
      <3> QED
        BY <3>2, <3>3, <3>4
    <2>4. read = Events => seen = all /\ wrong = bad
      <3>1. Events \cap Errors = Errors
        BY AnalyticsConstants
      <3> QED
        BY <3>1
    <2>5. Len(answers) + 1 \in 1..2 /\ Len(Queries) = 2
      BY <1>2, <2>2 DEF Queries
    <2>6. /\ a \in Answer
          /\ a.to = Queries[Len(answers) + 1] /\ a.requests = seen /\ a.errors = wrong
          /\ a.rows = "all" => read = Events
      BY <2>5, <2>3 DEF Answer, Queries
    <2>7. all' = all /\ bad' = bad
      BY <2>2 DEF Count, Rows
    <2> HIDE DEF a, all, bad, seen, wrong
    <2>8. /\ answers' \in Seq(Answer) /\ DOMAIN answers' = 1..(Len(answers) + 1)
          /\ \A i \in 1..Len(answers) : answers'[i] = answers[i]
          /\ answers'[Len(answers) + 1] = a
      BY <1>2, <2>2, <2>6, AppendProperties
    <2>9. \A i \in 1..(Len(answers) + 1) :
              i \in 1..Len(answers) \/ i = Len(answers) + 1
      BY <1>2
    <2>10. \A i \in DOMAIN answers' :
              /\ answers'[i].to = Queries[i]
              /\ answers'[i].requests <= all' /\ answers'[i].errors <= bad'
              /\ answers'[i].errors <= answers'[i].requests
      BY <1>1, <1>3, <2>6, <2>7, <2>8, <2>9, <2>3
    <2>11. \A i, j \in DOMAIN answers' : i <= j /\ answers'[j].rows = "all" =>
              /\ answers'[i].requests <= answers'[j].requests
              /\ answers'[i].errors <= answers'[j].errors
      <3> SUFFICES ASSUME NEW i \in DOMAIN answers', NEW j \in DOMAIN answers', i <= j,
                          answers'[j].rows = "all"
                   PROVE  /\ answers'[i].requests <= answers'[j].requests
                          /\ answers'[i].errors <= answers'[j].errors
        OBVIOUS
      <3>1. CASE j \in 1..Len(answers)
        <4>1. i \in 1..Len(answers)
          BY <1>2, <2>8, <3>1
        <4> QED
          BY <1>4, <2>8, <3>1, <4>1
      <3>2. CASE j = Len(answers) + 1
        <4>1. CASE i \in 1..Len(answers)
          BY <1>3, <2>6, <2>8, <2>4, <3>2, <4>1
        <4>2. CASE i = Len(answers) + 1
          BY <2>6, <2>8, <2>3, <3>2, <4>2
        <4> QED
          BY <2>8, <2>9, <4>1, <4>2
      <3> QED
        BY <2>8, <2>9, <3>1, <3>2
    <2> QED
      BY <2>8, <2>10, <2>11 DEF AnswersOrdered, all, bad
  <1> QED
    BY <1>5, <1>6 DEF AnalyticsNext, Loop, Record, TakeEvent, Tick, SeeDone, Prepare,
       PrepareFails, Send, CloseDone, CloseConn, analyticsVars

\* What SummaryConsistent says follows from the order of the answers.
LEMMA SummaryFacts == SummaryInv => SummaryConsistent
  <1> SUFFICES ASSUME SummaryInv PROVE SummaryConsistent
    OBVIOUS
  <1>1. answers \in Seq(Answer) /\ Len(answers) <= 2
    BY PipelineFacts DEF SummaryInv, AnswersOrdered, AnalyticsTypeOK, Queries
  <1>2. /\ Count(Events) \in Nat /\ Cardinality(recorded) \in Nat
        /\ Count(Events) <= Cardinality(recorded)
    BY CountBounded DEF SummaryInv, CountsBounded
  <1>3. ASSUME NEW i \in DOMAIN answers
        PROVE  /\ answers[i].errors <= answers[i].requests
               /\ answers[i].requests <= Cardinality(recorded)
    <2>1. answers[i].requests <= Count(Events) /\ answers[i].errors <= answers[i].requests
      BY DEF SummaryInv, AnswersOrdered
    <2>2. answers[i].requests \in Nat
      <3>1. answers[i] \in Answer
        BY <1>1
      <3> QED
        BY <3>1 DEF Answer
    <2> QED
      BY <1>2, <2>1, <2>2
  <1>4. ASSUME NEW i \in DOMAIN answers, NEW j \in DOMAIN answers,
               answers[i].to = "totals", answers[j].to = "series", answers[j].rows = "all"
        PROVE  /\ answers[i].requests <= answers[j].requests
               /\ answers[i].errors <= answers[j].errors
    <2>1. i \in 1..2 /\ j \in 1..2
      BY <1>1
    <2>2. Queries[i] = "totals" /\ Queries[j] = "series"
      BY <1>4 DEF SummaryInv, AnswersOrdered
    <2>3. i = 1 /\ j = 2
      BY <2>1, <2>2 DEF Queries
    <2> QED
      BY <1>4, <2>3 DEF SummaryInv, AnswersOrdered
  <1> QED
    BY <1>3, <1>4 DEF SummaryConsistent, Range
-----------------------------------------------------------------------------
\* No exchange counts twice in the analytics and none disappears: what was
\* recorded is in a channel, buffer or batch and nowhere else, has one row, or is
\* one of those whose loss the code takes into account (Record, flushLoop,
\* flush), whatever part of a batch ClickHouse stores and whenever Close comes.
THEOREM EventsAccountedFor == AnalyticsSpec => []Accounted
  <1>1. AnalyticsInit => PipelineInv
    BY InitPipeline
  <1>2. PipelineInv /\ [AnalyticsNext]_analyticsVars => PipelineInv'
    BY NextPipeline
  <1>3. PipelineInv => Accounted
    BY DEF PipelineInv
  <1> QED
    BY <1>1, <1>2, <1>3, PTL DEF AnalyticsSpec

\* A summary counts no more than was recorded, and a series that was read to its
\* end, after the totals while batches are stored, has at least their requests
\* and errors (QuerySummary; a series may be cut short without an error).
THEOREM SummariesAgree == AnalyticsSpec => []SummaryConsistent
  <1>1. AnalyticsInit => SummaryInv
    BY InitSummary
  <1>2. SummaryInv /\ [AnalyticsNext]_analyticsVars => SummaryInv'
    BY NextPipeline, RecordedFinite, AnswersStep DEF SummaryInv
  <1>3. SummaryInv => SummaryConsistent
    BY SummaryFacts
  <1> QED
    BY <1>1, <1>2, <1>3, PTL DEF AnalyticsSpec
=============================================================================
