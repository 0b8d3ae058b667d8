--------------------------- MODULE TrafficRecords ---------------------------
(***************************************************************************)
(* What the database keeps of a project's traffic, and what users make of  *)
(* it: the captures of exchanges (the gateway's goroutines), replays, and  *)
(* the AI service's analyses and incident reports, against the deletion of *)
(* tunnels and of the project.                                             *)
(*                                                                         *)
(* One project is enough: no call here touches rows of two.  Every         *)
(* statement sent to Postgres is a step, and a transaction of several      *)
(* statements is several; foreign keys, their cascades and the row locks   *)
(* they take are those of the migrations.  Rows are known by what they are *)
(* about: a captured request by its exchange, a replay, an analysis, an    *)
(* incident and a usage record by the call that inserts it.                *)
(***************************************************************************)
EXTENDS Naturals, FiniteSets

CONSTANTS
    Exchanges, \* requests the local application may answer through the tunnels
    Failing,   \* those it answers with a status of 400 or more
    Tunnels,   \* the project's tunnels
    Calls,     \* requests to the API
    External,  \* how many of the two AI providers have a key
    None       \* no tunnel, no request

ASSUME TrafficConstants ==
    /\ Failing \subseteq Exchanges
    /\ None \notin Exchanges \cup Tunnels
    /\ External \in 0..2

VARIABLES
    project,   \* whether the project has its row, and with it its members
    tunnels,   \* the tunnels that have a row
    via,       \* via[e]: the tunnel exchange e went through; None before it
    capture,   \* capture[e]: where the goroutine that saves e stands
    requests,  \* rows of requests, as others see them
    responses, \* rows of responses, likewise
    kind,      \* kind[k]: what call k asks for
    about,     \* about[k]: the captured request call k is about
    pc,        \* pc[k]: where call k stands
    provider,  \* provider[k]: the AI provider call k asks, while it asks; the stub is last
    replays,   \* rows of replays
    analyses,  \* rows of ai_analyses
    named,     \* named[k]: the request_id of the row in ai_analyses
    incidents, \* rows of ai_incidents
    usage      \* rows of ai_usage

rows == <<requests, responses, replays, analyses, named, incidents, usage>>
calls == <<kind, about, pc, provider>>
vars == <<project, tunnels, via, capture, rows, calls>>

RequestKinds == {"replay", "analysis"}
ProjectKinds == {"logs", "incident"}
Kinds == RequestKinds \cup ProjectKinds

Stub == External + 1

Init ==
    /\ project = TRUE /\ tunnels = Tunnels
    /\ via = [e \in Exchanges |-> None]
    /\ capture = [e \in Exchanges |-> "none"]
    /\ requests = {} /\ responses = {}
    /\ kind = [k \in Calls |-> "logs"]
    /\ about = [k \in Calls |-> None]
    /\ pc = [k \in Calls |-> "idle"]
    /\ provider = [k \in Calls |-> 1]
    /\ replays = {} /\ analyses = {} /\ incidents = {} /\ usage = {}
    /\ named = [k \in Calls |-> None]
-----------------------------------------------------------------------------
(* Capture: Server.capture and Repository.SaveCapture                      *)

\* The application answers e through t, and a goroutine is started to save it.
\* The gateway does not look whether t still has its row.
Answered(e, t) ==
    /\ via[e] = None
    /\ via' = [via EXCEPT ![e] = t]
    /\ capture' = [capture EXCEPT ![e] = "saving"]

Exchange(e, t) == Answered(e, t) /\ UNCHANGED <<project, tunnels, rows, calls>>

\* The row refers to the tunnel and the project, which must be there and which
\* nobody can delete from now on until the transaction ends.
InsertRequest(e) ==
    /\ capture[e] = "saving" /\ via[e] \in tunnels
    /\ capture' = [capture EXCEPT ![e] = "inserted"]
    /\ UNCHANGED <<project, tunnels, via, rows, calls>>

\* The response is inserted, and both rows are committed, also when the
\* goroutine does not hear of it and logs a failure.
CommitCapture(e) ==
    /\ capture[e] = "inserted"
    /\ capture' = [capture EXCEPT ![e] = "ended"]
    /\ requests' = requests \cup {e}
    /\ responses' = responses \cup {e}
    /\ UNCHANGED <<project, tunnels, via, calls, replays, analyses, named, incidents, usage>>

\* Any statement may fail, or the five seconds end: rolled back and logged.
CaptureFails(e) ==
    /\ capture[e] \in {"saving", "inserted"}
    /\ capture' = [capture EXCEPT ![e] = "ended"]
    /\ UNCHANGED <<project, tunnels, via, rows, calls>>

Saving(t) == \E e \in Exchanges : capture[e] = "inserted" /\ via[e] = t
-----------------------------------------------------------------------------
(* Deletion: tunnels and projects Service.Delete                           *)

\* Deleting requests takes their responses and replays with them; analyses
\* stay and no longer name them.
Remove(E) ==
    /\ requests' = requests \ E
    /\ responses' = responses \ E
    /\ replays' = {k \in replays : about[k] \notin E}
    /\ named' = [k \in Calls |-> IF named[k] \in E THEN None ELSE named[k]]

DeleteTunnel(t) ==
    /\ t \in tunnels /\ ~Saving(t)
    /\ tunnels' = tunnels \ {t}
    /\ Remove({e \in requests : via[e] = t})
    /\ UNCHANGED <<project, via, capture, calls, analyses, incidents, usage>>

\* Everything refers to the project.
DeleteProject ==
    /\ project
    /\ \A t \in tunnels : ~Saving(t)
    /\ project' = FALSE /\ tunnels' = {}
    /\ Remove(requests)
    /\ analyses' = {} /\ incidents' = {} /\ usage' = {}
    /\ UNCHANGED <<via, capture, calls>>
-----------------------------------------------------------------------------
(* Calls: requests.Service.Replay, ai.Service                              *)

Goto(k, at) == pc' = [pc EXCEPT ![k] = at]

Begin(k, q, e) ==
    /\ pc[k] = "idle"
    /\ kind' = [kind EXCEPT ![k] = q]
    /\ about' = [about EXCEPT ![k] = e]
    /\ Goto(k, "reading")
    /\ UNCHANGED <<project, tunnels, via, capture, rows, provider>>

BeginReplay(k) == \E e \in Exchanges : via[e] # None /\ Begin(k, "replay", e)

\* Explain an error, analyze a request or a replay: runRequestOp.
BeginAnalysis(k) == \E e \in Exchanges : via[e] # None /\ Begin(k, "analysis", e)

\* Explain logs that the caller supplies, or report the project's incidents.
BeginOfProject(k) == \E q \in ProjectKinds : Begin(k, q, None)

\* UserInProject: the membership goes with the project.
Member == project

\* Reads of a captured request are joined to the membership.
GetForUser(e) == Member /\ e \in requests

\* A replay's is joined to the tunnel, too.
GetReplayContext(e) == GetForUser(e) /\ via[e] \in tunnels

\* What ForRecentFailures puts into an incident's context.
RecentFailures == {e \in Failing : GetForUser(e) /\ e \in responses}

\* The read of k succeeds, and k goes on.
Reads(k, from, to) ==
    /\ pc[k] = from
    /\ Goto(k, to)
    /\ UNCHANGED <<project, tunnels, via, capture, rows, kind, about, provider>>

ReadOriginal(k) ==
    /\ kind[k] = "replay" /\ GetReplayContext(about[k])
    /\ Reads(k, "reading", "sending")

ReadContext(k) ==
    /\ kind[k] = "analysis" /\ GetForUser(about[k])
    /\ Reads(k, "reading", "asking")

EnsureMember(k) ==
    /\ kind[k] \in ProjectKinds /\ Member
    /\ Reads(k, "reading", IF kind[k] = "incident" THEN "collecting" ELSE "asking")

CollectFailures(k) ==
    /\ RecentFailures # {}
    /\ Reads(k, "collecting", "asking")

\* Nothing to read, the caller is no member, or the query fails.
Refuse(k) == \E from \in {"reading", "collecting"} : Reads(k, from, "refused")

\* The replay goes out through the gateway to the tunnel of the original, and
\* the application's answer is an exchange like any other.
SendReplay(k, e) ==
    /\ pc[k] = "sending"
    /\ Answered(e, via[about[k]])
    /\ Goto(k, "storing")
    /\ UNCHANGED <<project, tunnels, rows, kind, about, provider>>

\* The gateway answers itself: no agent, or one that does not answer in time.
\* Its status is recorded as the result all the same.
GatewayAnswers(k) ==
    /\ pc[k] = "sending"
    /\ Goto(k, "storing")
    /\ UNCHANGED <<project, tunnels, via, capture, rows, kind, about, provider>>

SendFails(k) ==
    /\ pc[k] = "sending"
    /\ Goto(k, "failed")
    /\ UNCHANGED <<project, tunnels, via, capture, rows, kind, about, provider>>

\* What a model's text may be for parseJSON: the JSON object asked for, or
\* anything else; and the stub's, which is made of a fixed object.
ModelTexts == {"object", "other"}
StubTexts == {"object"}

ParseJSON(text) == text = "object"

\* A provider completes, and the loop over them is left.  Other text than the
\* object fails the call: the next provider is not asked.
Completes(k) ==
    /\ pc[k] = "asking"
    /\ provider' = [provider EXCEPT ![k] = 1]
    /\ \E text \in IF provider[k] = Stub THEN StubTexts ELSE ModelTexts :
           Goto(k, IF ParseJSON(text) THEN "storing" ELSE "failed")
    /\ UNCHANGED <<project, tunnels, via, capture, rows, kind, about>>

\* Mutant of ProviderFails: the first provider is asked again after the last.
BugAsksAgain(k) ==
    /\ pc[k] = "asking" /\ provider[k] # Stub
    /\ provider' = [provider EXCEPT ![k] = IF provider[k] < External THEN provider[k] + 1 ELSE 1]
    /\ UNCHANGED <<project, tunnels, via, capture, rows, kind, about, pc>>

\* It fails, and the next one is asked; the stub at the end never does.
ProviderFails(k) ==
    /\ pc[k] = "asking" /\ provider[k] # Stub
    /\ provider' = [provider EXCEPT ![k] = provider[k] + 1]
    /\ UNCHANGED <<project, tunnels, via, capture, rows, kind, about, pc>>

\* Mutant of Storable: an analysis refers to its request by name only.
BugStorable(k) == project /\ (kind[k] = "replay" => about[k] \in requests)

\* The foreign keys of the row that call k inserts.
Storable(k) == project /\ (kind[k] \in RequestKinds => about[k] \in requests)

SaveReplay(k) ==
    /\ kind[k] = "replay"
    /\ replays' = replays \cup {k}
    /\ UNCHANGED <<analyses, named, incidents>>

SaveAnalysis(k) ==
    /\ kind[k] \in {"analysis", "logs"}
    /\ analyses' = analyses \cup {k}
    /\ named' = [named EXCEPT ![k] = about[k]]
    /\ UNCHANGED <<replays, incidents>>

SaveIncident(k) ==
    /\ kind[k] = "incident"
    /\ incidents' = incidents \cup {k}
    /\ UNCHANGED <<replays, analyses, named>>

\* The result is stored.
Insert(k) ==
    /\ pc[k] = "storing" /\ Storable(k)
    /\ SaveReplay(k) \/ SaveAnalysis(k) \/ SaveIncident(k)
    /\ UNCHANGED <<project, tunnels, via, capture, requests, responses, usage, kind, about, provider>>

\* The end of a replay, but not of the others.
Store(k) ==
    /\ Insert(k)
    /\ Goto(k, IF kind[k] = "replay" THEN "served" ELSE "accounting")

\* The row is committed and the answer with its id lost: the connection breaks,
\* or the caller is gone and the request's context cancelled.  The call returns
\* an error like any other.
StoreUnheard(k) == Insert(k) /\ Goto(k, "unheard")

\* The statement fails, or never reaches the database.
StoreFails(k) ==
    /\ pc[k] = "storing"
    /\ Goto(k, "failed")
    /\ UNCHANGED <<project, tunnels, via, capture, rows, kind, about, provider>>

RecordUsage(k) ==
    /\ pc[k] = "accounting" /\ project
    /\ usage' = usage \cup {k}
    /\ Goto(k, "served")
    /\ UNCHANGED <<project, tunnels, via, capture, requests, responses, replays, analyses, named,
                   incidents, kind, about, provider>>

\* Mutant of UsageFails: its error is returned.
BugUsageMatters(k) ==
    /\ pc[k] = "accounting"
    /\ Goto(k, "failed")
    /\ UNCHANGED <<project, tunnels, via, capture, rows, kind, about, provider>>

\* The error is dropped.
UsageFails(k) ==
    /\ pc[k] = "accounting"
    /\ Goto(k, "served")
    /\ UNCHANGED <<project, tunnels, via, capture, rows, kind, about, provider>>
-----------------------------------------------------------------------------
CaptureStep(e) == InsertRequest(e) \/ CommitCapture(e) \/ CaptureFails(e)

CallBegins(k) == BeginReplay(k) \/ BeginAnalysis(k) \/ BeginOfProject(k)

CallStep(k) ==
    \/ ReadOriginal(k) \/ ReadContext(k) \/ EnsureMember(k) \/ CollectFailures(k) \/ Refuse(k)
    \/ (\E e \in Exchanges : SendReplay(k, e)) \/ GatewayAnswers(k) \/ SendFails(k)
    \/ Completes(k) \/ ProviderFails(k)
    \/ Store(k) \/ StoreUnheard(k) \/ StoreFails(k) \/ RecordUsage(k) \/ UsageFails(k)

Next ==
    \/ \E e \in Exchanges : CaptureStep(e) \/ \E t \in Tunnels : Exchange(e, t)
    \/ \E k \in Calls : CallBegins(k) \/ CallStep(k)
    \/ \E t \in Tunnels : DeleteTunnel(t)
    \/ DeleteProject

\* A call's goroutine goes on: the gateway and the providers answer or are
\* given up on (35 s for the gateway, 60 s for Gemini, the SDK's own timeout for
\* Claude).  Nobody else owes anything.
Fairness == \A k \in Calls : WF_vars(CallStep(k))

Spec == Init /\ [][Next]_vars /\ Fairness
-----------------------------------------------------------------------------
(* Properties                                                              *)

Ended == {"refused", "failed", "unheard", "served"}

TypeOK ==
    /\ project \in BOOLEAN /\ tunnels \subseteq Tunnels
    /\ via \in [Exchanges -> Tunnels \cup {None}]
    /\ capture \in [Exchanges -> {"none", "saving", "inserted", "ended"}]
    /\ requests \subseteq Exchanges /\ responses \subseteq Exchanges
    /\ kind \in [Calls -> Kinds]
    /\ about \in [Calls -> Exchanges \cup {None}]
    /\ pc \in [Calls -> Ended \cup {"idle", "reading", "collecting", "sending",
                                   "asking", "storing", "accounting"}]
    /\ provider \in [Calls -> 1..Stub]
    /\ named \in [Calls -> Exchanges \cup {None}]
    /\ replays \subseteq Calls /\ analyses \subseteq Calls
    /\ incidents \subseteq Calls /\ usage \subseteq Calls

\* No row names another that is gone, however deletions fall between the
\* steps of captures, replays and analyses; and whoever reads a captured request
\* finds its response too, although the two are rows of two tables.
NoDangling ==
    /\ TypeOK
    /\ requests = responses
    /\ tunnels # {} => project
    /\ \A e \in requests : via[e] \in tunnels
    /\ \A k \in replays : about[k] \in requests
    /\ \A k \in analyses : named[k] \in requests \cup {None}
    /\ analyses \cup incidents \cup usage # {} => project

\* What a caller was told is what was kept.  What a served call stored is there
\* until the request or the project it is about is deleted.  A call that ended
\* with an error has left a row, which its repetition would store again, in one
\* case only: the answer to its INSERT was lost; no failure after the INSERT
\* makes another.  And usage is counted for nothing but what was stored and
\* heard of, through failures and deletions (the order of SaveAnalysis or
\* SaveIncident and RecordUsage).
ToldAsKept ==
    /\ usage \subseteq analyses \cup incidents
    /\ \A k \in Calls :
          /\ pc[k] \in {"refused", "failed"} => k \notin replays \cup analyses \cup incidents
          /\ pc[k] = "unheard" => k \notin usage
          /\ pc[k] = "served" =>
                CASE kind[k] = "replay"   -> about[k] \in requests => k \in replays
                  [] kind[k] = "incident" -> project => k \in incidents
                  [] OTHER                -> project => k \in analyses

\* Every call ends, whichever providers fail (Orchestrator.Complete).
CallsEnd == \A k \in Calls : pc[k] = "reading" ~> pc[k] \in Ended
=============================================================================
