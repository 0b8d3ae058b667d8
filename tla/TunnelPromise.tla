---------------------------- MODULE TunnelPromise ----------------------------
(***************************************************************************)
(* What a Gotra tunnel promises to the clients of its public address,      *)
(* whatever sockets, goroutines and gateway instances it is built from:    *)
(* every request that was asked is answered, once; the answer is either    *)
(* what the developer's local application said to that very request, or a  *)
(* failure; and the application executes a request at most once, whether   *)
(* or not its answer still finds the client.                               *)
(***************************************************************************)
CONSTANTS
    Requests,   \* the public HTTP requests
    None,       \* no outcome yet; not a request
    Failed      \* a gateway or agent error (502); neither of those

VARIABLES
    asked,      \* the requests that have arrived
    executed,   \* executed[r]: times the local application has executed r
    outcome     \* outcome[r]: None, Failed, or the request whose response r got

vars == <<asked, executed, outcome>>

TypeOK ==
    /\ asked \subseteq Requests
    /\ executed \in [Requests -> {0, 1}]
    /\ outcome \in [Requests -> Requests \cup {None, Failed}]

Init ==
    /\ asked = {}
    /\ executed = [r \in Requests |-> 0]
    /\ outcome = [r \in Requests |-> None]

Ask(r) ==
    /\ r \notin asked
    /\ asked' = asked \cup {r}
    /\ UNCHANGED <<executed, outcome>>

\* The application runs the request; its client may already have been failed.
Execute(r) ==
    /\ r \in asked
    /\ executed[r] = 0
    /\ executed' = [executed EXCEPT ![r] = 1]
    /\ UNCHANGED <<asked, outcome>>

Answer(r) ==
    /\ executed[r] = 1
    /\ outcome[r] = None
    /\ outcome' = [outcome EXCEPT ![r] = r]
    /\ UNCHANGED <<asked, executed>>

Open == {r \in asked : outcome[r] = None}

\* A lost process fails all its requests at once.
Fail(R) ==
    /\ R \subseteq Open
    /\ outcome' = [r \in Requests |-> IF r \in R THEN Failed ELSE outcome[r]]
    /\ UNCHANGED <<asked, executed>>

\* A request that finds no tunnel is refused as it arrives.
Refuse(r) ==
    /\ r \notin asked
    /\ asked' = asked \cup {r}
    /\ outcome' = [outcome EXCEPT ![r] = Failed]
    /\ UNCHANGED executed

Next ==
    \/ \E r \in Requests : Ask(r) \/ Execute(r) \/ Answer(r) \/ Refuse(r)
    \/ \E R \in SUBSET Requests : Fail(R)

Fairness == \A r \in Requests : WF_vars(Answer(r) \/ \E R \in SUBSET Open : r \in R /\ Fail(R))

Spec == Init /\ [][Next]_vars /\ Fairness
=============================================================================
