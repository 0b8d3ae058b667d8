------------------------------- MODULE Migrate -------------------------------
(***************************************************************************)
(* The migration runner (internal/migrate) and the command that runs it,   *)
(* with several runners at once: a job that is started twice or retried,   *)
(* or the jobs of two releases.  Each has the files embedded in its build. *)
(*                                                                         *)
(* A file's statements and the record of its version are one transaction.  *)
(* Two transactions cannot create the same relations side by side: the     *)
(* second waits for the first to end.  What it finds then depends on the   *)
(* file: CREATE TABLE fails when the table is there, while a file whose    *)
(* statements all tolerate that (0004_billing.sql) runs again, and only    *)
(* the primary key of schema_migrations stops it.                          *)
(***************************************************************************)
EXTENDS Integers

CONSTANTS
    Runners,   \* runs of `api migrate up`, each repeated any number of times
    Files,     \* the files of the newest build, by their place in lexical order
    Build,     \* Build[r]: the last file embedded in r's build
    Repeatable \* files that do not fail when they are run again

ASSUME MigrateConstants ==
    /\ Files \subseteq Nat \ {0}
    /\ Build \in [Runners -> Nat]
    /\ Repeatable \subseteq Files

VARIABLES
    pc,       \* pc[r]: where runner r stands
    todo,     \* todo[r]: the files of its build that it has not seen applied
    tx,       \* tx[r]: the file whose transaction r has open; 0 is none
    recorded, \* versions in schema_migrations
    applied   \* applied[f]: how often f's statements were committed

vars == <<pc, todo, tx, recorded, applied>>

Embedded(r) == {f \in Files : f <= Build[r]}

Init ==
    /\ pc = [r \in Runners |-> "idle"]
    /\ todo = [r \in Runners |-> {}]
    /\ tx = [r \in Runners |-> 0]
    /\ recorded = {}
    /\ applied = [f \in Files |-> 0]

Goto(r, at) == pc' = [pc EXCEPT ![r] = at]

\* Rolled back, explicitly or with the connection.
Fail(r) == Goto(r, "failed") /\ tx' = [tx EXCEPT ![r] = 0]
-----------------------------------------------------------------------------
Running == {"creating", "reading", "applying", "recording", "committing"}

\* `api migrate up`; the tracking table is created if it does not exist.
Start(r) ==
    /\ pc[r] \in {"idle", "failed", "done"}
    /\ Goto(r, "creating")
    /\ UNCHANGED <<todo, tx, recorded, applied>>

CreateTable(r) ==
    /\ pc[r] = "creating"
    /\ Goto(r, "reading")
    /\ UNCHANGED <<todo, tx, recorded, applied>>

\* appliedVersions, sortedMigrationFiles: the versions are read once.
ReadApplied(r) ==
    /\ pc[r] = "reading"
    /\ todo' = [todo EXCEPT ![r] = Embedded(r) \ recorded]
    /\ Goto(r, "applying")
    /\ UNCHANGED <<tx, recorded, applied>>

\* Mutant of IsNext: the order of the directory is taken for the order of the files.
BugIsNext(r, f) == f \in todo[r]

\* The files are taken in order.
IsNext(r, f) == f \in todo[r] /\ \A g \in todo[r] : f <= g

\* Nobody else has a transaction for f.
Unlocked(r, f) == \A s \in Runners \ {r} : tx[s] # f

Apply(r, f) ==
    /\ pc[r] = "applying" /\ IsNext(r, f) /\ Unlocked(r, f)
    /\ applied[f] = 0 \/ f \in Repeatable
    /\ tx' = [tx EXCEPT ![r] = f]
    /\ Goto(r, "recording")
    /\ UNCHANGED <<todo, recorded, applied>>

\* Mutant of Record: a version that is there already is no error.
BugOnConflictDoNothing(r) ==
    /\ pc[r] = "recording"
    /\ Goto(r, "committing")
    /\ UNCHANGED <<todo, tx, recorded, applied>>

\* INSERT INTO schema_migrations: version is its primary key.
Record(r) ==
    /\ pc[r] = "recording" /\ tx[r] \notin recorded
    /\ Goto(r, "committing")
    /\ UNCHANGED <<todo, tx, recorded, applied>>

Committed(r) ==
    /\ recorded' = recorded \cup {tx[r]}
    /\ applied' = [applied EXCEPT ![tx[r]] = @ + 1]
    /\ tx' = [tx EXCEPT ![r] = 0]

Commit(r) ==
    /\ pc[r] = "committing"
    /\ Committed(r)
    /\ todo' = [todo EXCEPT ![r] = todo[r] \ {tx[r]}]
    /\ Goto(r, "applying")

\* The commit is carried out, but the runner dies or never hears of it.
CommitUnheard(r) ==
    /\ pc[r] = "committing"
    /\ Committed(r)
    /\ Goto(r, "failed")
    /\ UNCHANGED todo

Finish(r) ==
    /\ pc[r] = "applying" /\ todo[r] = {}
    /\ Goto(r, "done")
    /\ UNCHANGED <<todo, tx, recorded, applied>>

\* A statement fails for whatever reason, or the process dies.
Stop(r) ==
    /\ pc[r] \in Running
    /\ Fail(r)
    /\ UNCHANGED <<todo, recorded, applied>>

\* Another runner was here first.
TooLate(r) ==
    \/ pc[r] = "recording" /\ tx[r] \in recorded
    \/ /\ pc[r] = "applying"
       /\ \E f \in Files \ Repeatable : IsNext(r, f) /\ Unlocked(r, f) /\ applied[f] # 0

\* Mutant of Refused: the file is tried again.
BugTriesAgain(r) ==
    /\ TooLate(r)
    /\ Goto(r, "applying")
    /\ tx' = [tx EXCEPT ![r] = 0]
    /\ UNCHANGED <<todo, recorded, applied>>

\* A statement that has to fail.
Refused(r) ==
    /\ TooLate(r)
    /\ Fail(r)
    /\ UNCHANGED <<todo, recorded, applied>>
-----------------------------------------------------------------------------
Step(r) ==
    \/ CreateTable(r) \/ ReadApplied(r)
    \/ (\E f \in Files : Apply(r, f)) \/ Refused(r)
    \/ Record(r) \/ Commit(r)
    \/ Finish(r)

Next == \E r \in Runners : Start(r) \/ Step(r) \/ CommitUnheard(r) \/ Stop(r)

\* A run that can go on does; one that waits for a transaction goes on when it
\* ends, before anybody who comes later (Postgres queues them).  Nobody has to
\* start a run, and nothing has to fail.
Fairness ==
    \A r \in Runners :
        /\ WF_vars(Step(r))
        /\ SF_vars(\E f \in Files : Apply(r, f))

Spec == Init /\ [][Next]_vars /\ Fairness
-----------------------------------------------------------------------------
(* Properties                                                              *)

TypeOK ==
    /\ pc \in [Runners -> Running \cup {"idle", "failed", "done"}]
    /\ todo \in [Runners -> SUBSET Files]
    /\ tx \in [Runners -> Files \cup {0}]
    /\ \A r \in Runners : tx[r] # 0 <=> pc[r] \in {"recording", "committing"}
    /\ recorded \subseteq Files
    /\ applied \in [Files -> Nat]

\* A file has been applied when schema_migrations says so, and then once, also
\* when runners race and fail half-way and when its statements could be repeated
\* (the package comment: "applied once, in lexical order, inside a transaction,
\* and recorded").
AppliedOnce == \A f \in Files : applied[f] = IF f \in recorded THEN 1 ELSE 0

UpToDate == \A r \in Runners : pc[r] = "done" => Embedded(r) \subseteq recorded

NoGap == \A f \in recorded : \A g \in Files : g <= f => g \in recorded

\* Files are applied in order: no build, old or new, leaves a gap before a file
\* that another has applied, and a runner that reports "up to date" has found
\* or applied all the files of its build.
InOrder == NoGap /\ UpToDate

\* No runner waits for another for ever: a run ends.
RunsEnd == \A r \in Runners : pc[r] \in Running ~> pc[r] \in {"failed", "done"}
=============================================================================
