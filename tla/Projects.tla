------------------------------- MODULE Projects -------------------------------
(***************************************************************************)
(* Projects and the roles in them (internal/projects), which tunnels and   *)
(* the gateway ask for before they act on a project.                       *)
(*                                                                         *)
(* A project has one member, the user who created it, as its owner, in the *)
(* user's own workspace: the code inserts no other project_members row and *)
(* changes none.  A role that was read is therefore stale only when the    *)
(* project is gone.                                                        *)
(***************************************************************************)
CONSTANTS
    Users,      \* users; each names its workspace too
    Projects    \* project rows a behaviour may create

ASSUME ProjectConstants == Users \cap {"none", "deleted"} = {}

VARIABLE member \* member[p]: p's member, "none" before the row, "deleted" after

NoProjects == [p \in Projects |-> "none"]

Exists(p) == member[p] \in Users

\* A query without a row is ErrNotFound.
ProjectRole(u, p) == IF member[p] = u THEN "owner" ELSE "ErrNotFound"

\* Viewers do not open tunnels or delete them.
MayOpen(u, p) == ProjectRole(u, p) \notin {"viewer", "ErrNotFound"}

MayDelete(u, p) == ProjectRole(u, p) \in {"owner", "admin"}

\* One transaction: the project and its owner's membership.
InsertProject(u, p) ==
    /\ member[p] = "none"
    /\ member' = [member EXCEPT ![p] = u]

RemoveProject(p) ==
    /\ Exists(p)
    /\ member' = [member EXCEPT ![p] = "deleted"]
=============================================================================
