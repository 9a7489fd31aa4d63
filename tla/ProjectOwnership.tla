------------------------- MODULE ProjectOwnership -------------------------
(***************************************************************************)
(* What the operator promises the owners of GitLab projects, without the   *)
(* caches, versions and steps by which GitRepoLifecycle keeps it:          *)
(*                                                                         *)
(*   - a project is made only for a GitRepo that claims its path, or for   *)
(*     one that is gone by then;                                           *)
(*   - as long as it is there, its GitRepo keeps the claim;                *)
(*   - a project of someone else is managed, archived or removed only for  *)
(*     a GitRepo that may adopt it or contends for its path, and nobody    *)
(*     begins to contend for what is there, unless to adopt it;            *)
(*   - a project is archived or removed only under the policy that says    *)
(*     so;                                                                 *)
(*   - nobody but the operator makes or withdraws a claim, and a GitRepo   *)
(*     that goes takes its claim along and leaves the project to nobody.   *)
(***************************************************************************)
CONSTANTS GitRepos, Foreign, None

VARIABLES
    project,    \* the project at the path: exists, owner, predates, managed, archived
    claims,     \* the GitRepos that claim the path
    contenders, \* those whose claim is stored, remembered or on its way
    adopters,   \* those that may adopt what they find
    task,       \* what the operator is at; it moves whenever the operator acts
    actor,      \* the GitRepo it works for
    policy      \* the deletion policy it works under

hand == <<adopters, task, actor, policy>>
vars == <<project, claims, contenders, hand>>

-----------------------------------------------------------------------------
Nothing == [exists |-> FALSE, owner |-> None, predates |-> FALSE,
            managed |-> FALSE, archived |-> FALSE]

Fresh(o, p) == [Nothing EXCEPT !.exists = TRUE, !.owner = o, !.predates = p]

Init == project = Nothing /\ claims = {} /\ contenders = {}

-----------------------------------------------------------------------------
(* The operator.                                                            *)

MayTouch ==
    /\ project.exists
    /\ project.owner = Foreign => actor \in contenders \cup adopters

Claim(r) == claims' = claims \cup {r} /\ UNCHANGED project

Withdraw(r) ==
    /\ ~(project.exists /\ project.owner = r)
    /\ claims' = claims \ {r} /\ UNCHANGED project

Make ==
    /\ ~project.exists
    /\ \E o \in claims \cup {None} : project' = Fresh(o, FALSE)
    /\ UNCHANGED claims

Manage ==
    /\ MayTouch
    /\ project' = [project EXCEPT !.managed = TRUE, !.predates = FALSE]
    /\ UNCHANGED claims

Archive ==
    /\ MayTouch /\ policy = "Archive"
    /\ project' = [project EXCEPT !.archived = TRUE]
    /\ UNCHANGED claims

Remove ==
    /\ MayTouch /\ policy = "Delete"
    /\ project' = Nothing
    /\ UNCHANGED claims

-----------------------------------------------------------------------------
(* The operator or anyone else: the last write of a GitRepo that goes.      *)

Leave(r) ==
    /\ claims' = claims \ {r}
    /\ project' = IF project.owner = r THEN [project EXCEPT !.owner = None] ELSE project

(* Others.                                                                  *)

ForeignMake ==
    /\ ~project.exists
    /\ \E p \in BOOLEAN : (p => claims = {}) /\ project' = Fresh(Foreign, p)
    /\ UNCHANGED claims

ForeignRemove == project' = Nothing /\ UNCHANGED claims

-----------------------------------------------------------------------------
Operator ==
    \/ Make \/ Manage \/ Archive \/ Remove
    \/ \E r \in GitRepos : Claim(r) \/ Withdraw(r) \/ Leave(r)

Others ==
    \/ ForeignMake \/ ForeignRemove
    \/ \E r \in GitRepos : Leave(r)

Next ==
    \/ task' # task /\ Operator
    \/ UNCHANGED hand /\ Others
    \/ UNCHANGED <<project, claims>>   \* the operator turns to something else

(* Nobody begins to contend for a project that someone else has made.       *)
LateContender ==
    /\ project.exists /\ project.owner = Foreign
    /\ ~(contenders' \subseteq contenders \cup adopters)

Spec == Init /\ [][Next /\ ~LateContender]_vars
=============================================================================
