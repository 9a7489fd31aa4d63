------------------------- MODULE GitRepoLifecycle -------------------------
(***************************************************************************)
(* The life of the GitRepo objects that name one GitLab project, as the    *)
(* GitRepo controller drives it: controllers/gitrepo_controller.go with    *)
(* controllers/gitrepo/steps.go, pipeline/steps.go and the project calls   *)
(* of git/gitlab/gitlab.go.                                                *)
(*                                                                         *)
(* The controller is one worker.  It reads a GitRepo from an informer      *)
(* cache that may lag behind the API server, and its writes are accepted   *)
(* only when the resourceVersion it read is still the stored one.  One     *)
(* action is the code between two calls that leave the process, so every   *)
(* other actor may act between any two calls.                              *)
(*                                                                         *)
(* A resourceVersion is modelled by what is ever asked of it: is the copy  *)
(* in the cache (cacheFresh), or in the worker's hands (objFresh), the     *)
(* version that is stored now.  status.url is a boolean: does it equal the *)
(* FullURL of the project.  A template's content is not modelled here,     *)
(* only the fields that decide about the life of the project.              *)
(***************************************************************************)
EXTENDS Naturals, FiniteSets

CONSTANTS
    GitRepos,               \* names of the GitRepo objects; all name one project
    Foreign,                \* owner of a project that Lieutenant did not create
    None,                   \* no GitRepo, no template, no owner
    Specs,                  \* the GitRepo specs that users and templates use
    Templates,              \* what the owning Tenant or Cluster may ask for
    ProtectionEdits,        \* what users write into the annotation
    UseDeletionProtection,  \* LIEUTENANT_DELETE_PROTECTION
    PartialCreate           \* may creation fail after the project was created

RepoSpec == [type     : {"auto", "unmanaged"},
             creation : {"Create", "Adopt"},             \* "" behaves as Create
             deletion : {"Delete", "Archive", "Retain"}] \* "" behaves as Retain

ASSUME SpecsAssumption    == Specs \subseteq RepoSpec /\ Specs # {}
ASSUME TemplateAssumption == Templates \subseteq Specs \cup {None} /\ Templates # {}
ASSUME NameAssumption     == /\ None \notin GitRepos /\ Foreign \notin GitRepos
                             /\ None # Foreign
                             /\ None \notin Specs
ASSUME OptionAssumption   == /\ UseDeletionProtection \in BOOLEAN
                             /\ PartialCreate \in BOOLEAN
                             /\ ProtectionEdits \subseteq {"none", "true", "false"}

VARIABLES
    api,         \* the stored GitRepo objects
    template,    \* the gitRepoTemplate of the Tenant or Cluster of the same name
    project,     \* the GitLab project at the path the GitRepos name
    cache,       \* the informer's copy of api
    cacheFresh,  \* cache[r] carries the stored resourceVersion
    queue,       \* the workqueue of the controller
    pc,          \* what Reconcile does next
    cur,         \* the GitRepo it reconciles
    obj,         \* its copy of that object (`instance`)
    orig,        \* data.originalObject
    objFresh,    \* obj carries the stored resourceVersion
    policy,      \* RepoOptions.DeletionPolicy, fixed when the client was made
    handle       \* g.project names the project that exists now

store    == <<api, template>>
informer == <<cache, cacheFresh, queue>>
worker   == <<pc, cur, obj, orig, objFresh, policy, handle>>
vars     == <<store, project, informer, worker>>

-----------------------------------------------------------------------------
(* Objects and projects.                                                    *)

Phases      == {"none", "creating", "created", "failed"}
Protections == {"none", "true", "false"}   \* an unparsable value counts as true
Steps       == {"idle", "read", "claim", "create", "manage", "remove",
                "repoError", "common", "status"}

Object == [present : BOOLEAN, deleting : BOOLEAN, finalizer : BOOLEAN,
           protection : Protections, spec : Specs, url : BOOLEAN, phase : Phases]

NewObject(s) == [present |-> TRUE, deleting |-> FALSE, finalizer |-> FALSE,
                 protection |-> "none", spec |-> s, url |-> FALSE, phase |-> "none"]

NoObject == [NewObject(CHOOSE s \in Specs : TRUE) EXCEPT !.present = FALSE]

(* owner is the GitRepo whose claim led to the creation of the project,     *)
(* None once that object is gone.  predates is history: no GitRepo's claim  *)
(* was stored when the project came to be, and no GitRepo has managed it.   *)
Project == [exists : BOOLEAN, owner : GitRepos \cup {Foreign, None},
            predates : BOOLEAN, managed : BOOLEAN, archived : BOOLEAN]

NoProject == [exists |-> FALSE, owner |-> None, predates |-> FALSE,
              managed |-> FALSE, archived |-> FALSE]

NewProject(o, p) == [NoProject EXCEPT !.exists = TRUE, !.owner = o, !.predates = p]

(* What Update, CommitTemplateFiles, EnsureCIVariables and                  *)
(* EnsureProjectAccessToken do to a project, as far as this module tells.   *)
Managed(p) == [p EXCEPT !.managed = TRUE, !.predates = FALSE]

TypeOK ==
    /\ api \in [GitRepos -> Object] /\ cache \in [GitRepos -> Object]
    /\ template \in [GitRepos -> Templates]
    /\ cacheFresh \in [GitRepos -> BOOLEAN]
    /\ project \in Project
    /\ queue \subseteq GitRepos
    /\ pc \in Steps
    /\ cur \in GitRepos \cup {None}
    /\ pc # "idle" => cur \in GitRepos
    /\ obj \in Object /\ orig \in Object
    /\ objFresh \in BOOLEAN /\ handle \in BOOLEAN
    /\ policy \in {"Delete", "Archive", "Retain"}

Init ==
    /\ api = [r \in GitRepos |-> NoObject]
    /\ cache = api
    /\ template \in [GitRepos -> Templates]
    /\ cacheFresh = [r \in GitRepos |-> TRUE]
    /\ project = NoProject
    /\ queue = {}
    /\ pc = "idle" /\ cur = None
    /\ obj = NoObject /\ orig = NoObject
    /\ objFresh = FALSE /\ policy = "Retain" /\ handle = FALSE

-----------------------------------------------------------------------------
(* The API server.                                                          *)

(* An object that is being deleted goes away with its last finalizer.       *)
Settled(o) == IF o.deleting /\ ~o.finalizer THEN NoObject ELSE o

(* The project of an object that is gone belongs to nobody.                 *)
Released(p, r) == IF p.owner = r THEN [p EXCEPT !.owner = None] ELSE p

(* Store o under the name r.  A write that changes nothing keeps the        *)
(* resourceVersion.                                                         *)
Write(r, o) ==
    LET stored == Settled(o) IN
    /\ api' = [api EXCEPT ![r] = stored]
    /\ cacheFresh' = [cacheFresh EXCEPT ![r] = @ /\ stored = api[r]]
    /\ project' = IF stored.present THEN project ELSE Released(project, r)

(* A status update stores the status of o and nothing else of it.           *)
WithStatus(s, o) == [s EXCEPT !.url = o.url, !.phase = o.phase]

(* An update of the object leaves the stored status alone.                  *)
WithSpecAndMeta(s, o) == WithStatus(o, s)

-----------------------------------------------------------------------------
(* The ends of a reconciliation.                                            *)

Idle ==
    /\ pc' = "idle" /\ cur' = None
    /\ obj' = NoObject /\ orig' = NoObject
    /\ objFresh' = FALSE /\ policy' = "Retain" /\ handle' = FALSE

(* No error: RequeueAfter, which is the action Resync.                      *)
EndOk == Idle /\ UNCHANGED queue

(* An error that is reported as success.                                    *)
EndWithErrorSwallowed == Idle /\ UNCHANGED queue

(* The name is forgotten before it is put back.                             *)
EndWithErrorReset == Idle /\ queue' = queue \cup {cur'}

(* An error: the rate limiter puts the request back.                        *)
EndWithError == Idle /\ queue' = queue \cup {cur}

-----------------------------------------------------------------------------
(* One reconciliation.                                                      *)

(* fetchGitRepoTemplate: the owner's template replaces the spec in memory.  *)
Fetched(r) == IF template[r] = None THEN cache[r]
                                    ELSE [cache[r] EXCEPT !.spec = template[r]]

(* Reconcile up to the client for the project: the object from the cache,   *)
(* its copy, the deletion check, the template.  An unmanaged repository     *)
(* skips everything but Common.                                             *)
Start(r) ==
    /\ pc = "idle" /\ r \in queue
    /\ queue' = queue \ {r}
    /\ IF ~cache[r].present
       THEN UNCHANGED worker
       ELSE LET o == Fetched(r)
                managed == o.spec.type # "unmanaged" IN
            /\ cur' = r /\ obj' = o /\ orig' = cache[r]
            /\ objFresh' = cacheFresh[r]
            /\ policy' = IF managed THEN o.spec.deletion ELSE "Retain"
            /\ pc' = IF managed THEN "read" ELSE "common"
            /\ UNCHANGED handle
    /\ UNCHANGED <<store, project, cache, cacheFresh>>

(* Without the check that the project is this GitRepo's.                    *)
MayManageAny(o) == TRUE

(* An existing project is managed when the status already names it, or when *)
(* it may be adopted.                                                       *)
MayManage(o) == o.url \/ o.spec.creation = "Adopt"

FindProject ==
    /\ pc = "read" /\ project.exists /\ MayManage(obj)
    /\ pc' = IF obj.deleting THEN "remove" ELSE "manage"
    /\ handle' = TRUE
    /\ UNCHANGED <<store, project, informer, cur, obj, orig, objFresh, policy>>

RefuseProject ==
    /\ pc = "read" /\ project.exists /\ ~MayManage(obj)
    /\ IF obj.deleting THEN pc' = "common" /\ UNCHANGED obj
                       ELSE pc' = "repoError" /\ obj' = [obj EXCEPT !.phase = "failed"]
    /\ UNCHANGED <<store, project, informer, cur, orig, objFresh, policy, handle>>

(* Without the branch that creates what is missing, once it was created.    *)
MissClaimedProject ==
    /\ pc = "read" /\ ~project.exists
    /\ pc' = IF obj.url THEN "common" ELSE "claim"
    /\ UNCHANGED <<store, project, informer, cur, obj, orig, objFresh, policy, handle>>

MissProject ==
    /\ pc = "read" /\ ~project.exists
    /\ pc' = "claim"
    /\ UNCHANGED <<store, project, informer, cur, obj, orig, objFresh, policy, handle>>

(* The claim: status.url is stored before the project is created.  The      *)
(* answer of the server, with the stored spec, replaces the object.         *)
Claim ==
    /\ pc = "claim" /\ objFresh
    /\ LET claimed == [api[cur] EXCEPT !.url = TRUE, !.phase = "creating"] IN
       Write(cur, claimed) /\ obj' = claimed
    /\ pc' = "create"
    /\ UNCHANGED <<template, cache, queue, cur, orig, objFresh, policy, handle>>

ClaimConflicts ==
    /\ pc = "claim" /\ ~objFresh
    /\ EndWithError
    /\ UNCHANGED <<store, project, cache, cacheFresh>>

(* A project that is created for an object that is gone belongs to nobody.  *)
Owner == IF api[cur].url THEN cur ELSE None

CreateProject ==
    /\ pc = "create" /\ ~project.exists
    /\ project' = NewProject(Owner, FALSE)
    /\ pc' = IF obj.deleting THEN "remove" ELSE "manage"
    /\ handle' = TRUE
    /\ UNCHANGED <<store, informer, cur, obj, orig, objFresh, policy>>

(* GitLab refuses, or the call fails: the claim is taken back.              *)
RevertClaim ==
    /\ pc' = "repoError"
    /\ obj' = [obj EXCEPT !.url = FALSE, !.phase = "failed"]
    /\ UNCHANGED <<store, informer, cur, orig, objFresh, policy, handle>>

ProjectNameTaken ==
    /\ pc = "create" /\ project.exists
    /\ RevertClaim /\ UNCHANGED project

(* ensureAccessToken to Update: calls that name the project by its id.      *)
ManageProject ==
    /\ pc = "manage" /\ handle
    /\ project' = Managed(project)
    /\ obj' = [obj EXCEPT !.url = TRUE, !.phase = "created"]
    /\ pc' = "common"
    /\ UNCHANGED <<store, informer, cur, orig, objFresh, policy, handle>>

ManagedProjectGone ==
    /\ pc = "manage" /\ ~handle
    /\ pc' = "repoError"
    /\ UNCHANGED <<store, project, informer, cur, obj, orig, objFresh, policy, handle>>

(* A switch that forgets the policy Archive.                                *)
RemoveProjectNoArchive ==
    /\ pc = "remove"
    /\ project' = IF policy = "Delete" THEN NoProject ELSE project
    /\ handle' = (handle /\ policy # "Delete")
    /\ pc' = "common"
    /\ UNCHANGED <<store, informer, cur, obj, orig, objFresh, policy>>

(* The policy is not looked at.                                             *)
RemoveProjectAlways ==
    /\ pc = "remove" /\ project.exists
    /\ project' = NoProject /\ handle' = FALSE
    /\ pc' = "common"
    /\ UNCHANGED <<store, informer, cur, obj, orig, objFresh, policy>>

(* Remove looks the project up once more, by its path.                      *)
RemoveProject ==
    /\ pc = "remove" /\ (policy = "Retain" \/ project.exists)
    /\ project' = CASE policy = "Delete"  -> NoProject
                    [] policy = "Archive" -> [project EXCEPT !.archived = TRUE]
                    [] policy = "Retain"  -> project
    /\ handle' = (handle /\ policy # "Delete")
    /\ pc' = "common"
    /\ UNCHANGED <<store, informer, cur, obj, orig, objFresh, policy>>

RemovedProjectGone ==
    /\ pc = "remove" /\ policy # "Retain" /\ ~project.exists
    /\ EndWithError
    /\ UNCHANGED <<store, project, cache, cacheFresh>>

(* handleRepoError with a patch that ignores the resourceVersion.           *)
HandleRepoErrorBlindly ==
    /\ pc = "repoError"
    /\ IF api[cur].present
       THEN Write(cur, WithStatus(api[cur], [obj EXCEPT !.phase = "failed"]))
       ELSE UNCHANGED <<api, project, cacheFresh>>
    /\ EndWithError
    /\ UNCHANGED <<template, cache>>

(* handleRepoError: the failure is stored when no one else has written.     *)
HandleRepoError ==
    /\ pc = "repoError"
    /\ IF objFresh
       THEN Write(cur, WithStatus(api[cur], [obj EXCEPT !.phase = "failed"]))
       ELSE UNCHANGED <<api, project, cacheFresh>>
    /\ EndWithError
    /\ UNCHANGED <<template, cache>>

-----------------------------------------------------------------------------
(* pipeline.Common.                                                         *)

Protected(o) == o.protection = "true"

HandleDeletionRefuses ==
    /\ pc = "common" /\ obj.deleting
    /\ Protected(obj) \/ ~obj.finalizer
    /\ EndWithError
    /\ UNCHANGED <<store, project, cache, cacheFresh>>

WithDeletionProtection(o) ==
    IF UseDeletionProtection /\ ~o.deleting /\ o.protection = "none"
    THEN [o EXCEPT !.protection = "true"] ELSE o

WithFinalizer(o) == [o EXCEPT !.finalizer = ~o.deleting]

(* updateObject, first half.  When the stored object is another version     *)
(* the update fails; a conflict is logged and the result that asks for a    *)
(* requeue is dropped by RunPipeline, as nothing aborts.                    *)
UpdateObject ==
    /\ pc = "common" /\ ~(obj.deleting /\ (Protected(obj) \/ ~obj.finalizer))
    /\ LET o == WithFinalizer(WithDeletionProtection(obj))
           changed == WithSpecAndMeta(orig, o) # orig IN
       \/ /\ ~changed
          /\ obj' = o /\ pc' = "status"
          /\ UNCHANGED <<api, project, cacheFresh, queue, cur, orig, objFresh,
                         policy, handle>>
       \/ /\ changed /\ objFresh
          /\ Write(cur, WithSpecAndMeta(api[cur], o))
          /\ obj' = o /\ pc' = "status"
          /\ objFresh' = (api'[cur] = api[cur])
          /\ UNCHANGED <<queue, cur, orig, policy, handle>>
       \/ /\ changed /\ ~objFresh
          /\ IF api[cur].present THEN EndOk ELSE EndWithError
          /\ UNCHANGED <<api, project, cacheFresh>>
    /\ UNCHANGED <<template, cache>>

(* updateObject, second half: the object in hand still carries the          *)
(* resourceVersion from before the first half.                              *)
UpdateStatus ==
    /\ pc = "status"
    /\ LET changed == WithStatus(orig, obj) # orig IN
       \/ /\ ~changed
          /\ EndOk /\ UNCHANGED <<api, project, cacheFresh>>
       \/ /\ changed /\ objFresh
          /\ Write(cur, WithStatus(api[cur], obj)) /\ EndOk
       \/ /\ changed /\ ~objFresh
          /\ IF api[cur].present THEN EndOk ELSE EndWithError
          /\ UNCHANGED <<api, project, cacheFresh>>
    /\ UNCHANGED <<template, cache>>

-----------------------------------------------------------------------------
(* The informer, and the timer of RequeueAfter.                             *)

Deliver(r) ==
    /\ ~cacheFresh[r]
    /\ cache' = [cache EXCEPT ![r] = api[r]]
    /\ cacheFresh' = [cacheFresh EXCEPT ![r] = TRUE]
    /\ queue' = queue \cup {r}
    /\ UNCHANGED <<store, project, worker>>

Resync(r) ==
    /\ r \notin queue /\ cache[r].present
    /\ queue' = queue \cup {r}
    /\ UNCHANGED <<store, project, cache, cacheFresh, worker>>

-----------------------------------------------------------------------------
(* Failures.                                                                *)

(* A call that fails without a trace in the status: the API secret cannot   *)
(* be read, GitLab does not answer Read or Remove, the API server does not  *)
(* answer the claim or the update.                                          *)
CallFails ==
    /\ pc \in {"read", "claim", "remove", "common", "status"}
    /\ EndWithError
    /\ UNCHANGED <<store, project, cache, cacheFresh>>

(* ensureGeneratedDeployKeys fails before the client is made.               *)
PrepareFails ==
    /\ pc = "read" /\ pc' = "repoError"
    /\ UNCHANGED <<store, project, informer, cur, obj, orig, objFresh, policy, handle>>

(* CreateProject fails, and nothing was created.                            *)
CreateFails ==
    /\ pc = "create" /\ RevertClaim /\ UNCHANGED project

(* The project was created, and its deploy keys were not, or the answer     *)
(* was lost.                                                                *)
CreatePartially ==
    /\ PartialCreate
    /\ pc = "create" /\ ~project.exists
    /\ RevertClaim /\ project' = NewProject(Owner, FALSE)

(* Some of the calls that manage the project worked, one failed.            *)
ManageFails ==
    /\ pc = "manage" /\ pc' = "repoError"
    /\ UNCHANGED project \/ (handle /\ project' = Managed(project))
    /\ UNCHANGED <<store, informer, cur, obj, orig, objFresh, policy, handle>>

(* The error that handleRepoError was to store is not stored.               *)
StoreErrorFails ==
    /\ pc = "repoError" /\ EndWithError
    /\ UNCHANGED <<store, project, cache, cacheFresh>>

(* The operator stops and starts again; the informer lists every object.    *)
Crash ==
    /\ Idle
    /\ cache' = api
    /\ cacheFresh' = [r \in GitRepos |-> TRUE]
    /\ queue' = {r \in GitRepos : api[r].present}
    /\ UNCHANGED <<store, project>>

-----------------------------------------------------------------------------
(* Everyone else: users, the Cluster and Tenant controllers, GitLab.        *)

(* Another writer stored o under the name r.                                *)
Edit(r, o) ==
    /\ o # api[r]
    /\ Write(r, o)
    /\ objFresh' = (objFresh /\ cur # r)
    /\ UNCHANGED <<template, cache, queue, pc, cur, obj, orig, policy, handle>>

CreateObject(r) ==
    ~api[r].present /\ \E s \in Specs : Edit(r, NewObject(s))

DeleteObject(r) ==
    api[r].present /\ Edit(r, [api[r] EXCEPT !.deleting = TRUE])

EditProtection(r) ==
    api[r].present /\ \E p \in ProtectionEdits : Edit(r, [api[r] EXCEPT !.protection = p])

EditSpec(r) ==
    api[r].present /\ \E s \in Specs : Edit(r, [api[r] EXCEPT !.spec = s])

EditTemplate(r) ==
    /\ \E t \in Templates \ {template[r]} : template' = [template EXCEPT ![r] = t]
    /\ UNCHANGED <<api, project, informer, worker>>

(* No GitRepo's claim to the path is stored: whoever looks at the API finds *)
(* nobody who asks for the project, not even one that is about to.          *)
NoClaimStored == \A r \in GitRepos : ~api[r].url

ForeignCreate ==
    /\ ~project.exists
    /\ project' = NewProject(Foreign, NoClaimStored)
    /\ UNCHANGED <<store, informer, worker>>

ForeignDelete ==
    /\ project.exists
    /\ project' = NoProject /\ handle' = FALSE
    /\ UNCHANGED <<store, informer, pc, cur, obj, orig, objFresh, policy>>

-----------------------------------------------------------------------------
Reconcile ==
    \/ FindProject \/ RefuseProject \/ MissProject
    \/ Claim \/ ClaimConflicts
    \/ CreateProject \/ ProjectNameTaken
    \/ ManageProject \/ ManagedProjectGone
    \/ RemoveProject \/ RemovedProjectGone
    \/ HandleRepoError
    \/ HandleDeletionRefuses \/ UpdateObject \/ UpdateStatus

Operator == Reconcile \/ \E r \in GitRepos : Start(r) \/ Deliver(r) \/ Resync(r)

Fault == \/ CallFails \/ PrepareFails \/ CreateFails \/ CreatePartially
         \/ ManageFails \/ StoreErrorFails \/ Crash

Environment ==
    \/ ForeignCreate \/ ForeignDelete
    \/ \E r \in GitRepos : \/ CreateObject(r) \/ DeleteObject(r) \/ EditProtection(r)
                           \/ EditSpec(r) \/ EditTemplate(r)

Next == Operator \/ Fault \/ Environment

Spec == Init /\ [][Next]_vars

(* The worker takes every next step of a reconciliation it has begun, the   *)
(* workqueue is first in, first out and the watch delivers.                 *)
WatchSpec ==
    /\ Spec
    /\ WF_vars(Reconcile)
    /\ \A r \in GitRepos : SF_vars(Start(r)) /\ WF_vars(Deliver(r))

(* The timer of RequeueAfter fires as well.                                 *)
TimerFires == \A r \in GitRepos : WF_vars(Resync(r))

-----------------------------------------------------------------------------
(* Safety.                                                                  *)

(* The GitRepos that contend for the path: they claim it in the store, in   *)
(* an outdated copy, or in the hands of the worker, or the worker found     *)
(* nothing at the path and is about to store their claim.                   *)
Contenders ==
    {r \in GitRepos : \/ api[r].url \/ cache[r].url
                      \/ cur = r /\ (obj.url \/ pc = "claim")}

(* GitRepos that may take over what they find.                              *)
Adopters == IF obj.spec.creation = "Adopt" THEN {cur} ELSE {}

(* A project that someone else made is changed only for a GitRepo that may  *)
(* adopt it or that contends for its path, and while it is there no other   *)
(* GitRepo begins to contend: not by a stale cache, a conflict, a crash or  *)
(* a retry.  So the only GitRepos that can take it without adoption are     *)
(* those whose claim was on its way when it appeared (steps.go, Read before *)
(* the status update before repo.Create, and the check of status.url).      *)
ForeignLeftToContenders ==
    [][project.exists /\ project.owner = Foreign
       => /\ Contenders' \subseteq Contenders \cup Adopters
          /\ project' # project /\ pc' # pc => cur \in Contenders \cup Adopters]_vars

(* Documented: creation policy Create will not manage already existing      *)
(* resources.  No step of the operator changes a project that was there     *)
(* before any claim was stored, unless the GitRepo at hand may adopt it     *)
(* (steps.go: Read, the status update, repo.Create and the revert).         *)
ExistingNotManaged ==
    [][project.exists /\ project.predates /\ project' # project /\ pc' # pc
       => obj.spec.creation = "Adopt"]_vars

(* The GitRepo for which a project was created keeps its claim to it,       *)
(* whatever other writers, stale caches and crashes do: only so will a      *)
(* later reconciliation manage or remove the project (steps.go, the status  *)
(* update before repo.Create and the revert after it).                      *)
OwnedStaysClaimed ==
    \A r \in GitRepos : project.exists /\ project.owner = r => api[r].url

(* When the finalizer of a GitRepo goes, the project it created, or manages *)
(* under its claim, has been treated as the deletion policy of this         *)
(* reconciliation says (gitlab.go Remove, before handleFinalizer).          *)
ReleasedAsDeclared ==
    [][\A r \in GitRepos :
        /\ pc = "common" /\ pc' = "status"
        /\ api[r].present /\ ~api'[r].present
        /\ project.exists
        /\ project.owner = r \/ (project.managed /\ api[r].url)
        => policy = "Retain" \/ (policy = "Archive" /\ project.archived)]_vars

(* Nobody looks at the GitRepo r, or will before something changes or the   *)
(* timer fires.                                                             *)
AtRest(r) == cur # r /\ r \notin queue /\ cacheFresh[r]

(* No work is ever lost: a GitRepo at rest is not being deleted, and has    *)
(* its finalizer, its protection and, unless it is unmanaged, the url and   *)
(* the status of a repository that was managed, although updateObject       *)
(* swallows conflicts, the claim is a write in the middle, and the status   *)
(* is written with the version that the update before it outdated.          *)
AtRestSettled ==
    \A r \in GitRepos :
        api[r].present /\ AtRest(r)
        => /\ ~api[r].deleting /\ api[r].finalizer
           /\ UseDeletionProtection => api[r].protection # "none"
           /\ \/ api[r].spec.type = "unmanaged"
              \/ api[r].url /\ api[r].phase = "created"

(* Documented: while the annotation says so, the object and what belongs to *)
(* it are safe.  The operator never touches the project of a GitRepo that   *)
(* is protected and being deleted.                                          *)
ProtectedProjectKept ==
    [][pc = "remove" /\ pc' = "common" /\ Protected(obj) => project' = project]_vars

-----------------------------------------------------------------------------
(* Refinement.                                                              *)

Ownership == INSTANCE ProjectOwnership
    WITH claims     <- {r \in GitRepos : api[r].url},
         contenders <- Contenders,
         adopters   <- Adopters,
         task       <- pc,
         actor      <- cur

(* What steps.go does to projects and to status.url, call by call, with     *)
(* outdated copies and conflicts, is what ProjectOwnership promises.        *)
KeepsOwnership == Ownership!Spec

-----------------------------------------------------------------------------
(* Liveness: once users, GitLab and the network leave it alone, the         *)
(* operator gets to where it should be and stays there.                     *)

Quiet == <>[][Operator]_vars

(* What the status and the metadata of a GitRepo come to.                   *)
SettledObject(o) ==
    IF o.deleting THEN Protected(o)
                  ELSE \/ o.finalizer /\ o.spec.type = "unmanaged"
                       \/ o.finalizer /\ o.url /\ o.phase = "created"
                       \/ o.phase = "failed"

(* Watch events and the retries of failed reconciliations suffice for the   *)
(* stored objects to settle: a conflict that updateObject swallows, after   *)
(* which nothing is put back into the queue, loses no work, and an object   *)
(* that is deleted and not protected goes away.                             *)
ObjectsSettle ==
    Quiet => <>[](\A r \in GitRepos : api[r].present => SettledObject(api[r]))

(* With the timer, a GitRepo that claims the project has one, and has       *)
(* managed it since it was created: a project deleted behind the operator's *)
(* back comes back.                                                         *)
ClaimedProjectsHeal ==
    TimerFires /\ Quiet =>
        <>[](\A r \in GitRepos :
                     /\ api[r].present /\ ~api[r].deleting /\ api[r].url
                     /\ Fetched(r).spec.type # "unmanaged"
                     => project.exists /\ project.managed)
=============================================================================
