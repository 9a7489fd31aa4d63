-------------------------- MODULE TenantReconcile --------------------------
(***************************************************************************)
(* One Tenant and what the Tenant controller keeps for it:                 *)
(* controllers/tenant_controller.go with controllers/tenant/ and           *)
(* controllers/gitrepo/utils.go.  The list of template files, rebuilt from *)
(* the Clusters that carry the Tenant's label and from the list before;    *)
(* the GitRepo that takes the list over; the Role that names the Clusters  *)
(* whose spec.tenantRef is the Tenant.  Label and owner reference follow   *)
(* spec.tenantRef by the Cluster controller, and only owners hear of a     *)
(* Cluster.                                                                *)
(*                                                                         *)
(* All reads are from informer caches.  Updates need the stored            *)
(* resourceVersion (tenantFresh, gitRepoFresh, roleFresh, objFresh); a     *)
(* conflict is an error for Role and GitRepo, and ends the reconciliation  *)
(* without one for the Tenant.  A Tenant has no finalizer.                 *)
(***************************************************************************)
EXTENDS FiniteSets

CONSTANTS
    Clusters,       \* names of Clusters, each with its class file
    PipelineFiles,  \* those of spec.compilePipeline, none if it is disabled
    CommonFile,     \* common.yml
    None

ASSUME FileAssumption == /\ PipelineFiles \cap Clusters = {}
                         /\ CommonFile \notin Clusters \cup PipelineFiles
                         /\ \A cs \in SUBSET Clusters : None # cs

VARIABLES
    clusters,       \* the stored objects
    tenant,
    gitRepo,
    role,
    clusterCache,   \* the informers' copies
    tenantCache,
    gitRepoCache,
    roleCache,
    tenantFresh,    \* does the copy carry the stored resourceVersion
    gitRepoFresh,
    roleFresh,
    queued,         \* is the Tenant in the queue of the controller
    pc,             \* what Reconcile does next
    obj,            \* its copy of the Tenant
    changed,        \* does obj differ from data.originalObject
    objFresh

store    == <<clusters, tenant, gitRepo, role>>
informer == <<clusterCache, tenantCache, gitRepoCache, roleCache,
              tenantFresh, gitRepoFresh, roleFresh>>
worker   == <<pc, obj, changed, objFresh>>
vars     == <<store, informer, queued, worker>>

-----------------------------------------------------------------------------
Files == Clusters \cup PipelineFiles \cup {CommonFile}

(* A key of TemplateFiles is missing, has contents or DeletionMagicString.  *)
TemplateFiles == [Files -> {"absent", "content", "delete"}]

NoFiles == [f \in Files |-> "absent"]

(* ref: spec.tenantRef is this Tenant; owned: label and owner reference are. *)
Cluster == [present : BOOLEAN, ref : BOOLEAN, owned : BOOLEAN]

NoCluster == [present |-> FALSE, ref |-> FALSE, owned |-> FALSE]

GitRepo == [present : BOOLEAN, files : TemplateFiles]

NewGitRepo(fs) == [present |-> TRUE, files |-> fs]

NoGitRepo == [NewGitRepo(NoFiles) EXCEPT !.present = FALSE]

Role == {None} \cup SUBSET Clusters     \* None: there is no Role

TypeOK ==
    /\ clusters \in [Clusters -> Cluster] /\ clusterCache \in [Clusters -> Cluster]
    /\ tenant \in TemplateFiles /\ tenantCache \in TemplateFiles /\ tenantFresh \in BOOLEAN
    /\ gitRepo \in GitRepo /\ gitRepoCache \in GitRepo /\ gitRepoFresh \in BOOLEAN
    /\ role \in Role /\ roleCache \in Role /\ roleFresh \in BOOLEAN
    /\ queued \in BOOLEAN
    /\ pc \in {"idle", "role", "gitRepo", "common"}
    /\ obj \in TemplateFiles /\ {changed, objFresh} \subseteq BOOLEAN
    \* a copy with the stored resourceVersion is a copy of what is stored
    /\ tenantFresh => tenantCache = tenant
    /\ gitRepoFresh => gitRepoCache = gitRepo
    /\ roleFresh => roleCache = role
    /\ objFresh => changed = (obj # tenant)

(* The Tenant was just created.                                             *)
Init ==
    /\ clusters = [c \in Clusters |-> NoCluster] /\ clusterCache = clusters
    /\ tenant = NoFiles /\ tenantCache = tenant /\ tenantFresh = TRUE
    /\ gitRepo = NoGitRepo /\ gitRepoCache = gitRepo /\ gitRepoFresh = TRUE
    /\ role = None /\ roleCache = None /\ roleFresh = TRUE
    /\ queued = TRUE
    /\ pc = "idle" /\ obj = NoFiles /\ changed = FALSE /\ objFresh = FALSE

-----------------------------------------------------------------------------
WriteTenant(t) == tenant' = t /\ tenantFresh' = FALSE

WriteGitRepo(g) == gitRepo' = g /\ gitRepoFresh' = FALSE

WriteRole(r) == role' = r /\ roleFresh' = FALSE

Idle == pc' = "idle" /\ obj' = NoFiles /\ changed' = FALSE /\ objFresh' = FALSE

EndOk == Idle /\ UNCHANGED queued

(* Mutant: an error does not put the Tenant back.                           *)
EndWithErrorSwallowed == EndOk

EndWithError == Idle /\ queued' = TRUE

Owned(cs) == {c \in Clusters : cs[c].present /\ cs[c].owned}

(* Mutant: the Role is only ever added to.                                  *)
ReferringAdded(cs) ==
    {c \in Clusters : \/ cs[c].present /\ cs[c].ref
                      \/ roleCache # None /\ c \in roleCache}

Referring(cs) == {c \in Clusters : cs[c].present /\ cs[c].ref}

Kept(cs) == Owned(cs) \cup PipelineFiles \cup {CommonFile}

(* addDefaultClassFile, updateTenantGitRepo: what is no longer wanted is    *)
(* listed for deletion, also what was.                                      *)
WithFiles(t, cs) ==
    [f \in Files |-> IF f \in Kept(cs) THEN "content"
                     ELSE IF t[f] = "absent" THEN "absent" ELSE "delete"]

(* Mutant: the copy is taken for the stored version.                        *)
StartForced ==
    /\ pc = "idle" /\ queued /\ queued' = FALSE
    /\ obj' = WithFiles(tenantCache, clusterCache)
    /\ changed' = (obj' # tenantCache) /\ objFresh' = TRUE
    /\ pc' = "role"
    /\ UNCHANGED <<store, informer>>

Start ==
    /\ pc = "idle" /\ queued /\ queued' = FALSE
    /\ obj' = WithFiles(tenantCache, clusterCache)
    /\ changed' = (obj' # tenantCache) /\ objFresh' = tenantFresh
    /\ pc' = "role"
    /\ UNCHANGED <<store, informer>>

(* reconcileRole, by CreateOrUpdate from the cached Role.                   *)
ReconcileRole ==
    /\ pc = "role"
    /\ LET names   == Referring(clusterCache)
           allowed == IF roleCache = None THEN role = None ELSE roleFresh IN
       \/ /\ roleCache = names
          /\ pc' = "gitRepo"
          /\ UNCHANGED <<role, roleFresh, queued, obj, changed, objFresh>>
       \/ /\ roleCache # names /\ allowed
          /\ WriteRole(names)
          /\ pc' = "gitRepo" /\ UNCHANGED <<queued, obj, changed, objFresh>>
       \/ /\ roleCache # names /\ ~allowed
          /\ EndWithError /\ UNCHANGED <<role, roleFresh>>
    /\ UNCHANGED <<clusters, tenant, gitRepo, clusterCache, tenantCache,
                   gitRepoCache, roleCache, tenantFresh, gitRepoFresh>>

(* gitrepo.CreateOrUpdate, from the cached GitRepo.                         *)
CreateOrUpdateGitRepo ==
    /\ pc = "gitRepo"
    /\ LET equal   == gitRepoCache.present /\ gitRepoCache.files = obj
           allowed == IF gitRepoCache.present THEN gitRepoFresh ELSE ~gitRepo.present IN
       \/ /\ equal
          /\ pc' = "common"
          /\ UNCHANGED <<gitRepo, gitRepoFresh, queued, obj, changed, objFresh>>
       \/ /\ ~equal /\ allowed
          /\ WriteGitRepo(NewGitRepo(obj))
          /\ pc' = "common" /\ UNCHANGED <<queued, obj, changed, objFresh>>
       \/ /\ ~equal /\ ~allowed
          /\ EndWithError /\ UNCHANGED <<gitRepo, gitRepoFresh>>
    /\ UNCHANGED <<clusters, tenant, role, clusterCache, tenantCache,
                   gitRepoCache, roleCache, tenantFresh, roleFresh>>

(* Mutant: the Tenant is patched, whatever version is stored.               *)
UpdateTenantBlindly ==
    /\ pc = "common"
    /\ WriteTenant(obj)
    /\ EndOk
    /\ UNCHANGED <<clusters, gitRepo, role, clusterCache, tenantCache,
                   gitRepoCache, roleCache, gitRepoFresh, roleFresh>>

(* updateObject: a conflict is not an error.  The url that                  *)
(* UpdateURLAndHostKeys copies from the GitRepo is left out.                *)
UpdateTenant ==
    /\ pc = "common"
    /\ \/ /\ changed /\ objFresh
          /\ WriteTenant(obj)
       \/ /\ ~(changed /\ objFresh)
          /\ UNCHANGED <<tenant, tenantFresh>>
    /\ EndOk
    /\ UNCHANGED <<clusters, gitRepo, role, clusterCache, tenantCache,
                   gitRepoCache, roleCache, gitRepoFresh, roleFresh>>

-----------------------------------------------------------------------------
(* SetupWithManager: the Tenant, what it owns, and the TenantTemplate.      *)

DeliverTenant ==
    /\ ~tenantFresh
    /\ tenantCache' = tenant /\ tenantFresh' = TRUE /\ queued' = TRUE
    /\ UNCHANGED <<store, clusterCache, gitRepoCache, roleCache,
                   gitRepoFresh, roleFresh, worker>>

DeliverGitRepo ==
    /\ ~gitRepoFresh
    /\ gitRepoCache' = gitRepo /\ gitRepoFresh' = TRUE /\ queued' = TRUE
    /\ UNCHANGED <<store, clusterCache, tenantCache, roleCache,
                   tenantFresh, roleFresh, worker>>

DeliverRole ==
    /\ ~roleFresh
    /\ roleCache' = role /\ roleFresh' = TRUE /\ queued' = TRUE
    /\ UNCHANGED <<store, clusterCache, tenantCache, gitRepoCache,
                   tenantFresh, gitRepoFresh, worker>>

(* Mutant: only the owner in the copy before is told.                       *)
DeliverClusterToOwnerBefore(c) ==
    /\ clusterCache[c] # clusters[c]
    /\ clusterCache' = [clusterCache EXCEPT ![c] = clusters[c]]
    /\ queued' = (queued \/ clusterCache[c].owned)
    /\ UNCHANGED <<store, tenantCache, gitRepoCache, roleCache,
                   tenantFresh, gitRepoFresh, roleFresh, worker>>

(* The owner in the copy before and the owner in the copy after are told.   *)
DeliverCluster(c) ==
    /\ clusterCache[c] # clusters[c]
    /\ clusterCache' = [clusterCache EXCEPT ![c] = clusters[c]]
    /\ queued' = (queued \/ clusterCache[c].owned \/ clusters[c].owned)
    /\ UNCHANGED <<store, tenantCache, gitRepoCache, roleCache,
                   tenantFresh, gitRepoFresh, roleFresh, worker>>

TenantTemplateChanges ==
    /\ ~queued /\ queued' = TRUE
    /\ UNCHANGED <<store, informer, worker>>

(* External: the informers hand what they hold to the watches again, every  *)
(* ten hours by default, and no predicate of SetupWithManager drops it.     *)
Resync ==
    /\ ~queued /\ queued' = TRUE
    /\ UNCHANGED <<store, informer, worker>>

CallFails ==
    /\ pc # "idle" /\ EndWithError
    /\ UNCHANGED <<store, informer>>

Crash ==
    /\ Idle /\ queued' = TRUE
    /\ clusterCache' = clusters /\ tenantCache' = tenant
    /\ gitRepoCache' = gitRepo /\ roleCache' = role
    /\ tenantFresh' = TRUE /\ gitRepoFresh' = TRUE /\ roleFresh' = TRUE
    /\ UNCHANGED store

-----------------------------------------------------------------------------
(* The other controllers and users.                                         *)

Elsewhere == UNCHANGED <<clusterCache, tenantCache, gitRepoCache, roleCache,
                         queued, pc, obj, changed>>

WriteCluster(c, o) ==
    /\ o # clusters[c]
    /\ clusters' = [clusters EXCEPT ![c] = o]
    /\ UNCHANGED <<tenant, gitRepo, role, tenantFresh, gitRepoFresh, roleFresh, objFresh>>
    /\ Elsewhere

(* setTenantOwner and AddTenantLabel in the Cluster controller.             *)
SetOwner(c) ==
    /\ clusters[c].present
    /\ WriteCluster(c, [clusters[c] EXCEPT !.owned = clusters[c].ref])

CreateCluster(c) ==
    /\ ~clusters[c].present
    /\ \E r \in BOOLEAN :
           WriteCluster(c, [present |-> TRUE, ref |-> r, owned |-> FALSE])

MoveCluster(c) ==
    /\ clusters[c].present
    /\ WriteCluster(c, [clusters[c] EXCEPT !.ref = ~@])

DeleteCluster(c) == WriteCluster(c, NoCluster)

DeleteGitRepo ==
    /\ gitRepo.present /\ WriteGitRepo(NoGitRepo)
    /\ UNCHANGED <<clusters, tenant, role, tenantFresh, roleFresh, objFresh>>
    /\ Elsewhere

DeleteRole ==
    /\ role # None /\ WriteRole(None)
    /\ UNCHANGED <<clusters, tenant, gitRepo, tenantFresh, gitRepoFresh, objFresh>>
    /\ Elsewhere

(* Another field changes, as the compile pipeline controller's variables do. *)
EditTenant ==
    /\ tenantFresh \/ objFresh
    /\ WriteTenant(tenant) /\ objFresh' = FALSE
    /\ UNCHANGED <<clusters, gitRepo, role, gitRepoFresh, roleFresh>>
    /\ Elsewhere

-----------------------------------------------------------------------------
Reconcile == ReconcileRole \/ CreateOrUpdateGitRepo \/ UpdateTenant

System ==
    \/ Start \/ Reconcile
    \/ DeliverTenant \/ DeliverGitRepo \/ DeliverRole \/ Resync
    \/ \E c \in Clusters : DeliverCluster(c) \/ SetOwner(c)

Fault == CallFails \/ Crash

Environment ==
    \/ \E c \in Clusters : CreateCluster(c) \/ MoveCluster(c) \/ DeleteCluster(c)
    \/ DeleteGitRepo \/ DeleteRole \/ EditTenant \/ TenantTemplateChanges

Next == System \/ Fault \/ Environment

Spec == Init /\ [][Next]_vars

(* The worker goes on, watches deliver, the other controllers do their part; *)
(* no resync is counted on.                                                 *)
FairSpec ==
    /\ Spec
    /\ WF_vars(Start) /\ WF_vars(Reconcile)
    /\ WF_vars(DeliverTenant) /\ WF_vars(DeliverGitRepo) /\ WF_vars(DeliverRole)
    /\ \A c \in Clusters : WF_vars(DeliverCluster(c)) /\ WF_vars(SetOwner(c))

-----------------------------------------------------------------------------
(* A file that the Tenant once listed stays listed, if only for deletion,   *)
(* although every reconciliation rebuilds the list from cached copies and   *)
(* drops the rest (updateTenantGitRepo, updateObject): only a listed file   *)
(* is ever removed from the repository.                                     *)
ListedStaysListed ==
    [][\A f \in Files : tenant[f] # "absent" => tenant'[f] # "absent"]_vars

Members == {c \in Clusters : clusters[c].present /\ clusters[c].ref}

RoleCoversMembers == role # None /\ Members \subseteq role

FilesInStep ==
    {f \in Files : gitRepo.present /\ gitRepo.files[f] = "content"}
        = Members \cup PipelineFiles \cup {CommonFile}

(* Nobody has anything left to do: the queue is empty, every watch has      *)
(* delivered and the Cluster controller has set every owner.                *)
AtRest ==
    /\ pc = "idle" /\ ~queued
    /\ tenantFresh /\ gitRepoFresh /\ roleFresh /\ clusterCache = clusters
    /\ \A c \in Clusters : clusters[c].present => clusters[c].owned = clusters[c].ref

(* No work is ever lost: a Tenant that nobody will look at again is in      *)
(* step.  Every conflict that updateObject swallows, every write from an    *)
(* outdated copy and every Cluster that changes hands leaves something to   *)
(* be delivered that puts the Tenant back (SetupWithManager).               *)
AtRestInStep == AtRest => RoleCoversMembers /\ FilesInStep

Quiet == <>[][System]_vars

(* The Role comes to name every Cluster of the Tenant, although a change of *)
(* spec.tenantRef never tells the Tenant that gains the Cluster             *)
(* (reconcileRole, SetupWithManager).                                       *)
RoleNamesMembers == Quiet => <>[]RoleCoversMembers

(* Nor does it keep the name of another Cluster, as long as the informers   *)
(* resync: a Cluster that went or moved before the Tenant owned it tells    *)
(* the Tenant nothing, so the name stays until then (reconcileRole,         *)
(* SetupWithManager).                                                       *)
RoleDropsOthers ==
    Quiet /\ WF_vars(Resync) => <>[](role # None /\ role \subseteq Members)

(* The GitRepo comes to have a class file for exactly the Clusters of the   *)
(* Tenant and the pipeline files exactly when enabled, although a conflict  *)
(* of the Tenant is swallowed and the GitRepo is written before it.         *)
FilesGetInStep == Quiet => <>[]FilesInStep
=============================================================================
