---------------------- MODULE TenantReconcileProofs ----------------------
(***************************************************************************)
(* Theorems about TenantReconcile for all sets of Clusters and pipeline    *)
(* files: its type invariant, that a file once listed stays listed, and    *)
(* that no work is lost.                                                   *)
(***************************************************************************)
EXTENDS TenantReconcile, TLAPS

-----------------------------------------------------------------------------
(* Facts about the operators.                                               *)

(* What stands for no object is well typed.                                 *)
LEMMA NoObjectTypes ==
    /\ NoFiles \in TemplateFiles /\ NoGitRepo \in GitRepo /\ NoCluster \in Cluster
    /\ \A fs \in TemplateFiles : NewGitRepo(fs) \in GitRepo
BY DEF NoFiles, TemplateFiles, NoGitRepo, NewGitRepo, GitRepo, NoCluster, Cluster

(* The list is rebuilt from whatever Clusters are seen: it is a list, and   *)
(* what was listed is listed.                                               *)
LEMMA WithFilesKeeps ==
    ASSUME NEW t \in TemplateFiles, NEW cs
    PROVE  /\ WithFiles(t, cs) \in TemplateFiles
           /\ \A f \in Files : t[f] # "absent" => WithFiles(t, cs)[f] # "absent"
BY DEF WithFiles, TemplateFiles

(* The names for the Role are names of Clusters.                            *)
LEMMA RoleTypes ==
    ASSUME NEW cs
    PROVE  Referring(cs) \in Role /\ Referring(cs) # None
BY FileAssumption DEF Referring, Role

-----------------------------------------------------------------------------
(* Type correctness.                                                        *)

(* The Tenant was just created: every copy is a copy of what is stored.     *)
LEMMA InitType == Init => TypeOK
BY NoObjectTypes DEF Init, TypeOK, Role

(* The worker ends.                                                         *)
LEMMA IdleType ==
    ASSUME Idle
    PROVE  pc' = "idle" /\ obj' \in TemplateFiles /\ changed' = FALSE /\ objFresh' = FALSE
BY NoObjectTypes DEF Idle

(* An end of the reconciliation that leaves everything else alone.          *)
LEMMA EndType ==
    ASSUME TypeOK, Idle, queued' \in BOOLEAN, UNCHANGED <<store, informer>>
    PROVE  TypeOK'
BY IdleType DEF TypeOK, store, informer

(* A start: the copy in memory differs from the original exactly when       *)
(* changed is set, and the original is the stored Tenant if it is fresh.    *)
LEMMA StartType == TypeOK /\ Start => TypeOK'
<1> SUFFICES ASSUME TypeOK, Start PROVE TypeOK'
  OBVIOUS
<1>1. obj' \in TemplateFiles
  BY WithFilesKeeps DEF Start, TypeOK
<1>2. objFresh' => changed' = (obj' # tenant')
  BY DEF Start, TypeOK, store
<1>3. changed' \in BOOLEAN /\ objFresh' \in BOOLEAN
  BY DEF Start, TypeOK
<1> QED
  BY <1>1, <1>2, <1>3 DEF Start, TypeOK, store, informer

(* The steps of a reconciliation.                                           *)
LEMMA ReconcileType == TypeOK /\ Reconcile => TypeOK'
<1> SUFFICES ASSUME TypeOK, Reconcile PROVE TypeOK'
  OBVIOUS
<1>1. CASE ReconcileRole
  <2>0. WriteRole(Referring(clusterCache)) \/ UNCHANGED <<role, roleFresh>>
    BY <1>1 DEF ReconcileRole
  <2>1. role' \in Role /\ roleFresh' \in BOOLEAN /\ (roleFresh' => roleCache' = role')
    <3>1. CASE WriteRole(Referring(clusterCache))
      BY <3>1, RoleTypes DEF WriteRole
    <3>2. CASE UNCHANGED <<role, roleFresh>>
      BY <1>1, <3>2 DEF ReconcileRole, TypeOK
    <3> QED
      BY <2>0, <3>1, <3>2
  <2>2. CASE EndWithError
    BY <1>1, <2>1, <2>2, IdleType DEF ReconcileRole, EndWithError, TypeOK
  <2>3. CASE ~EndWithError
    BY <1>1, <2>1, <2>3 DEF ReconcileRole, TypeOK
  <2> QED
    BY <2>2, <2>3
<1>2. CASE CreateOrUpdateGitRepo
  <2>0. WriteGitRepo(NewGitRepo(obj)) \/ UNCHANGED <<gitRepo, gitRepoFresh>>
    BY <1>2 DEF CreateOrUpdateGitRepo
  <2>1. /\ gitRepo' \in GitRepo /\ gitRepoFresh' \in BOOLEAN
        /\ gitRepoFresh' => gitRepoCache' = gitRepo'
    <3>1. CASE WriteGitRepo(NewGitRepo(obj))
      BY <3>1, NoObjectTypes DEF WriteGitRepo, TypeOK
    <3>2. CASE UNCHANGED <<gitRepo, gitRepoFresh>>
      BY <1>2, <3>2 DEF CreateOrUpdateGitRepo, TypeOK
    <3> QED
      BY <2>0, <3>1, <3>2
  <2>2. CASE EndWithError
    BY <1>2, <2>1, <2>2, IdleType DEF CreateOrUpdateGitRepo, EndWithError, TypeOK
  <2>3. CASE ~EndWithError
    BY <1>2, <2>1, <2>3 DEF CreateOrUpdateGitRepo, TypeOK
  <2> QED
    BY <2>2, <2>3
<1>3. CASE UpdateTenant
  <2>1. Idle /\ queued' = queued
    BY <1>3 DEF UpdateTenant, EndOk
  <2>2. /\ tenant' \in TemplateFiles /\ tenantFresh' \in BOOLEAN
        /\ tenantFresh' => tenantCache' = tenant'
    <3>1. CASE WriteTenant(obj)
      BY <3>1 DEF WriteTenant, TypeOK
    <3>2. CASE UNCHANGED <<tenant, tenantFresh>>
      BY <1>3, <3>2 DEF UpdateTenant, TypeOK
    <3> QED
      BY <1>3, <3>1, <3>2 DEF UpdateTenant
  <2> QED
    BY <1>3, <2>1, <2>2, IdleType DEF UpdateTenant, TypeOK
<1> QED
  BY <1>1, <1>2, <1>3 DEF Reconcile

(* Watch events, errors and restarts.                                       *)
LEMMA DeliverType ==
    ASSUME TypeOK,
           \/ DeliverTenant \/ DeliverGitRepo \/ DeliverRole
           \/ \E c \in Clusters : DeliverCluster(c)
           \/ TenantTemplateChanges \/ Resync \/ CallFails \/ Crash
    PROVE  TypeOK'
<1>1. CASE DeliverTenant \/ DeliverGitRepo \/ DeliverRole
  <2>1. CASE DeliverTenant
    BY <2>1 DEF DeliverTenant, TypeOK, store, worker
  <2>2. CASE DeliverGitRepo
    BY <2>2 DEF DeliverGitRepo, TypeOK, store, worker
  <2>3. CASE DeliverRole
    BY <2>3 DEF DeliverRole, TypeOK, store, worker
  <2> QED
    BY <1>1, <2>1, <2>2, <2>3
<1>2. ASSUME NEW c \in Clusters, DeliverCluster(c) PROVE TypeOK'
  <2>1. clusterCache' \in [Clusters -> Cluster] /\ queued' \in BOOLEAN
    BY <1>2 DEF DeliverCluster, TypeOK, Cluster
  <2> QED
    BY <1>2, <2>1 DEF DeliverCluster, TypeOK, store, worker
<1>3. CASE TenantTemplateChanges \/ Resync
  <2>1. queued' = TRUE /\ UNCHANGED <<store, informer, worker>>
    BY <1>3 DEF TenantTemplateChanges, Resync
  <2> QED
    BY <2>1 DEF TypeOK, store, informer, worker
<1>4. CASE CallFails
  BY <1>4, EndType DEF CallFails, EndWithError
<1>5. CASE Crash
  BY <1>5, IdleType DEF Crash, TypeOK, store
<1> QED
  BY <1>1, <1>2, <1>3, <1>4, <1>5

(* The other controllers and users.                                         *)
LEMMA EnvironmentType ==
    ASSUME TypeOK,
           \/ \E c \in Clusters : \/ SetOwner(c) \/ CreateCluster(c)
                                  \/ MoveCluster(c) \/ DeleteCluster(c)
           \/ DeleteGitRepo \/ DeleteRole \/ EditTenant
    PROVE  TypeOK'
<1>1. ASSUME NEW c \in Clusters, NEW o \in Cluster, WriteCluster(c, o) PROVE TypeOK'
  <2>1. clusters' \in [Clusters -> Cluster]
    BY <1>1 DEF WriteCluster, TypeOK
  <2> QED
    BY <1>1, <2>1 DEF WriteCluster, Elsewhere, TypeOK
<1>2. ASSUME NEW c \in Clusters
      PROVE  /\ clusters[c] \in Cluster
             /\ [clusters[c] EXCEPT !.owned = clusters[c].ref] \in Cluster
             /\ [clusters[c] EXCEPT !.ref = ~@] \in Cluster
             /\ \A r \in BOOLEAN : [present |-> TRUE, ref |-> r, owned |-> FALSE] \in Cluster
  BY DEF TypeOK, Cluster
<1>3. ASSUME NEW c \in Clusters,
             SetOwner(c) \/ CreateCluster(c) \/ MoveCluster(c) \/ DeleteCluster(c)
      PROVE  TypeOK'
  <2>1. \E o \in Cluster : WriteCluster(c, o)
    BY <1>2, <1>3, NoObjectTypes DEF SetOwner, CreateCluster, MoveCluster, DeleteCluster
  <2> QED
    BY <1>1, <2>1
<1>4. CASE DeleteGitRepo
  BY <1>4, NoObjectTypes DEF DeleteGitRepo, WriteGitRepo, Elsewhere, TypeOK
<1>5. CASE DeleteRole
  BY <1>5 DEF DeleteRole, WriteRole, Elsewhere, TypeOK, Role
<1>6. CASE EditTenant
  BY <1>6 DEF EditTenant, WriteTenant, Elsewhere, TypeOK
<1> QED
  BY <1>3, <1>4, <1>5, <1>6

(* Every step keeps the types.                                              *)
LEMMA NextType == TypeOK /\ [Next]_vars => TypeOK'
<1> SUFFICES ASSUME TypeOK, [Next]_vars PROVE TypeOK'
  OBVIOUS
<1>1. CASE UNCHANGED vars
  BY <1>1 DEF vars, store, informer, worker, TypeOK
<1>2. CASE Start \/ Reconcile
  BY <1>2, StartType, ReconcileType
<1>3. CASE \/ DeliverTenant \/ DeliverGitRepo \/ DeliverRole
           \/ \E c \in Clusters : DeliverCluster(c)
           \/ TenantTemplateChanges \/ Resync \/ Fault
  BY <1>3, DeliverType DEF Fault
<1>4. CASE \/ \E c \in Clusters : \/ SetOwner(c) \/ CreateCluster(c)
                                  \/ MoveCluster(c) \/ DeleteCluster(c)
           \/ DeleteGitRepo \/ DeleteRole \/ EditTenant
  BY <1>4, EnvironmentType
<1> QED
  BY <1>1, <1>2, <1>3, <1>4 DEF Next, System, Environment

(* Every object, cache and copy in memory has its type, and whatever        *)
(* carries the stored resourceVersion is a copy of what is stored: that is  *)
(* why the API server's refusal of old versions is enough                   *)
(* (tenant_controller.go, updateObject, CreateOrUpdate).                    *)
THEOREM TenantTypeCorrect == Spec => []TypeOK
<1>1. Init => TypeOK
  BY InitType
<1>2. TypeOK /\ [Next]_vars => TypeOK'
  BY NextType
<1> QED
  BY <1>1, <1>2, PTL DEF Spec

-----------------------------------------------------------------------------
(* The listed files.  A reconciliation that may still store its copy of the *)
(* Tenant read the Tenant that is stored, and rebuilding the list dropped   *)
(* nothing of it.                                                           *)
ListInv ==
    objFresh => \A f \in Files : tenant[f] # "absent" => obj[f] # "absent"

(* The invariant and the property of a step, by how the Tenant is written.  *)
LEMMA ListStep ==
    ASSUME TypeOK, ListInv, [Next]_vars
    PROVE  /\ ListInv'
           /\ \A f \in Files : tenant[f] # "absent" => tenant'[f] # "absent"
<1>1. CASE Start
  <2>1. obj' = WithFiles(tenantCache, clusterCache) /\ objFresh' = tenantFresh
        /\ tenant' = tenant
    BY <1>1 DEF Start, store
  <2>2. tenantCache \in TemplateFiles /\ (tenantFresh => tenantCache = tenant)
    BY DEF TypeOK
  <2> QED
    BY <2>1, <2>2, WithFilesKeeps DEF ListInv
<1>2. CASE UpdateTenant
  <2>1. ~objFresh'
    BY <1>2 DEF UpdateTenant, EndOk, Idle
  <2>2. tenant' = tenant \/ (objFresh /\ tenant' = obj)
    BY <1>2 DEF UpdateTenant, WriteTenant
  <2> QED
    BY <2>1, <2>2 DEF ListInv
<1>3. CASE EditTenant
  BY <1>3 DEF EditTenant, WriteTenant, ListInv
<1>4. CASE \/ ReconcileRole \/ CreateOrUpdateGitRepo
           \/ DeliverTenant \/ DeliverGitRepo \/ DeliverRole
           \/ \E c \in Clusters : DeliverCluster(c)
           \/ TenantTemplateChanges \/ Resync \/ CallFails \/ Crash
           \/ UNCHANGED vars
  <2>1. tenant' = tenant
    BY <1>4 DEF ReconcileRole, CreateOrUpdateGitRepo, DeliverTenant, DeliverGitRepo,
                DeliverRole, DeliverCluster, TenantTemplateChanges, Resync, CallFails, Crash,
                vars, store
  <2>2. ~objFresh' \/ UNCHANGED <<obj, objFresh>>
    BY <1>4 DEF ReconcileRole, CreateOrUpdateGitRepo, DeliverTenant, DeliverGitRepo,
                DeliverRole, DeliverCluster, TenantTemplateChanges, Resync, CallFails, Crash,
                EndWithError, Idle, vars, worker
  <2> QED
    BY <2>1, <2>2 DEF ListInv
<1>5. CASE \/ \E c \in Clusters : \/ SetOwner(c) \/ CreateCluster(c)
                                  \/ MoveCluster(c) \/ DeleteCluster(c)
           \/ DeleteGitRepo \/ DeleteRole
  <2>1. UNCHANGED <<tenant, obj, objFresh>>
    BY <1>5 DEF SetOwner, CreateCluster, MoveCluster, DeleteCluster, WriteCluster,
                DeleteGitRepo, DeleteRole, Elsewhere
  <2> QED
    BY <2>1 DEF ListInv
<1> QED
  BY <1>1, <1>2, <1>3, <1>4, <1>5 DEF Next, System, Reconcile, Fault, Environment

(* A file that the Tenant once listed stays listed, whatever the caches     *)
(* show of the Clusters and however often the list is rebuilt               *)
(* (updateTenantGitRepo, updateObject): only a listed file is ever removed  *)
(* from a repository.                                                       *)
THEOREM ListedFilesStayListed == Spec => ListedStaysListed
<1>1. Init => TypeOK /\ ListInv
  BY InitType DEF Init, ListInv
<1>2. TypeOK /\ ListInv /\ [Next]_vars =>
        /\ TypeOK' /\ ListInv'
        /\ [\A f \in Files : tenant[f] # "absent" => tenant'[f] # "absent"]_vars
  BY NextType, ListStep
<1> QED
  BY <1>1, <1>2, PTL DEF Spec, ListedStaysListed

-----------------------------------------------------------------------------
(* No work is lost.  While the Tenant is not in the queue, nothing was      *)
(* delivered that a reconciliation would have to look at: what the worker   *)
(* made, and what an ended reconciliation left, fits the caches, or a write *)
(* has yet to be delivered.                                                 *)
RestInv ==
    ~queued =>
    /\ pc # "idle" => /\ obj = WithFiles(tenantCache, clusterCache)
                      /\ objFresh = tenantFresh
    /\ pc = "idle" /\ tenantFresh => tenantCache = WithFiles(tenantCache, clusterCache)
    /\ pc = "common" /\ gitRepoFresh => gitRepoCache = NewGitRepo(obj)
    /\ pc = "idle" /\ tenantFresh /\ gitRepoFresh => gitRepoCache = NewGitRepo(tenantCache)
    /\ pc \in {"gitRepo", "common", "idle"} /\ roleFresh =>
           /\ roleCache # None
           /\ Owned(clusterCache) \cap Referring(clusterCache) \subseteq roleCache

(* A Cluster that the Tenant owns neither before nor after changes nothing  *)
(* for it, whoever's it is by its spec.                                     *)
LEMMA ForeignDelivery ==
    ASSUME NEW c \in Clusters, DeliverCluster(c), TypeOK, ~queued'
    PROVE  /\ ~queued
           /\ Owned(clusterCache') = Owned(clusterCache)
           /\ \A t : WithFiles(t, clusterCache') = WithFiles(t, clusterCache)
           /\ Owned(clusterCache') \cap Referring(clusterCache')
                 = Owned(clusterCache) \cap Referring(clusterCache)
<1>1. ~queued /\ ~clusterCache[c].owned /\ ~clusters[c].owned
  BY DEF DeliverCluster, TypeOK
<1>2. \A d \in Clusters : clusterCache'[d] = clusterCache[d]
                          \/ (~clusterCache[d].owned /\ ~clusterCache'[d].owned)
  BY <1>1 DEF DeliverCluster, TypeOK
<1>3. Owned(clusterCache') = Owned(clusterCache)
  BY <1>2 DEF Owned
<1>4. Owned(clusterCache') \cap Referring(clusterCache')
          = Owned(clusterCache) \cap Referring(clusterCache)
  BY <1>2 DEF Owned, Referring
<1> QED
  BY <1>1, <1>3, <1>4 DEF WithFiles, Kept

LEMMA RestStep ==
    ASSUME TypeOK, RestInv, [Next]_vars
    PROVE  RestInv'
<1>1. CASE Start
  BY <1>1 DEF Start, RestInv, store, informer
<1>2. CASE ReconcileRole
  <2>1. CASE EndWithError
    BY <2>1 DEF EndWithError, RestInv
  <2>2. CASE roleCache = Referring(clusterCache) /\ pc' = "gitRepo"
    <3>1. Referring(clusterCache) # None
      BY FileAssumption DEF Referring
    <3> QED
      BY <1>2, <2>2, <3>1 DEF ReconcileRole, EndWithError, Idle, RestInv
  <2>3. CASE WriteRole(Referring(clusterCache)) /\ pc' = "gitRepo"
    BY <1>2, <2>3 DEF ReconcileRole, EndWithError, Idle, RestInv, WriteRole
  <2> QED
    BY <1>2, <2>1, <2>2, <2>3 DEF ReconcileRole
<1>3. CASE CreateOrUpdateGitRepo
  <2>1. CASE EndWithError
    BY <2>1 DEF EndWithError, RestInv
  <2>2. CASE gitRepoCache.present /\ gitRepoCache.files = obj /\ pc' = "common"
    <3>1. gitRepoCache = NewGitRepo(obj)
      BY <2>2 DEF TypeOK, GitRepo, NewGitRepo
    <3> QED
      BY <1>3, <2>2, <3>1 DEF CreateOrUpdateGitRepo, EndWithError, Idle, RestInv
  <2>3. CASE WriteGitRepo(NewGitRepo(obj)) /\ pc' = "common"
    BY <1>3, <2>3 DEF CreateOrUpdateGitRepo, EndWithError, Idle, RestInv, WriteGitRepo
  <2> QED
    BY <1>3, <2>1, <2>2, <2>3 DEF CreateOrUpdateGitRepo
<1>4. CASE UpdateTenant
  BY <1>4 DEF UpdateTenant, EndOk, Idle, WriteTenant, RestInv, TypeOK
<1>5. ASSUME NEW c \in Clusters, DeliverCluster(c) PROVE RestInv'
  BY <1>5, ForeignDelivery DEF DeliverCluster, RestInv, store, worker
<1>6. CASE DeliverTenant \/ DeliverGitRepo \/ DeliverRole \/ TenantTemplateChanges \/ Resync
           \/ CallFails \/ Crash
  BY <1>6 DEF DeliverTenant, DeliverGitRepo, DeliverRole, TenantTemplateChanges, Resync,
              CallFails, Crash, EndWithError, RestInv
<1>7. ASSUME NEW c \in Clusters,
             SetOwner(c) \/ CreateCluster(c) \/ MoveCluster(c) \/ DeleteCluster(c)
      PROVE  RestInv'
  BY <1>7 DEF SetOwner, CreateCluster, MoveCluster, DeleteCluster, WriteCluster,
              Elsewhere, RestInv
<1>8. CASE DeleteGitRepo \/ DeleteRole \/ EditTenant
  <2>1. CASE DeleteGitRepo
    BY <2>1 DEF DeleteGitRepo, WriteGitRepo, Elsewhere, RestInv
  <2>2. CASE DeleteRole
    BY <2>2 DEF DeleteRole, WriteRole, Elsewhere, RestInv
  <2>3. CASE EditTenant
    BY <2>3 DEF EditTenant, WriteTenant, Elsewhere, RestInv
  <2> QED
    BY <1>8, <2>1, <2>2, <2>3
<1>9. CASE UNCHANGED vars
  BY <1>9 DEF vars, store, informer, worker, RestInv
<1> QED
  BY <1>1, <1>2, <1>3, <1>4, <1>5, <1>6, <1>7, <1>8, <1>9
  DEF Next, System, Reconcile, Fault, Environment

(* A Tenant that nobody will look at again is in step, for any number of    *)
(* Clusters that come, move and go, although conflicts of the Tenant are    *)
(* swallowed, the GitRepo is written before it and only owners hear of a    *)
(* Cluster (updateObject, CreateOrUpdate, SetupWithManager).                *)
THEOREM NoWorkIsLost == Spec => []AtRestInStep
<1>1. Init => TypeOK /\ RestInv
  BY InitType DEF Init, RestInv
<1>2. TypeOK /\ RestInv /\ [Next]_vars => TypeOK' /\ RestInv'
  BY NextType, RestStep
<1>3. ASSUME TypeOK, RestInv, AtRest PROVE RoleCoversMembers /\ FilesInStep
  <2>1. /\ Owned(clusters) = Members /\ Referring(clusters) = Members
    BY <1>3 DEF AtRest, Owned, Referring, Members
  <2>2. /\ tenantCache = WithFiles(tenantCache, clusters)
        /\ gitRepo = NewGitRepo(tenantCache)
        /\ role # None /\ Owned(clusters) \cap Referring(clusters) \subseteq role
    BY <1>3 DEF AtRest, RestInv, TypeOK
  <2>3. \A f \in Files : tenantCache[f] = "content" <=> f \in Kept(clusters)
    BY <2>2 DEF WithFiles
  <2>4. Kept(clusters) = Members \cup PipelineFiles \cup {CommonFile}
    BY <2>1 DEF Kept
  <2>5. Kept(clusters) \subseteq Files
    BY <2>4 DEF Files, Members
  <2>6. FilesInStep
    BY <2>2, <2>3, <2>4, <2>5 DEF FilesInStep, NewGitRepo
  <2> QED
    BY <2>1, <2>2, <2>6 DEF RoleCoversMembers
<1> QED
  BY <1>1, <1>2, <1>3, PTL DEF Spec, AtRestInStep
=============================================================================
