---------------------- MODULE ClusterReconcileProofs ----------------------
(***************************************************************************)
(* Theorems about ClusterReconcile for every set of tokens, secrets,       *)
(* templates and policies: its type invariant, that a bootstrap token once *)
(* stored stays, that the secrets of a Cluster are treated as declared     *)
(* before it is let go, and that no work is lost.                          *)
(***************************************************************************)
EXTENDS ClusterReconcile, TLAPS

-----------------------------------------------------------------------------
(* Facts about Clusters and GitRepos.                                       *)

(* There is a template, and a policy, so what stands for no object is well  *)
(* typed.                                                                   *)
LEMMA NoObjectTypes ==
    /\ NoCluster \in Cluster /\ NoGitRepo \in GitRepo
    /\ ~NoCluster.present /\ ~NoCluster.finalizer /\ ~NoGitRepo.present
<1>1. PICK t \in CreatedTemplates : TRUE
  BY TemplateAssumption
<1>2. (CHOOSE u \in CreatedTemplates : TRUE) \in Templates
  BY <1>1 DEF Templates
<1>3. (CHOOSE p \in OwnPolicies : TRUE) \in OwnPolicies
  BY PolicyAssumption
<1> QED
  BY <1>2, <1>3 DEF NoCluster, NewCluster, Cluster, NoGitRepo, NewGitRepo, GitRepo

(* New objects are objects.                                                 *)
LEMMA NewObjectTypes ==
    \A t \in Templates : /\ \A p \in OwnPolicies : NewCluster(t, p) \in Cluster
                         /\ NewGitRepo(t) \in GitRepo
BY DEF NewCluster, Cluster, NewGitRepo, GitRepo

(* What becomes of a stored Cluster, and of one that is updated in memory,  *)
(* is a Cluster.                                                            *)
LEMMA ClusterTypes ==
    ASSUME TypeOK, NEW s \in Cluster, NEW o \in Cluster
    PROVE  /\ Settled(o) \in Cluster
           /\ WithStatus(s, o) \in Cluster
           /\ WithSpecAndMeta(s, o) \in Cluster
           /\ WithFinalizer(WithDeletionProtection(WithURL(o))) \in Cluster
<1>1. Settled(o) \in Cluster
  BY NoObjectTypes DEF Settled
<1>2. WithStatus(s, o) \in Cluster /\ WithStatus(o, s) \in Cluster
  BY DEF WithStatus, Cluster
<1>3. WithURL(o) \in Cluster
  BY DEF WithURL, Cluster, TypeOK, GitRepo
<1>4. \A p \in Cluster : WithDeletionProtection(p) \in Cluster
  BY DEF WithDeletionProtection, Cluster
<1>5. \A p \in Cluster : WithFinalizer(p) \in Cluster
  BY DEF WithFinalizer, Cluster
<1> QED
  BY <1>1, <1>2, <1>3, <1>4, <1>5 DEF WithSpecAndMeta

(* The update in memory sets the finalizer, and changes neither the status  *)
(* nor what says that the Cluster is being deleted.                         *)
LEMMA UpdatedFacts ==
    ASSUME TypeOK, NEW o \in Cluster
    PROVE  LET u == WithFinalizer(WithDeletionProtection(WithURL(o))) IN
           /\ u.present = o.present /\ u.deleting = o.deleting
           /\ u.finalizer = ~o.deleting
           /\ u.token = o.token /\ u.valid = o.valid
<1> DEFINE w == WithURL(o)
           p == WithDeletionProtection(w)
<1>1. /\ w.present = o.present /\ w.deleting = o.deleting
      /\ w.token = o.token /\ w.valid = o.valid
      /\ w \in Cluster
  BY DEF WithURL, Cluster, TypeOK, GitRepo
<1> HIDE DEF w
<1>2. /\ p.present = o.present /\ p.deleting = o.deleting
      /\ p.token = o.token /\ p.valid = o.valid
      /\ p \in Cluster
  BY <1>1 DEF WithDeletionProtection, Cluster
<1> HIDE DEF p
<1>3. LET u == WithFinalizer(p) IN
      /\ u.present = o.present /\ u.deleting = o.deleting
      /\ u.finalizer = ~o.deleting
      /\ u.token = o.token /\ u.valid = o.valid
  BY <1>2 DEF WithFinalizer, Cluster
<1> QED
  BY <1>3 DEF p, w

(* The bootstrap token that Start sets in memory.                           *)
LEMMA BootstrapTypes ==
    ASSUME TypeOK, NEW o \in Cluster, NEW p \in WithBootstrapToken(o)
    PROVE  /\ p \in Cluster
           /\ p.present = o.present /\ p.deleting = o.deleting
           /\ o.token # None => p.token = o.token /\ (p.valid => o.valid)
<1>1. CASE o.token = None
  <2>1. PICK k \in BootstrapTokens : p = [o EXCEPT !.token = k, !.valid = TRUE]
    BY <1>1 DEF WithBootstrapToken
  <2> QED
    BY <1>1, <2>1 DEF Cluster
<1>2. CASE o.token # None
  <2>1. p = o \/ p = [o EXCEPT !.valid = FALSE]
    BY <1>2 DEF WithBootstrapToken
  <2> QED
    BY <2>1 DEF Cluster
<1> QED
  BY <1>1, <1>2

(* Storing a Cluster keeps the types.                                       *)
LEMMA WriteType ==
    ASSUME TypeOK, NEW o \in Cluster, Write(o)
    PROVE  cluster' \in Cluster /\ cacheFresh' \in BOOLEAN
BY ClusterTypes DEF Write

(* The worker's variables at the end of a reconciliation.                   *)
LEMMA IdleType ==
    ASSUME Idle
    PROVE  /\ pc' = "idle" /\ obj' \in Cluster /\ orig' \in Cluster
           /\ objFresh' = FALSE /\ todo' = {} /\ secret' = None /\ late' = {}
BY NoObjectTypes DEF Idle

(* The end of a reconciliation that leaves everything else alone.           *)
LEMMA EndType ==
    ASSUME TypeOK, Idle, queued' \in BOOLEAN, UNCHANGED <<store, outside, informer>>
    PROVE  TypeOK'
BY IdleType DEF TypeOK, store, outside, informer

(* The contents of Vault.                                                   *)
LEMMA VaultTypes ==
    ASSUME NEW v \in Vault
    PROVE  /\ \A a \in AccountTokens : [v EXCEPT !["steward"] = a] \in Vault
           /\ \A s \in Secrets, x \in {"none", "deleted"} : [v EXCEPT ![s] = x] \in Vault
           /\ \A s \in OtherSecrets : [v EXCEPT ![s] = "other"] \in Vault
BY TokenAssumption, SecretAssumption DEF Vault, Secrets

-----------------------------------------------------------------------------
(* Type correctness.                                                        *)

(* The initial state is well typed.                                         *)
LEMMA InitType == Init => TypeOK
<1> SUFFICES ASSUME Init PROVE TypeOK
  OBVIOUS
<1>1. vault \in Vault
  BY TokenAssumption DEF Init, Vault, Secrets
<1> QED
  BY <1>1, NoObjectTypes DEF Init, TypeOK, Account

(* The start of a reconciliation keeps the types.                           *)
LEMMA StartType == TypeOK /\ Start => TypeOK'
<1> SUFFICES ASSUME TypeOK, Start PROVE TypeOK'
  OBVIOUS
<1>1. CASE ~cache.present
  BY <1>1 DEF Start, TypeOK, outside, informer, worker, removal
<1>2. CASE cache.present
  <2>1. obj' \in Cluster /\ obj'.present /\ account' \in Account
    BY <1>2, BootstrapTypes DEF Start, TypeOK, Account
  <2> QED
    BY <1>2, <2>1 DEF Start, TypeOK, outside, informer, removal
<1> QED
  BY <1>1, <1>2

(* The calls to Vault keep the types.                                       *)
LEMMA VaultType ==
    ASSUME TypeOK,
           \/ CreateOrUpdateVault \/ NoAccountToken
           \/ ListSecrets \/ RemoveVersions \/ SecretsRemoved \/ UnknownDeletionPolicy
           \/ \E s \in Secrets : ReadVersions(s)
    PROVE  TypeOK'
<1>1. CASE CreateOrUpdateVault
  <2>1. vault' \in Vault
    BY <1>1, VaultTypes DEF CreateOrUpdateVault, TypeOK
  <2> QED
    BY <1>1, <2>1 DEF CreateOrUpdateVault, TypeOK, store, informer, removal
<1>2. CASE NoAccountToken \/ UnknownDeletionPolicy
  BY <1>2, EndType DEF NoAccountToken, UnknownDeletionPolicy, EndWithError
<1>3. CASE ListSecrets
  BY <1>3 DEF ListSecrets, TypeOK, store, outside, informer
<1>4. CASE RemoveVersions
  <2>1. secret \in Secrets
    BY <1>4 DEF RemoveVersions, TypeOK
  <2>2. \/ vault' = [vault EXCEPT ![secret] = vault[secret]]
        \/ \E x \in {"none", "deleted"} : vault' = [vault EXCEPT ![secret] = x]
    BY <1>4 DEF RemoveVersions
  <2>3. vault \in Vault /\ vault \in [Secrets -> AccountTokens \cup {"none", "deleted", "other"}]
    BY DEF TypeOK, Vault
  <2>4. [vault EXCEPT ![secret] = vault[secret]] = vault
    BY <2>1, <2>3
  <2>5. \A x \in {"none", "deleted"} : [vault EXCEPT ![secret] = x] \in Vault
    BY <2>1, <2>3, VaultTypes
  <2>6. vault' \in Vault
    BY <2>2, <2>3, <2>4, <2>5
  <2> QED
    BY <1>4, <2>6 DEF RemoveVersions, TypeOK, store, informer
<1>5. CASE SecretsRemoved
  BY <1>5 DEF SecretsRemoved, TypeOK, store, outside, informer, removal
<1>6. ASSUME NEW s \in Secrets, ReadVersions(s)
      PROVE  TypeOK'
  BY <1>6 DEF ReadVersions, TypeOK, store, outside, informer
<1> QED
  BY <1>1, <1>2, <1>3, <1>4, <1>5, <1>6

(* So do the updates of GitRepo and Cluster.                                *)
LEMMA UpdateType ==
    ASSUME TypeOK,
           \/ NoTenant \/ CreateGitRepo \/ UpdateGitRepo
           \/ HandleDeletionRefuses \/ UpdateObject \/ UpdateStatus
    PROVE  TypeOK'
<1>a. /\ obj \in Cluster /\ orig \in Cluster /\ cluster \in Cluster /\ gitRepo \in GitRepo
      /\ obj.template \in Templates
  BY DEF TypeOK, Cluster
<1>1. CASE NoTenant \/ HandleDeletionRefuses
  BY <1>1, EndType DEF NoTenant, HandleDeletionRefuses, EndWithError
<1>2. CASE CreateGitRepo
  <2>1. CASE EndWithError
    BY <1>2, <2>1, IdleType DEF CreateGitRepo, EndWithError, WriteGitRepo, TypeOK, outside
  <2>2. CASE ~EndWithError
    <3>1. gitRepo' \in GitRepo /\ gitRepoFresh' \in BOOLEAN
      BY <1>2, <1>a, <2>2, NewObjectTypes DEF CreateGitRepo, WriteGitRepo
    <3> QED
      BY <1>2, <2>2, <3>1 DEF CreateGitRepo, TypeOK, outside, removal
  <2> QED
    BY <2>1, <2>2
<1>3. CASE UpdateGitRepo
  <2>1. [gitRepo EXCEPT !.template = obj.template] \in GitRepo
    BY <1>a DEF GitRepo
  <2>2. CASE EndWithError
    BY <1>3, <2>1, <2>2, IdleType DEF UpdateGitRepo, EndWithError, WriteGitRepo, TypeOK, outside
  <2>3. CASE ~EndWithError
    <3>1. gitRepo' \in GitRepo /\ gitRepoFresh' \in BOOLEAN
      BY <1>3, <1>a, <2>1, <2>3 DEF UpdateGitRepo, WriteGitRepo, TypeOK
    <3> QED
      BY <1>3, <2>3, <3>1 DEF UpdateGitRepo, TypeOK, outside, removal
  <2> QED
    BY <2>2, <2>3
<1>4. CASE UpdateObject
  <2> DEFINE o == WithFinalizer(WithDeletionProtection(WithURL(obj)))
  <2>1. o \in Cluster /\ o.present /\ WithSpecAndMeta(cluster, o) \in Cluster
    BY <1>4, <1>a, ClusterTypes, UpdatedFacts DEF UpdateObject, TypeOK
  <2> HIDE DEF o
  <2>2. cluster' \in Cluster /\ cacheFresh' \in BOOLEAN
    BY <1>4, <2>1, WriteType DEF UpdateObject, TypeOK, o
  <2>3. CASE Idle
    BY <1>4, <2>2, <2>3, IdleType DEF UpdateObject, EndOk, EndWithError, TypeOK, outside
  <2>4. CASE ~Idle
    <3>1. pc' = "status" /\ obj' = o /\ objFresh' \in BOOLEAN /\ UNCHANGED <<queued, orig, removal>>
      BY <1>4, <2>4 DEF UpdateObject, EndOk, EndWithError, TypeOK, o
    <3> QED
      BY <1>4, <2>1, <2>2, <3>1 DEF UpdateObject, TypeOK, outside, removal
  <2> QED
    BY <2>3, <2>4
<1>5. CASE UpdateStatus
  <2>1. cluster' \in Cluster /\ cacheFresh' \in BOOLEAN
    BY <1>5, <1>a, ClusterTypes, WriteType DEF UpdateStatus, TypeOK
  <2>2. Idle /\ queued' \in BOOLEAN
    BY <1>5 DEF UpdateStatus, EndOk, EndWithError, TypeOK
  <2> QED
    BY <1>5, <2>1, <2>2, IdleType DEF UpdateStatus, TypeOK, outside
<1> QED
  BY <1>1, <1>2, <1>3, <1>4, <1>5

(* Watch events and the token controller keep the types.                    *)
LEMMA DeliverType ==
    ASSUME TypeOK,
           \/ DeliverCluster \/ DeliverGitRepo \/ DeliverAccount
           \/ PopulateToken \/ SetURL \/ CollectOwned
    PROVE  TypeOK'
<1>1. CASE DeliverCluster \/ DeliverGitRepo \/ DeliverAccount
  BY <1>1 DEF DeliverCluster, DeliverGitRepo, DeliverAccount, TypeOK,
              store, outside, worker, removal
<1>2. CASE PopulateToken
  BY <1>2 DEF PopulateToken, Elsewhere, TypeOK, Account, outside, removal
<1>3. CASE SetURL
  <2>1. [gitRepo EXCEPT !.url = TRUE] \in GitRepo
    BY DEF TypeOK, GitRepo
  <2> QED
    BY <1>3, <2>1 DEF SetURL, Elsewhere, WriteGitRepo, TypeOK, outside, removal
<1>4. CASE CollectOwned
  <2>1. gitRepo' \in {gitRepo, NoGitRepo} /\ account' \in {account, "none"}
    BY <1>4 DEF CollectOwned, WriteGitRepo
  <2>2. gitRepo' \in GitRepo /\ account' \in Account
    BY <2>1, NoObjectTypes DEF TypeOK, Account
  <2>3. gitRepoFresh' \in BOOLEAN /\ UNCHANGED <<cluster, tenant, cacheFresh, objFresh>>
    BY <1>4 DEF CollectOwned, WriteGitRepo, TypeOK
  <2> QED
    BY <1>4, <2>2, <2>3 DEF CollectOwned, Elsewhere, TypeOK, outside, removal
<1> QED
  BY <1>1, <1>2, <1>3, <1>4

(* An error and a restart keep the types.                                   *)
LEMMA FaultType == TypeOK /\ Fault => TypeOK'
<1> SUFFICES ASSUME TypeOK, Fault PROVE TypeOK'
  OBVIOUS
<1>1. CASE CallFails
  BY <1>1, EndType DEF CallFails, EndWithError
<1>2. CASE Crash
  <2>1. cluster.present \in BOOLEAN
    BY DEF TypeOK, Cluster
  <2> QED
    BY <1>2, <2>1, IdleType DEF Crash, TypeOK, store
<1> QED
  BY <1>1, <1>2 DEF Fault

(* Users, the API and Steward store Clusters.                               *)
LEMMA EditedTypes ==
    ASSUME TypeOK
    PROVE  /\ \A t \in CreatedTemplates, p \in OwnPolicies : NewCluster(t, p) \in Cluster
           /\ \A t \in EditedTemplates : [cluster EXCEPT !.template = t] \in Cluster
           /\ \A p \in ProtectionEdits : [cluster EXCEPT !.protection = p] \in Cluster
           /\ [cluster EXCEPT !.deleting = TRUE] \in Cluster
           /\ [cluster EXCEPT !.valid = FALSE] \in Cluster
<1>1. \A t \in CreatedTemplates, p \in OwnPolicies : NewCluster(t, p) \in Cluster
  BY NewObjectTypes DEF Templates
<1>2. ProtectionEdits \subseteq {"none", "true", "false"}
  BY OptionAssumption
<1> QED
  BY <1>1, <1>2 DEF TypeOK, Cluster, Templates

(* What an edit of the Cluster by others amounts to.                        *)
LEMMA Edits ==
    ASSUME TypeOK,
           CreateCluster \/ EditTemplate \/ EditProtection \/ DeleteCluster
             \/ UseBootstrapToken
    PROVE  \E o \in Cluster :
              /\ Edit(o) /\ o.present
              /\ cluster.present =>
                    /\ o.finalizer = cluster.finalizer
                    /\ o.token = cluster.token /\ (o.valid => cluster.valid)
<1>c. cluster \in Cluster
  BY DEF TypeOK
<1>1. CASE CreateCluster
  BY <1>1, EditedTypes DEF CreateCluster, NewCluster
<1>2. CASE EditTemplate
  BY <1>2, <1>c, EditedTypes DEF EditTemplate, Cluster
<1>3. CASE EditProtection
  BY <1>3, <1>c, EditedTypes DEF EditProtection, Cluster
<1>4. CASE DeleteCluster
  BY <1>4, <1>c, EditedTypes DEF DeleteCluster, Cluster
<1>5. CASE UseBootstrapToken
  BY <1>5, <1>c, EditedTypes DEF UseBootstrapToken, Cluster
<1> QED
  BY <1>1, <1>2, <1>3, <1>4, <1>5

(* What users and others do keeps the types.                                *)
LEMMA EnvironmentType == TypeOK /\ Environment => TypeOK'
<1> SUFFICES ASSUME TypeOK, Environment PROVE TypeOK'
  OBVIOUS
<1>1. CASE \/ CreateCluster \/ EditTemplate \/ EditProtection \/ DeleteCluster
           \/ UseBootstrapToken
  <2>1. PICK o \in Cluster : Edit(o)
    BY <1>1, Edits
  <2> QED
    BY <2>1, WriteType DEF Edit, Elsewhere, TypeOK, outside, removal
<1>2. CASE CreateTenant
  <2>1. queued' \in BOOLEAN
    BY <1>2 DEF CreateTenant, TypeOK, Cluster
  <2> QED
    BY <1>2, <2>1 DEF CreateTenant, TypeOK, outside, informer, worker, removal
<1>3. CASE DeleteAccount
  BY <1>3 DEF DeleteAccount, Elsewhere, TypeOK, Account, outside, removal
<1>4. CASE DeleteGitRepo
  BY <1>4, NoObjectTypes DEF DeleteGitRepo, WriteGitRepo, Elsewhere, TypeOK, outside, removal
<1>5. ASSUME NEW s \in OtherSecrets, WriteSecret(s)
      PROVE  TypeOK'
  <2>1. vault' \in Vault /\ late' \subseteq Secrets
    BY <1>5, VaultTypes DEF WriteSecret, TypeOK, Secrets
  <2> QED
    BY <1>5, <2>1 DEF WriteSecret, TypeOK, store, informer
<1> QED
  BY <1>1, <1>2, <1>3, <1>4, <1>5 DEF Environment

(* Every step keeps the types.                                              *)
LEMMA NextType == TypeOK /\ [Next]_vars => TypeOK'
<1> SUFFICES ASSUME TypeOK, [Next]_vars PROVE TypeOK'
  OBVIOUS
<1>1. CASE Start
  BY <1>1, StartType
<1>2. CASE Reconcile
  BY <1>2, VaultType, UpdateType DEF Reconcile
<1>3. CASE \/ DeliverCluster \/ DeliverGitRepo \/ DeliverAccount
           \/ PopulateToken \/ SetURL \/ CollectOwned
  BY <1>3, DeliverType
<1>4. CASE Fault
  BY <1>4, FaultType
<1>5. CASE Environment
  BY <1>5, EnvironmentType
<1>6. CASE UNCHANGED vars
  BY <1>6 DEF vars, TypeOK, store, outside, informer, worker, removal
<1> QED
  BY <1>1, <1>2, <1>3, <1>4, <1>5, <1>6 DEF Next, System

(* Every object, cache and copy in memory has its type, what is to be       *)
(* removed from Vault are secrets of the Cluster, and only a Cluster that   *)
(* was found is reconciled (cluster_controller.go, Reconcile).              *)
THEOREM ClusterTypeCorrect == Spec => []TypeOK
<1>1. Init => TypeOK
  BY InitType
<1>2. TypeOK /\ [Next]_vars => TypeOK'
  BY NextType
<1> QED
  BY <1>1, <1>2, PTL DEF Spec

-----------------------------------------------------------------------------
(* The bootstrap token.  A copy that carries the stored resourceVersion is  *)
(* the stored Cluster, and what a reconciliation makes of a token it read   *)
(* is that token: it may only outlive it.                                   *)

(* A fresh copy in the cache is the stored Cluster; nothing is left of a    *)
(* Cluster that is gone.                                                    *)
CacheInv ==
    /\ cacheFresh => cache = cluster
    /\ cluster.present \/ cluster = NoCluster

(* The original object of a reconciliation that may still update is the     *)
(* stored Cluster, and its token is kept in memory.                         *)
TokenInv ==
    /\ pc # "idle" => orig.present
    /\ objFresh => orig = cluster
    /\ pc # "idle" /\ orig.token # None =>
          obj.token = orig.token /\ (obj.valid => orig.valid)

StableInv == TypeOK /\ CacheInv /\ TokenInv

(* What is left of the worker when it ends satisfies TokenInv.              *)
LEMMA IdleToken == Idle => TokenInv'
BY DEF Idle, TokenInv

(* Storing a Cluster keeps CacheInv.                                        *)
LEMMA WriteCache ==
    ASSUME NEW o \in Cluster, o.present, Write(o)
    PROVE  CacheInv'
BY DEF Write, Settled, CacheInv

(* What updateObject may store, first the object and then its status.       *)
LEMMA ObjectUpdates ==
    ASSUME StableInv, UpdateObject
    PROVE  \/ UNCHANGED <<cluster, cacheFresh>>
           \/ \E o \in Cluster :
                 /\ Write(o) /\ objFresh' = FALSE
                 /\ o.present /\ o.token = cluster.token /\ o.valid = cluster.valid
                 /\ o.finalizer = ~obj.deleting /\ o.deleting = obj.deleting
<1> DEFINE u == WithFinalizer(WithDeletionProtection(WithURL(obj)))
           o == WithSpecAndMeta(cluster, u)
<1>1. obj \in Cluster /\ cluster \in Cluster /\ obj.present
  BY DEF StableInv, TypeOK, UpdateObject
<1>2. u \in Cluster /\ o \in Cluster
  BY <1>1, ClusterTypes DEF StableInv
<1>3. u.present /\ u.deleting = obj.deleting /\ u.finalizer = ~obj.deleting
  BY <1>1, UpdatedFacts DEF StableInv
<1>4. \/ UNCHANGED <<cluster, cacheFresh>>
      \/ Write(o) /\ objFresh' = FALSE
  BY DEF UpdateObject
<1> HIDE DEF u
<1>5. /\ o.present /\ o.token = cluster.token /\ o.valid = cluster.valid
      /\ o.finalizer = ~obj.deleting /\ o.deleting = obj.deleting
  BY <1>1, <1>2, <1>3 DEF WithSpecAndMeta, WithStatus, Cluster
<1> QED
  BY <1>2, <1>4, <1>5

LEMMA StatusUpdates ==
    ASSUME StableInv, UpdateStatus
    PROVE  /\ Idle
           /\ \/ UNCHANGED <<cluster, cacheFresh>>
              \/ \E o \in Cluster :
                    /\ Write(o) /\ objFresh /\ o = WithStatus(cluster, obj)
                    /\ o.present /\ o.finalizer = cluster.finalizer
                    /\ o.deleting = cluster.deleting
                    /\ cluster.token # None =>
                          o.token = cluster.token /\ (o.valid => cluster.valid)
<1> DEFINE o == WithStatus(cluster, obj)
<1>1. obj \in Cluster /\ cluster \in Cluster /\ pc # "idle"
  BY DEF StableInv, TypeOK, UpdateStatus
<1>2. o \in Cluster
  BY <1>1, ClusterTypes DEF StableInv
<1>3. /\ o.present = cluster.present /\ o.finalizer = cluster.finalizer
      /\ o.deleting = cluster.deleting
      /\ o.token = obj.token /\ o.valid = obj.valid
  BY <1>1 DEF WithStatus, Cluster
<1>4. Idle
  BY DEF UpdateStatus, EndOk, EndWithError
<1>5. \/ UNCHANGED <<cluster, cacheFresh>>
      \/ Write(o) /\ objFresh
  BY DEF UpdateStatus
<1>6. ASSUME objFresh
      PROVE  /\ cluster.present
             /\ cluster.token # None =>
                   obj.token = cluster.token /\ (obj.valid => cluster.valid)
  BY <1>1, <1>6 DEF StableInv, TokenInv
<1> HIDE DEF o
<1>7. CASE UNCHANGED <<cluster, cacheFresh>>
  BY <1>4, <1>7
<1>8. CASE Write(o) /\ objFresh
  BY <1>2, <1>3, <1>4, <1>6, <1>8 DEF o
<1> QED
  BY <1>5, <1>7, <1>8

(* The start of a reconciliation keeps the copies in step.                  *)
LEMMA StartStable == StableInv /\ Start => CacheInv' /\ TokenInv'
<1> SUFFICES ASSUME StableInv, Start PROVE CacheInv' /\ TokenInv'
  OBVIOUS
<1>1. CacheInv'
  BY DEF StableInv, CacheInv, Start, informer
<1>2. CASE ~cache.present
  <2>1. UNCHANGED <<cluster, pc, obj, orig, objFresh>>
    BY <1>2 DEF Start, worker
  <2> QED
    BY <1>1, <2>1 DEF StableInv, TokenInv
<1>3. CASE cache.present
  <2>1. /\ obj' \in WithBootstrapToken(cache) /\ orig' = cache /\ objFresh' = cacheFresh
        /\ cluster' = cluster /\ cache \in Cluster
        /\ cacheFresh => cache = cluster
    BY <1>3 DEF Start, StableInv, TypeOK, CacheInv
  <2>2. cache.token # None => obj'.token = cache.token /\ (obj'.valid => cache.valid)
    BY <2>1, BootstrapTypes DEF StableInv
  <2> QED
    BY <1>1, <1>3, <2>1, <2>2 DEF TokenInv
<1> QED
  BY <1>2, <1>3

(* So do the calls to Vault and the updates of the GitRepo, which leave the *)
(* Cluster alone.                                                           *)
LEMMA ReconcileStable ==
    ASSUME StableInv,
           \/ CreateOrUpdateVault \/ NoAccountToken
           \/ ListSecrets \/ RemoveVersions \/ SecretsRemoved \/ UnknownDeletionPolicy
           \/ \E s \in Secrets : ReadVersions(s)
           \/ NoTenant \/ CreateGitRepo \/ UpdateGitRepo \/ HandleDeletionRefuses
    PROVE  CacheInv' /\ TokenInv'
<1>1. UNCHANGED <<cluster, cache, cacheFresh>> /\ pc # "idle"
  BY DEF CreateOrUpdateVault, NoAccountToken, ListSecrets, RemoveVersions, SecretsRemoved,
         UnknownDeletionPolicy, ReadVersions, NoTenant, CreateGitRepo, UpdateGitRepo,
         HandleDeletionRefuses, store, informer
<1>2. Idle \/ UNCHANGED <<obj, orig, objFresh>>
  BY DEF CreateOrUpdateVault, NoAccountToken, ListSecrets, RemoveVersions, SecretsRemoved,
         UnknownDeletionPolicy, ReadVersions, NoTenant, CreateGitRepo, UpdateGitRepo,
         HandleDeletionRefuses, EndWithError
<1>3. CacheInv'
  BY <1>1 DEF StableInv, CacheInv
<1>4. CASE Idle
  BY <1>3, <1>4, IdleToken
<1>5. CASE UNCHANGED <<obj, orig, objFresh>>
  BY <1>1, <1>3, <1>5 DEF StableInv, TokenInv
<1> QED
  BY <1>2, <1>4, <1>5

(* The update of the object and that of its status.                         *)
LEMMA UpdateStable ==
    ASSUME StableInv, UpdateObject \/ UpdateStatus
    PROVE  CacheInv' /\ TokenInv'
<1>1. UNCHANGED cache
  BY DEF UpdateObject, UpdateStatus
<1>2. CacheInv'
  <2>1. UNCHANGED <<cluster, cacheFresh>> \/ \E o \in Cluster : o.present /\ Write(o)
    BY ObjectUpdates, StatusUpdates
  <2> QED
    BY <1>1, <2>1, WriteCache DEF StableInv, CacheInv
<1>3. CASE UpdateStatus
  BY <1>2, <1>3, StatusUpdates, IdleToken
<1>4. CASE UpdateObject
  <2>1. obj \in Cluster /\ pc # "idle"
    BY <1>4 DEF StableInv, TypeOK, UpdateObject
  <2>2. CASE Idle
    BY <1>2, <2>2, IdleToken
  <2>3. CASE ~Idle
    <3>1. obj' = WithFinalizer(WithDeletionProtection(WithURL(obj))) /\ orig' = orig
      BY <1>4, <2>3 DEF UpdateObject, EndOk, EndWithError
    <3>2. obj'.token = obj.token /\ obj'.valid = obj.valid
      BY <2>1, <3>1, UpdatedFacts DEF StableInv
    <3>3. objFresh' => objFresh /\ cluster' = cluster
      BY <1>4, <2>3 DEF UpdateObject, EndOk, EndWithError
    <3> QED
      BY <1>2, <2>1, <3>1, <3>2, <3>3 DEF StableInv, TokenInv
  <2> QED
    BY <2>2, <2>3
<1> QED
  BY <1>3, <1>4

(* Watch events, errors and restarts.                                       *)
LEMMA DeliverStable ==
    ASSUME StableInv,
           \/ DeliverCluster \/ DeliverGitRepo \/ DeliverAccount
           \/ PopulateToken \/ SetURL \/ CollectOwned \/ CallFails \/ Crash
    PROVE  CacheInv' /\ TokenInv'
<1>1. cluster' = cluster
  BY DEF DeliverCluster, DeliverGitRepo, DeliverAccount, PopulateToken, SetURL,
         CollectOwned, CallFails, Crash, store
<1>2. UNCHANGED <<cache, cacheFresh>> \/ cache' = cluster
  BY DEF DeliverCluster, DeliverGitRepo, DeliverAccount, PopulateToken, SetURL,
         CollectOwned, CallFails, Crash, Elsewhere, informer
<1>3. CacheInv'
  BY <1>1, <1>2 DEF StableInv, CacheInv
<1>4. Idle \/ UNCHANGED <<pc, obj, orig, objFresh>>
  BY DEF DeliverCluster, DeliverGitRepo, DeliverAccount, PopulateToken, SetURL,
         CollectOwned, CallFails, Crash, Elsewhere, EndWithError, worker
<1>5. CASE Idle
  BY <1>3, <1>5, IdleToken
<1>6. CASE UNCHANGED <<pc, obj, orig, objFresh>>
  BY <1>1, <1>3, <1>6 DEF StableInv, TokenInv
<1> QED
  BY <1>4, <1>5, <1>6

(* What users and others do.                                                *)
LEMMA EnvironmentStable == StableInv /\ Environment => CacheInv' /\ TokenInv'
<1> SUFFICES ASSUME StableInv, Environment PROVE CacheInv' /\ TokenInv'
  OBVIOUS
<1>1. CASE \/ CreateCluster \/ EditTemplate \/ EditProtection \/ DeleteCluster
           \/ UseBootstrapToken
  <2>1. PICK o \in Cluster : Edit(o) /\ o.present
    BY <1>1, Edits DEF StableInv
  <2>2. CacheInv'
    BY <2>1, WriteCache DEF Edit
  <2> QED
    BY <2>1, <2>2 DEF StableInv, TokenInv, Edit, Elsewhere
<1>2. CASE CreateTenant \/ DeleteAccount \/ DeleteGitRepo \/ \E s \in OtherSecrets : WriteSecret(s)
  <2>1. UNCHANGED <<cluster, cache, cacheFresh, pc, obj, orig, objFresh>>
    BY <1>2 DEF CreateTenant, DeleteAccount, DeleteGitRepo, WriteSecret, Elsewhere,
                store, informer, worker
  <2> QED
    BY <2>1 DEF StableInv, CacheInv, TokenInv
<1> QED
  BY <1>1, <1>2 DEF Environment

(* The invariant holds from the start and is kept by every step.            *)
LEMMA StableInductive ==
    /\ Init => StableInv
    /\ StableInv /\ [Next]_vars => StableInv'
<1>1. ASSUME Init PROVE StableInv
  <2>1. TypeOK
    BY <1>1, InitType
  <2>2. CacheInv /\ TokenInv
    BY <1>1 DEF Init, CacheInv, TokenInv
  <2> QED
    BY <2>1, <2>2 DEF StableInv
<1>2. ASSUME StableInv, [Next]_vars PROVE CacheInv' /\ TokenInv'
  <2>1. CASE Start
    BY <1>2, <2>1, StartStable
  <2>2. CASE Reconcile
    BY <1>2, <2>2, ReconcileStable, UpdateStable DEF Reconcile
  <2>3. CASE \/ DeliverCluster \/ DeliverGitRepo \/ DeliverAccount
             \/ PopulateToken \/ SetURL \/ CollectOwned \/ Fault
    BY <1>2, <2>3, DeliverStable DEF Fault
  <2>4. CASE Environment
    BY <1>2, <2>4, EnvironmentStable
  <2>5. CASE UNCHANGED vars
    BY <1>2, <2>5 DEF vars, store, informer, worker, StableInv, CacheInv, TokenInv
  <2> QED
    BY <1>2, <2>1, <2>2, <2>3, <2>4, <2>5 DEF Next, System
<1> QED
  BY <1>1, <1>2, NextType DEF StableInv

(* How the stored Cluster changes, if it does.                              *)
LEMMA ClusterSteps ==
    ASSUME StableInv, [Next]_vars, cluster' # cluster
    PROVE  UpdateObject \/ UpdateStatus
           \/ CreateCluster \/ EditTemplate \/ EditProtection \/ DeleteCluster
           \/ UseBootstrapToken
<1>1. CASE Start \/ UNCHANGED vars
  BY <1>1 DEF Start, vars, store
<1>2. CASE \/ CreateOrUpdateVault \/ NoAccountToken
           \/ ListSecrets \/ RemoveVersions \/ SecretsRemoved \/ UnknownDeletionPolicy
           \/ \E s \in Secrets : ReadVersions(s)
           \/ NoTenant \/ CreateGitRepo \/ UpdateGitRepo \/ HandleDeletionRefuses
  BY <1>2 DEF CreateOrUpdateVault, NoAccountToken, ListSecrets, RemoveVersions,
              SecretsRemoved, UnknownDeletionPolicy, ReadVersions, NoTenant,
              CreateGitRepo, UpdateGitRepo, HandleDeletionRefuses, store
<1>3. CASE \/ DeliverCluster \/ DeliverGitRepo \/ DeliverAccount
           \/ PopulateToken \/ SetURL \/ CollectOwned \/ CallFails \/ Crash
  BY <1>3 DEF DeliverCluster, DeliverGitRepo, DeliverAccount, PopulateToken, SetURL,
              CollectOwned, CallFails, Crash, store
<1>4. CASE CreateTenant \/ DeleteAccount \/ DeleteGitRepo \/ \E s \in OtherSecrets : WriteSecret(s)
  BY <1>4 DEF CreateTenant, DeleteAccount, DeleteGitRepo, WriteSecret, store
<1> QED
  BY <1>1, <1>2, <1>3, <1>4 DEF Next, System, Reconcile, Fault, Environment

(* A stored bootstrap token is never replaced, and neither its use nor the  *)
(* end of its time is ever undone, although it is generated from a cached   *)
(* status and written back with the rest of the status (setBootstrapToken,  *)
(* updateObject; pkg api clears tokenValid).                                *)
THEOREM BootstrapTokenIsStable == Spec => BootstrapTokenStable
<1>1. ASSUME StableInv, [Next]_vars,
             cluster.present, cluster'.present, cluster.token # None
      PROVE  cluster'.token = cluster.token /\ (cluster'.valid => cluster.valid)
  <2>1. CASE cluster' = cluster
    BY <2>1
  <2>2. ASSUME NEW o \in Cluster, Write(o), o.token = cluster.token, o.valid => cluster.valid
        PROVE  cluster'.token = cluster.token /\ (cluster'.valid => cluster.valid)
    <3>1. cluster' = o
      BY <1>1, <2>2, NoObjectTypes DEF Write, Settled
    <3> QED
      BY <2>2, <3>1
  <2>3. CASE UpdateObject /\ cluster' # cluster
    BY <1>1, <2>2, <2>3, ObjectUpdates
  <2>4. CASE UpdateStatus /\ cluster' # cluster
    BY <1>1, <2>2, <2>4, StatusUpdates
  <2>5. CASE \/ CreateCluster \/ EditTemplate \/ EditProtection \/ DeleteCluster
             \/ UseBootstrapToken
    BY <1>1, <2>2, <2>5, Edits DEF StableInv, Edit
  <2> QED
    BY <1>1, <2>1, <2>3, <2>4, <2>5, ClusterSteps
<1>2. StableInv /\ [Next]_vars =>
        [cluster.present /\ cluster'.present /\ cluster.token # None
         => /\ cluster'.token = cluster.token
            /\ cluster'.valid => cluster.valid]_vars
  BY <1>1
<1> QED
  BY <1>2, StableInductive, PTL DEF Spec, BootstrapTokenStable

-----------------------------------------------------------------------------
(* The secrets in Vault.  While a Cluster that is being deleted is          *)
(* reconciled, the secrets that the removal has passed are as the policy    *)
(* says, or were written behind its back.                                   *)

(* What the default policy allows to be left of a secret.                   *)
Treated == IF policy = "Delete" THEN {"none"} ELSE {"none", "deleted"}

(* The secrets that the removal has passed: all of them when it is done.    *)
Passed ==
    IF pc \in {"gitRepo", "common"} THEN Secrets
    ELSE IF pc \in {"readVersions", "removeVersions"} THEN Secrets \ todo ELSE {}

RemovedInv ==
    UseVault /\ obj.deleting /\ policy # "Retain"
    => \A s \in Passed : vault[s] \in Treated \/ s \in late

(* Nothing is claimed of a worker that is idle.                             *)
LEMMA IdleRemoved == Idle => RemovedInv'
BY DEF Idle, RemovedInv, Passed

(* The walk over the secrets.                                               *)
LEMMA RemovalSteps ==
    ASSUME TypeOK, RemovedInv,
           \/ CreateOrUpdateVault \/ ListSecrets \/ RemoveVersions \/ SecretsRemoved
           \/ \E s \in Secrets : ReadVersions(s)
    PROVE  RemovedInv'
<1>1. CASE CreateOrUpdateVault
  BY <1>1 DEF CreateOrUpdateVault, RemovedInv, Passed
<1>2. CASE ListSecrets
  BY <1>2 DEF ListSecrets, RemovedInv, Passed, Treated, outside
<1>3. ASSUME NEW s \in Secrets, ReadVersions(s) PROVE RemovedInv'
  BY <1>3 DEF ReadVersions, RemovedInv, Passed, Treated, outside
<1>4. CASE RemoveVersions
  <2>1. /\ pc = "removeVersions" /\ pc' = "readVersions" /\ todo' = todo \ {secret}
        /\ UNCHANGED <<policy, obj, late>> /\ secret \in Secrets
    BY <1>4 DEF RemoveVersions, TypeOK
  <2>2. \A s \in Secrets : s # secret => vault'[s] = vault[s]
    BY <1>4, <2>1 DEF RemoveVersions, TypeOK, Vault
  <2>3. policy # "Retain" /\ secret \notin late => vault'[secret] \in Treated
    BY <1>4, <2>1 DEF RemoveVersions, TypeOK, Vault, Treated
  <2> QED
    BY <2>1, <2>2, <2>3 DEF RemovedInv, Passed, Treated
<1>5. CASE SecretsRemoved
  BY <1>5 DEF SecretsRemoved, RemovedInv, Passed, Treated, outside, removal
<1> QED
  BY <1>1, <1>2, <1>3, <1>4, <1>5

(* Every step.                                                              *)
LEMMA RemovedStep == TypeOK /\ RemovedInv /\ [Next]_vars => RemovedInv'
<1> SUFFICES ASSUME TypeOK, RemovedInv, [Next]_vars PROVE RemovedInv'
  OBVIOUS
<1>1. CASE Start
  <2>1. CASE UNCHANGED worker
    BY <1>1, <2>1 DEF Start, worker, removal, outside, RemovedInv, Passed, Treated
  <2>2. CASE pc' = "vault"
    BY <2>2 DEF RemovedInv, Passed
  <2> QED
    BY <1>1, <2>1, <2>2 DEF Start
<1>2. CASE \/ CreateOrUpdateVault \/ ListSecrets \/ RemoveVersions \/ SecretsRemoved
           \/ \E s \in Secrets : ReadVersions(s)
  BY <1>2, RemovalSteps
<1>3. CASE \/ NoAccountToken \/ UnknownDeletionPolicy \/ NoTenant \/ HandleDeletionRefuses
           \/ UpdateStatus \/ CallFails \/ Crash
  BY <1>3, IdleRemoved DEF NoAccountToken, UnknownDeletionPolicy, NoTenant,
                           HandleDeletionRefuses, UpdateStatus, CallFails, Crash,
                           EndOk, EndWithError
<1>4. CASE CreateGitRepo \/ UpdateGitRepo
  <2>1. CASE Idle
    BY <2>1, IdleRemoved
  <2>2. CASE ~Idle
    <3>1. pc = "gitRepo" /\ UNCHANGED <<vault, policy, obj, late>>
      BY <1>4, <2>2 DEF CreateGitRepo, UpdateGitRepo, EndWithError, outside, removal
    <3>2. pc' = "common"
      BY <1>4, <2>2 DEF CreateGitRepo, UpdateGitRepo, EndWithError
    <3> QED
      BY <3>1, <3>2 DEF RemovedInv, Passed, Treated
  <2> QED
    BY <2>1, <2>2
<1>5. CASE UpdateObject
  <2>1. Idle \/ pc' = "status"
    BY <1>5 DEF UpdateObject, EndOk, EndWithError
  <2> QED
    BY <2>1, IdleRemoved DEF RemovedInv, Passed
<1>6. ASSUME NEW s \in OtherSecrets, WriteSecret(s) PROVE RemovedInv'
  <2>1. \A r \in Secrets : r # s => vault'[r] = vault[r]
    BY <1>6 DEF WriteSecret, TypeOK, Vault, Secrets
  <2>2. UNCHANGED <<pc, obj, policy, todo>>
    BY <1>6 DEF WriteSecret
  <2>3. late' = IF obj.deleting /\ pc # "vault" THEN late \cup {s} ELSE late
    BY <1>6 DEF WriteSecret
  <2> QED
    BY <2>1, <2>2, <2>3 DEF RemovedInv, Passed, Treated
<1>7. CASE \/ DeliverCluster \/ DeliverGitRepo \/ DeliverAccount
           \/ PopulateToken \/ SetURL \/ CollectOwned
           \/ CreateCluster \/ EditTemplate \/ EditProtection \/ DeleteCluster
           \/ UseBootstrapToken \/ CreateTenant \/ DeleteAccount \/ DeleteGitRepo
           \/ UNCHANGED vars
  <2>1. UNCHANGED <<vault, policy, pc, obj, todo, late>>
    BY <1>7 DEF DeliverCluster, DeliverGitRepo, DeliverAccount, PopulateToken, SetURL,
                CollectOwned, CreateCluster, EditTemplate, EditProtection, DeleteCluster,
                UseBootstrapToken, CreateTenant, DeleteAccount, DeleteGitRepo, Edit,
                Elsewhere, vars, outside, worker, removal
  <2> QED
    BY <2>1 DEF RemovedInv, Passed, Treated
<1> QED
  BY <1>1, <1>2, <1>3, <1>4, <1>5, <1>6, <1>7 DEF Next, System, Reconcile, Fault, Environment

(* Only the update of the object takes the finalizer from a Cluster, and    *)
(* only when that Cluster is being deleted.                                 *)
LEMMA FinalizerGoes ==
    ASSUME StableInv, [Next]_vars, cluster.finalizer, ~cluster'.finalizer
    PROVE  UpdateObject /\ obj.deleting
<1>1. cluster \in Cluster /\ cluster' # cluster /\ cluster.present
  BY NoObjectTypes DEF StableInv, TypeOK, CacheInv
<1>2. ASSUME NEW o \in Cluster, Write(o), o.finalizer PROVE FALSE
  BY <1>2 DEF Write, Settled
<1>3. CASE UpdateStatus
  BY <1>1, <1>2, <1>3, StatusUpdates
<1>4. CASE \/ CreateCluster \/ EditTemplate \/ EditProtection \/ DeleteCluster
           \/ UseBootstrapToken
  BY <1>1, <1>2, <1>4, Edits DEF StableInv, Edit
<1>5. CASE UpdateObject
  <2>1. ~obj.deleting => \E o \in Cluster : Write(o) /\ o.finalizer
    BY <1>1, <1>5, ObjectUpdates
  <2> QED
    BY <1>2, <1>5, <2>1
<1> QED
  BY <1>1, <1>3, <1>4, <1>5, ClusterSteps

(* When the operator takes its finalizer from a Cluster, every secret below *)
(* the Cluster's path in Vault has been removed or softly deleted as the    *)
(* default policy says, but for what others wrote after the removal had     *)
(* passed it (HandleVaultDeletion, removeSecret, handleDeletion).           *)
THEOREM SecretsAreReleased == Spec => SecretsReleasedByDefaultPolicy
<1>1. Init => RemovedInv
  BY DEF Init, RemovedInv, Passed
<1>2. ASSUME StableInv, RemovedInv, [Next]_vars, cluster.finalizer, ~cluster'.finalizer
      PROVE  ~UseVault \/ SecretsReleased(policy)
  <2>1. pc = "common" /\ obj.deleting
    BY <1>2, FinalizerGoes DEF UpdateObject
  <2> QED
    BY <1>2, <2>1 DEF RemovedInv, Passed, Treated, SecretsReleased
<1>3. StableInv /\ RemovedInv /\ [Next]_vars =>
        [cluster.finalizer /\ ~cluster'.finalizer
         => ~UseVault \/ SecretsReleased(policy)]_vars
  BY <1>2
<1>4. StableInv /\ RemovedInv /\ [Next]_vars => RemovedInv'
  BY RemovedStep DEF StableInv
<1> QED
  BY <1>1, <1>3, <1>4, StableInductive, PTL DEF Spec, SecretsReleasedByDefaultPolicy

-----------------------------------------------------------------------------
(* No work is lost.  As long as nothing is queued and the cached Cluster is *)
(* the stored one, what the worker has done, and what an ended              *)
(* reconciliation left, fits the caches.                                    *)

Prepared(o) == UseDeletionProtection => o.protection # "none"

VaultInStep == UseVault => accountCache \in AccountTokens /\ vault["steward"] = accountCache

(* A GitRepo that was written is not in the cache yet.                      *)
GitRepoInStep(o) == gitRepoFresh => gitRepoCache.present /\ gitRepoCache.template = o.template

URLInStep(o) == gitRepoFresh /\ o.template \notin UnmanagedTemplates => o.url = gitRepoCache.url

(* What an ended reconciliation left.                                       *)
LeftInv ==
    /\ ~cache.deleting /\ cache.finalizer /\ Prepared(cache) /\ cache.token # None
    /\ VaultInStep /\ GitRepoInStep(cache) /\ URLInStep(cache)

(* What a reconciliation has done: before updateObject the copy differs     *)
(* from the cached Cluster by its status only, and when nothing is written  *)
(* there, by nothing else after it.                                         *)
WorkInv ==
    /\ objFresh /\ orig = cache
    /\ obj.token # None /\ obj.deleting = orig.deleting
    /\ pc # "status" => obj = WithStatus(orig, obj)
    /\ pc = "status" => /\ ~orig.deleting /\ orig.finalizer /\ Prepared(orig)
                        /\ obj.template = orig.template /\ obj.url = orig.url
                        /\ URLInStep(obj)
    /\ pc \in {"gitRepo", "common", "status"} /\ ~obj.deleting => VaultInStep
    /\ pc \in {"common", "status"} => GitRepoInStep(obj)

RestInv ==
    /\ gitRepoFresh => gitRepoCache = gitRepo
    /\ pc \in {"vaultDeletion", "readVersions", "removeVersions"} => obj.deleting
    /\ ~queued /\ cacheFresh =>
          IF pc = "idle" THEN cache.present => LeftInv ELSE WorkInv

(* A reconciliation starts with the cached Cluster.                         *)
LEMMA StartRest == StableInv /\ RestInv /\ Start => RestInv'
<1> SUFFICES ASSUME StableInv, RestInv, Start PROVE RestInv'
  OBVIOUS
<1>1. UNCHANGED <<informer, gitRepo>> /\ pc = "idle"
  BY DEF Start
<1>2. CASE ~cache.present
  BY <1>1, <1>2 DEF Start, RestInv, informer, worker
<1>3. CASE cache.present
  <2>1. /\ cache \in Cluster /\ orig' = cache /\ objFresh' = cacheFresh /\ pc' = "vault"
        /\ obj' \in WithBootstrapToken(cache)
    BY <1>3 DEF Start, StableInv, TypeOK
  <2>2. obj'.token # None
    <3>1. ASSUME NEW k \in BootstrapTokens
          PROVE  [cache EXCEPT !.token = k, !.valid = TRUE].token # None
      BY <2>1, TokenAssumption DEF Cluster
    <3>2. cache.token # None => [cache EXCEPT !.valid = FALSE].token # None
      BY <2>1 DEF Cluster
    <3> QED
      BY <2>1, <3>1, <3>2 DEF WithBootstrapToken
  <2>3. obj' = WithStatus(cache, obj') /\ obj'.deleting = cache.deleting
    <3>1. ASSUME NEW k \in BootstrapTokens
          PROVE  LET o == [cache EXCEPT !.token = k, !.valid = TRUE] IN
                 o = WithStatus(cache, o) /\ o.deleting = cache.deleting
      BY <2>1 DEF Cluster, WithStatus
    <3>2. LET o == [cache EXCEPT !.valid = FALSE] IN
          o = WithStatus(cache, o) /\ o.deleting = cache.deleting
      BY <2>1 DEF Cluster, WithStatus
    <3>3. cache = WithStatus(cache, cache)
      BY <2>1 DEF Cluster, WithStatus
    <3> QED
      BY <2>1, <3>1, <3>2, <3>3 DEF WithBootstrapToken
  <2>4. cacheFresh' => WorkInv'
    BY <1>1, <2>1, <2>2, <2>3 DEF WorkInv, informer, WithStatus
  <2> QED
    BY <1>1, <2>1, <2>4 DEF RestInv, informer
<1> QED
  BY <1>2, <1>3

(* A Cluster whose reconciliation failed is in the queue.                   *)
LEMMA ErrorRest ==
    ASSUME RestInv, EndWithError, UNCHANGED gitRepoCache,
           gitRepoFresh' => gitRepoFresh /\ UNCHANGED gitRepo
    PROVE  RestInv'
BY DEF RestInv, EndWithError, Idle

(* The steps on Vault.                                                      *)
LEMMA VaultRest ==
    ASSUME StableInv, RestInv,
           \/ CreateOrUpdateVault \/ ListSecrets \/ RemoveVersions \/ SecretsRemoved
           \/ \E s \in Secrets : ReadVersions(s)
    PROVE  RestInv'
<1>1. /\ UNCHANGED <<gitRepo, cache, gitRepoCache, accountCache, cacheFresh, gitRepoFresh,
                    queued, obj, orig, objFresh>>
      /\ pc # "idle" /\ pc # "status" /\ pc' # "idle" /\ pc' # "status" /\ pc' # "common"
  BY DEF CreateOrUpdateVault, ListSecrets, RemoveVersions, SecretsRemoved, ReadVersions,
         store, informer
<1>2. pc' \in {"vaultDeletion", "readVersions", "removeVersions"} => obj.deleting
  BY DEF CreateOrUpdateVault, ListSecrets, RemoveVersions, SecretsRemoved, ReadVersions, RestInv
<1>3. pc' = "gitRepo" /\ ~obj.deleting => VaultInStep'
  <2>1. CASE CreateOrUpdateVault
    BY <1>1, <2>1 DEF CreateOrUpdateVault, VaultInStep, StableInv, TypeOK, Vault, Secrets
  <2> QED
    BY <2>1 DEF ListSecrets, RemoveVersions, SecretsRemoved, ReadVersions, RestInv
<1>4. ~queued /\ cacheFresh => WorkInv'
  BY <1>1, <1>3 DEF RestInv, WorkInv, WithStatus
<1> QED
  BY <1>1, <1>2, <1>4 DEF RestInv

(* The GitRepo: what is not written fits the template already.              *)
LEMMA GitRepoRest ==
    ASSUME StableInv, RestInv, CreateGitRepo \/ UpdateGitRepo
    PROVE  RestInv'
<1>1. CASE EndWithError
  <2>1. UNCHANGED <<gitRepo, gitRepoCache, gitRepoFresh>>
    BY <1>1 DEF CreateGitRepo, UpdateGitRepo, EndWithError, Idle
  <2> QED
    BY <1>1, <2>1, ErrorRest
<1>2. CASE pc' = "common"
  <2>1. /\ UNCHANGED <<cache, gitRepoCache, accountCache, cacheFresh, queued,
                       obj, orig, objFresh, vault>>
        /\ pc = "gitRepo"
        /\ gitRepoFresh' => gitRepoFresh /\ UNCHANGED gitRepo
        /\ gitRepoFresh' => gitRepoCache.present /\ gitRepoCache.template = obj.template
    BY <1>2 DEF CreateGitRepo, UpdateGitRepo, EndWithError, Idle, WriteGitRepo, outside
  <2>2. ~queued /\ cacheFresh => WorkInv'
    BY <1>2, <2>1 DEF RestInv, WorkInv, WithStatus, VaultInStep, GitRepoInStep
  <2> QED
    BY <1>2, <2>1, <2>2 DEF RestInv
<1> QED
  BY <1>1, <1>2 DEF CreateGitRepo, UpdateGitRepo

(* The fields that the update in memory leaves alone, and those it sets.    *)
LEMMA UpdatedFields ==
    ASSUME TypeOK, NEW o \in Cluster
    PROVE  LET u == WithFinalizer(WithDeletionProtection(WithURL(o))) IN
           /\ u.template = o.template
           /\ ~u.deleting => Prepared(u)
           /\ GitRepoInStep(o) => URLInStep(u)
<1> DEFINE w == WithURL(o)
           p == WithDeletionProtection(w)
           u == WithFinalizer(p)
<1>1. /\ w \in Cluster /\ w.template = o.template
      /\ GitRepoInStep(o) => URLInStep(w)
  <2> DEFINE v == [o EXCEPT !.url = gitRepoCache.url]
  <2>1. gitRepoCache.url \in BOOLEAN
    BY DEF TypeOK, GitRepo
  <2>2. v \in Cluster /\ v.template = o.template /\ v.url = gitRepoCache.url
    BY <2>1 DEF Cluster
  <2> HIDE DEF v
  <2>3. CASE gitRepoCache.present /\ gitRepoCache.template \notin UnmanagedTemplates
    <3>1. w = v
      BY <2>3 DEF WithURL, v
    <3> QED
      BY <2>2, <3>1 DEF URLInStep
  <2>4. CASE ~(gitRepoCache.present /\ gitRepoCache.template \notin UnmanagedTemplates)
    <3>1. w = o
      BY <2>4 DEF WithURL
    <3> QED
      BY <2>4, <3>1 DEF URLInStep, GitRepoInStep
  <2> QED
    BY <2>3, <2>4
<1> HIDE DEF w
<1>2. /\ p \in Cluster /\ p.template = w.template /\ p.url = w.url
      /\ ~p.deleting => Prepared(p)
  BY <1>1 DEF WithDeletionProtection, Cluster, Prepared
<1> HIDE DEF p
<1>3. /\ u.template = p.template /\ u.url = p.url
      /\ u.deleting = p.deleting /\ u.protection = p.protection
  BY <1>2 DEF WithFinalizer, Cluster
<1> HIDE DEF u
<1>4. /\ u.template = o.template
      /\ ~u.deleting => Prepared(u)
      /\ GitRepoInStep(o) => URLInStep(u)
  BY <1>1, <1>2, <1>3 DEF Prepared, URLInStep
<1> QED
  BY <1>4 DEF u, p, w

(* updateObject, first half: a Cluster that is being deleted is written.    *)
LEMMA UpdateObjectRest == StableInv /\ RestInv /\ UpdateObject => RestInv'
<1> SUFFICES ASSUME StableInv, RestInv, UpdateObject PROVE RestInv'
  OBVIOUS
<1> DEFINE o == WithFinalizer(WithDeletionProtection(WithURL(obj)))
           changed == WithSpecAndMeta(orig, o) # orig
<1>1. /\ pc = "common" /\ obj \in Cluster /\ orig \in Cluster /\ o \in Cluster
      /\ obj.deleting => obj.finalizer
      /\ UNCHANGED <<gitRepo, cache, gitRepoCache, accountCache, gitRepoFresh, vault>>
  BY ClusterTypes DEF UpdateObject, StableInv, TypeOK, outside
<1>2. /\ o.deleting = obj.deleting /\ o.finalizer = ~obj.deleting /\ o.token = obj.token
      /\ o.template = obj.template
      /\ ~o.deleting => Prepared(o)
      /\ GitRepoInStep(obj) => URLInStep(o)
  BY <1>1, UpdatedFacts, UpdatedFields DEF StableInv
<1> HIDE DEF o
<1>3. CASE ~changed
  <2>1. /\ obj' = o /\ pc' = "status" /\ UNCHANGED <<cacheFresh, queued, orig, objFresh>>
    BY <1>3 DEF UpdateObject, o
  <2>2. /\ orig.deleting = o.deleting /\ orig.finalizer = o.finalizer
        /\ orig.protection = o.protection
        /\ orig.template = o.template /\ orig.url = o.url
    <3> DEFINE w == [o EXCEPT !.token = orig.token, !.valid = orig.valid]
    <3>1. orig = w
      BY <1>3 DEF WithSpecAndMeta, WithStatus
    <3>2. /\ w.deleting = o.deleting /\ w.finalizer = o.finalizer
          /\ w.protection = o.protection /\ w.template = o.template /\ w.url = o.url
      BY <1>1 DEF Cluster
    <3> HIDE DEF w
    <3> QED
      BY <3>1, <3>2
  <2>3. ~queued /\ cacheFresh => WorkInv'
    <3> SUFFICES ASSUME ~queued, cacheFresh PROVE WorkInv'
      OBVIOUS
    <3>1. WorkInv
      BY <1>1 DEF RestInv
    <3>2. ~obj.deleting
      <4>1. obj.finalizer = orig.finalizer
        BY <1>1, <3>1 DEF WorkInv, WithStatus, Cluster
      <4> QED
        BY <1>1, <1>2, <2>2, <4>1
    <3>3. VaultInStep' /\ GitRepoInStep(obj)' /\ Prepared(orig)'
      BY <1>1, <1>2, <2>1, <2>2, <3>1, <3>2
      DEF WorkInv, VaultInStep, GitRepoInStep, Prepared
    <3>4. URLInStep(obj)'
      <4>1. URLInStep(o)
        BY <1>1, <1>2, <3>1 DEF WorkInv
      <4> QED
        BY <1>1, <2>1, <4>1 DEF URLInStep
    <3> QED
      BY <1>1, <1>2, <2>1, <2>2, <3>1, <3>2, <3>3, <3>4 DEF WorkInv, GitRepoInStep, URLInStep
  <2> QED
    BY <1>1, <2>1, <2>3 DEF RestInv
<1>4. CASE changed /\ objFresh
  <2>1. ~cacheFresh' /\ pc' = "status"
    BY <1>4 DEF UpdateObject, Write, o
  <2> QED
    BY <1>1, <2>1 DEF RestInv
<1>5. CASE changed /\ ~objFresh
  <2>1. (EndOk \/ EndWithError) /\ UNCHANGED cacheFresh
    BY <1>5 DEF UpdateObject, o
  <2>2. queued \/ ~cacheFresh
    BY <1>1, <1>5 DEF RestInv, WorkInv
  <2> QED
    BY <1>1, <2>1, <2>2 DEF RestInv, EndOk, EndWithError, Idle
<1> QED
  BY <1>3, <1>4, <1>5 DEF StableInv, TypeOK

(* updateObject, second half.                                               *)
LEMMA UpdateStatusRest == StableInv /\ RestInv /\ UpdateStatus => RestInv'
<1> SUFFICES ASSUME StableInv, RestInv, UpdateStatus PROVE RestInv'
  OBVIOUS
<1>1. /\ pc = "status" /\ pc' = "idle" /\ obj \in Cluster /\ orig \in Cluster
      /\ UNCHANGED <<gitRepo, cache, gitRepoCache, accountCache, gitRepoFresh, vault>>
      /\ queued => queued'
  BY DEF UpdateStatus, StableInv, TypeOK, outside, EndOk, EndWithError, Idle
<1>2. CASE WithStatus(orig, obj) = orig
  <2>1. UNCHANGED <<cacheFresh, queued>>
    BY <1>2 DEF UpdateStatus, EndOk
  <2>2. orig.token = obj.token
    BY <1>1, <1>2 DEF WithStatus, Cluster
  <2>3. ~queued /\ cacheFresh => LeftInv'
    BY <1>1, <2>1, <2>2 DEF RestInv, WorkInv, LeftInv, Prepared, VaultInStep,
                            GitRepoInStep, URLInStep
  <2> QED
    BY <1>1, <2>1, <2>3 DEF RestInv
<1>3. CASE WithStatus(orig, obj) # orig /\ objFresh
  BY <1>1, <1>3 DEF UpdateStatus, Write, RestInv
<1>4. CASE WithStatus(orig, obj) # orig /\ ~objFresh
  <2>1. UNCHANGED cacheFresh
    BY <1>4 DEF UpdateStatus
  <2>2. queued \/ ~cacheFresh
    BY <1>1, <1>4 DEF RestInv, WorkInv
  <2> QED
    BY <1>1, <2>1, <2>2 DEF RestInv
<1> QED
  BY <1>2, <1>3, <1>4 DEF StableInv, TypeOK

(* Events put the Cluster into the queue, and so does a restart.            *)
LEMMA DeliverRest ==
    ASSUME StableInv, RestInv,
           \/ DeliverCluster \/ DeliverGitRepo \/ DeliverAccount
           \/ NoAccountToken \/ UnknownDeletionPolicy \/ NoTenant
           \/ HandleDeletionRefuses \/ CallFails \/ Crash
    PROVE  RestInv'
<1>1. CASE DeliverCluster \/ DeliverGitRepo \/ DeliverAccount
  BY <1>1 DEF DeliverCluster, DeliverGitRepo, DeliverAccount, RestInv, store, worker
<1>2. CASE \/ NoAccountToken \/ UnknownDeletionPolicy \/ NoTenant
           \/ HandleDeletionRefuses \/ CallFails
  <2>1. EndWithError /\ UNCHANGED <<store, informer>>
    BY <1>2 DEF NoAccountToken, UnknownDeletionPolicy, NoTenant, HandleDeletionRefuses, CallFails
  <2> QED
    BY <2>1, ErrorRest DEF store, informer
<1>3. CASE Crash
  BY <1>3 DEF Crash, Idle, RestInv, store
<1> QED
  BY <1>1, <1>2, <1>3

(* What others store is another version, which the operator will hear of.   *)
LEMMA EnvironmentRest ==
    ASSUME StableInv, RestInv,
           PopulateToken \/ SetURL \/ CollectOwned \/ Environment
    PROVE  RestInv'
<1>1. CASE \/ CreateCluster \/ EditTemplate \/ EditProtection \/ DeleteCluster
           \/ UseBootstrapToken
  <2>1. PICK o \in Cluster : Edit(o)
    BY <1>1, Edits DEF StableInv
  <2> QED
    BY <2>1 DEF Edit, Write, Elsewhere, RestInv
<1>2. CASE SetURL \/ DeleteGitRepo \/ (CollectOwned /\ ~gitRepoFresh')
  <2>1. /\ UNCHANGED <<cache, accountCache, cacheFresh, queued, pc, obj, orig, objFresh, vault>>
        /\ UNCHANGED gitRepoCache /\ ~gitRepoFresh'
    BY <1>2 DEF SetURL, DeleteGitRepo, CollectOwned, WriteGitRepo, Elsewhere, outside
  <2>2. ~queued /\ cacheFresh => IF pc = "idle" THEN cache.present => LeftInv' ELSE WorkInv'
    BY <2>1 DEF RestInv, LeftInv, WorkInv, Prepared, VaultInStep, GitRepoInStep, URLInStep,
                WithStatus
  <2> QED
    BY <2>1, <2>2 DEF RestInv
<1>3. CASE \/ PopulateToken \/ CreateTenant \/ DeleteAccount
           \/ \E s \in OtherSecrets : WriteSecret(s)
           \/ (CollectOwned /\ gitRepoFresh')
  <2>1. /\ UNCHANGED <<cache, accountCache, cacheFresh, pc, obj, orig, objFresh>>
        /\ UNCHANGED <<gitRepo, gitRepoCache, gitRepoFresh>>
        /\ queued => queued'
    <3>1. CASE PopulateToken \/ DeleteAccount
      BY <3>1 DEF PopulateToken, DeleteAccount, Elsewhere
    <3>2. CASE CreateTenant
      BY <3>2 DEF CreateTenant, outside, informer, worker
    <3>3. CASE \E s \in OtherSecrets : WriteSecret(s)
      BY <3>3 DEF WriteSecret, store, informer
    <3>4. CASE CollectOwned /\ gitRepoFresh'
      BY <3>4 DEF CollectOwned, WriteGitRepo, Elsewhere
    <3> QED
      BY <1>3, <3>1, <3>2, <3>3, <3>4
  <2>2. vault'["steward"] = vault["steward"]
    BY <1>3, SecretAssumption DEF PopulateToken, CreateTenant, DeleteAccount, WriteSecret,
           CollectOwned, Elsewhere, outside, StableInv, TypeOK, Vault, Secrets
  <2>3. ~queued /\ cacheFresh => IF pc = "idle" THEN cache.present => LeftInv' ELSE WorkInv'
    BY <2>1, <2>2 DEF RestInv, LeftInv, WorkInv, Prepared, VaultInStep, GitRepoInStep,
                      URLInStep, WithStatus
  <2> QED
    BY <2>1, <2>3 DEF RestInv
<1> QED
  BY <1>1, <1>2, <1>3 DEF Environment

(* When nothing is queued for a Cluster or on its way to the operator, then *)
(* nothing is left to be done for it: for any tokens, secrets, templates    *)
(* and policies, with outdated caches, swallowed conflicts (updateObject),  *)
(* failing calls and crashes, no work is lost.                              *)
THEOREM NoWorkIsLost == Spec => []AtRestSettled
<1>1. Init => RestInv
  BY NoObjectTypes DEF Init, RestInv
<1>2. ASSUME StableInv, RestInv, [Next]_vars PROVE RestInv'
  <2>1. CASE Start \/ UpdateObject \/ UpdateStatus
    BY <1>2, <2>1, StartRest, UpdateObjectRest, UpdateStatusRest
  <2>2. CASE \/ CreateOrUpdateVault \/ ListSecrets \/ RemoveVersions \/ SecretsRemoved
             \/ \E s \in Secrets : ReadVersions(s)
             \/ CreateGitRepo \/ UpdateGitRepo
    BY <1>2, <2>2, VaultRest, GitRepoRest
  <2>3. CASE \/ DeliverCluster \/ DeliverGitRepo \/ DeliverAccount
             \/ NoAccountToken \/ UnknownDeletionPolicy \/ NoTenant
             \/ HandleDeletionRefuses \/ CallFails \/ Crash
    BY <1>2, <2>3, DeliverRest
  <2>4. CASE PopulateToken \/ SetURL \/ CollectOwned \/ Environment
    BY <1>2, <2>4, EnvironmentRest
  <2>5. CASE UNCHANGED vars
    BY <1>2, <2>5 DEF vars, store, outside, informer, worker, RestInv, LeftInv, WorkInv,
                      Prepared, VaultInStep, GitRepoInStep, URLInStep, WithStatus
  <2> QED
    BY <1>2, <2>1, <2>2, <2>3, <2>4, <2>5 DEF Next, System, Reconcile, Fault
<1>3. StableInv /\ RestInv => AtRestSettled
  BY DEF StableInv, CacheInv, RestInv, LeftInv, Prepared, VaultInStep, GitRepoInStep,
         URLInStep, AtRestSettled, AtRest
<1> QED
  BY <1>1, <1>2, <1>3, StableInductive, PTL DEF Spec
=============================================================================
