------------------------- MODULE ClusterReconcile -------------------------
(***************************************************************************)
(* One Cluster and what the Cluster controller keeps for it:               *)
(* controllers/cluster_controller.go with controllers/cluster/, vault/ and *)
(* controllers/gitrepo/utils.go.  The bootstrap token in its status, the   *)
(* service account, the copy of the account's token in Vault, the GitRepo  *)
(* of the same name, label, owner and finalizer.  Reconciliations of       *)
(* different Clusters share nothing, so one Cluster is enough.             *)
(*                                                                         *)
(* All reads are from informer caches.  Updates of the Cluster and of the  *)
(* GitRepo need the stored resourceVersion (objFresh, gitRepoFresh).       *)
(* A conflict in updateObject ends the reconciliation without an error and *)
(* without a retry, and no timer brings a Cluster back.                    *)
(***************************************************************************)
EXTENDS FiniteSets

CONSTANTS
    BootstrapTokens,        \* tokens that generateToken may return
    AccountTokens,          \* tokens Kubernetes may issue for the account
    OtherSecrets,           \* what others keep in Vault below <tenant>/<cluster>
    CreatedTemplates,       \* contents users give spec.gitRepoTemplate,
    EditedTemplates,        \* and those they change it to
    UnmanagedTemplates,     \* those with repoType unmanaged
    DefaultPolicies,        \* values of the default deletion policy
    OwnPolicies,            \* what users give spec.deletionPolicy, None to leave it
    UseVault,
    UseDeletionProtection,  \* LIEUTENANT_DELETE_PROTECTION
    ProtectionEdits,        \* what users write into the annotation
    None

ASSUME TokenAssumption    == /\ None \notin BootstrapTokens \cup AccountTokens
                             /\ {"none", "empty", "deleted", "other"} \cap AccountTokens = {}
ASSUME SecretAssumption   == {"steward", None} \cap OtherSecrets = {} /\ None # "steward"
ASSUME TemplateAssumption == CreatedTemplates # {}
ASSUME PolicyAssumption   ==
    /\ DefaultPolicies \subseteq {"Delete", "Archive", "Retain"} /\ DefaultPolicies # {}
    /\ OwnPolicies \subseteq {"Delete", "Archive", "Retain", None} /\ OwnPolicies # {}
ASSUME OptionAssumption   == /\ {UseVault, UseDeletionProtection} \subseteq BOOLEAN
                             /\ ProtectionEdits \subseteq {"none", "true", "false"}

Templates == CreatedTemplates \cup EditedTemplates

VARIABLES
    cluster,        \* the stored Cluster
    gitRepo,        \* the stored GitRepo of the same name
    account,        \* service account and its newest token secret
    tenant,         \* does the Tenant of spec.tenantRef exist
    vault,          \* the secrets below <tenant>/<cluster>
    policy,         \* the default deletion policy of the running operator
    cache,          \* the informers' copies
    gitRepoCache,
    accountCache,
    cacheFresh,     \* does the copy carry the stored resourceVersion
    gitRepoFresh,
    queued,         \* is the Cluster in the queue of the controller
    pc,             \* what Reconcile does next
    obj,            \* its copy of the Cluster
    orig,           \* data.originalObject
    objFresh,
    todo,           \* secrets that removeSecret has yet to remove
    secret,         \* the one whose versions it has read
    late            \* those with a version that it has not seen

store    == <<cluster, gitRepo, account, tenant>>
outside  == <<vault, policy>>
informer == <<cache, gitRepoCache, accountCache, cacheFresh, gitRepoFresh>>
removal  == <<todo, secret, late>>
worker   == <<pc, obj, orig, objFresh, removal>>
vars     == <<store, outside, informer, queued, worker>>

-----------------------------------------------------------------------------
(* The label and the owner reference are stored by the update that stores   *)
(* the finalizer, and go with the object.                                   *)
Cluster == [present : BOOLEAN, deleting : BOOLEAN, finalizer : BOOLEAN,
            protection : {"none", "true", "false"},
            template : Templates,
            own : OwnPolicies,                       \* spec.deletionPolicy
            url : BOOLEAN,                           \* spec.gitRepoURL is set
            token : BootstrapTokens \cup {None},     \* status.bootstrapToken
            valid : BOOLEAN]                         \* its tokenValid

NewCluster(t, p) == [present |-> TRUE, deleting |-> FALSE, finalizer |-> FALSE,
                     protection |-> "none", template |-> t, own |-> p, url |-> FALSE,
                     token |-> None, valid |-> FALSE]

NoCluster == [NewCluster(CHOOSE t \in CreatedTemplates : TRUE,
                         CHOOSE p \in OwnPolicies : TRUE) EXCEPT !.present = FALSE]

GitRepo == [present : BOOLEAN, template : Templates, url : BOOLEAN]

NewGitRepo(t) == [present |-> TRUE, template |-> t, url |-> FALSE]

NoGitRepo == [NewGitRepo(CHOOSE t \in CreatedTemplates : TRUE) EXCEPT !.present = FALSE]

Account == AccountTokens \cup {"none", "empty"}   \* empty: no token yet

Secrets == OtherSecrets \cup {"steward"}

(* The newest version of each.  KV version 2: none has no metadata, deleted *)
(* is softly deleted.                                                       *)
Vault == {v \in [Secrets -> AccountTokens \cup {"none", "deleted", "other"}] :
            v["steward"] # "other" /\ \A s \in OtherSecrets : v[s] \notin AccountTokens}

TypeOK ==
    /\ cluster \in Cluster /\ cache \in Cluster /\ cacheFresh \in BOOLEAN
    /\ gitRepo \in GitRepo /\ gitRepoCache \in GitRepo /\ gitRepoFresh \in BOOLEAN
    /\ account \in Account /\ accountCache \in Account
    /\ tenant \in BOOLEAN
    /\ vault \in Vault /\ policy \in DefaultPolicies
    /\ queued \in BOOLEAN
    /\ pc \in {"idle", "vault", "vaultDeletion", "readVersions", "removeVersions",
               "gitRepo", "common", "status"}
    /\ todo \subseteq Secrets /\ late \subseteq Secrets
    /\ secret \in Secrets \cup {None} /\ (pc = "removeVersions" => secret \in todo)
    /\ obj \in Cluster /\ orig \in Cluster /\ objFresh \in BOOLEAN
    /\ pc # "idle" => obj.present

Init ==
    /\ cluster = NoCluster /\ gitRepo = NoGitRepo /\ account = "none"
    /\ tenant = FALSE
    /\ vault = [s \in Secrets |-> "none"] /\ policy \in DefaultPolicies
    /\ cache = NoCluster /\ gitRepoCache = NoGitRepo /\ accountCache = "none"
    /\ cacheFresh = TRUE /\ gitRepoFresh = TRUE
    /\ queued = FALSE
    /\ pc = "idle" /\ obj = NoCluster /\ orig = NoCluster /\ objFresh = FALSE
    /\ todo = {} /\ secret = None /\ late = {}

-----------------------------------------------------------------------------
(* The API server.                                                          *)

Settled(o) == IF o.deleting /\ ~o.finalizer THEN NoCluster ELSE o

(* Someone stores another version of the Cluster.                           *)
Write(o) ==
    /\ cluster' = Settled(o)
    /\ cacheFresh' = FALSE

WithStatus(s, o) == [s EXCEPT !.token = o.token, !.valid = o.valid]

WithSpecAndMeta(s, o) == WithStatus(o, s)

WriteGitRepo(g) ==
    /\ gitRepo' = g
    /\ gitRepoFresh' = FALSE

-----------------------------------------------------------------------------
Idle ==
    /\ pc' = "idle" /\ obj' = NoCluster /\ orig' = NoCluster /\ objFresh' = FALSE
    /\ todo' = {} /\ secret' = None /\ late' = {}

EndOk == Idle /\ UNCHANGED queued

(* Mutant: an error does not put the Cluster back.                          *)
EndWithErrorSwallowed == EndOk

EndWithError == Idle /\ queued' = TRUE

(* setBootstrapToken: what the status becomes.  Tokens are random, so a new *)
(* one is not in use.  Its validUntil passes at any time.                   *)
WithBootstrapToken(o) ==
    IF o.token = None
    THEN {[o EXCEPT !.token = k, !.valid = TRUE] :
              k \in BootstrapTokens \ {cluster.token}}
    ELSE {o, [o EXCEPT !.valid = FALSE]}

(* Mutant: a Cluster that is not found is reconciled all the same.          *)
StartUnchecked ==
    /\ pc = "idle" /\ queued /\ queued' = FALSE
    /\ account' = IF account = "none" THEN "empty" ELSE account
    /\ obj' \in WithBootstrapToken(cache)
    /\ orig' = cache /\ objFresh' = cacheFresh
    /\ pc' = "vault"
    /\ UNCHANGED <<cluster, gitRepo, tenant, outside, informer, removal>>

(* createClusterRBAC makes what is missing: account, token secret, role and *)
(* binding; then the bootstrap token, in memory.                            *)
Start ==
    /\ pc = "idle" /\ queued /\ queued' = FALSE
    /\ \/ /\ ~cache.present
          /\ UNCHANGED <<account, worker>>
       \/ /\ cache.present
          /\ account' = IF account = "none" THEN "empty" ELSE account
          /\ obj' \in WithBootstrapToken(cache)
          /\ orig' = cache /\ objFresh' = cacheFresh
          /\ pc' = "vault" /\ UNCHANGED removal
    /\ UNCHANGED <<cluster, gitRepo, tenant, outside, informer>>

(* CreateOrUpdateVault, also for a Cluster that is being deleted.           *)
CreateOrUpdateVault ==
    /\ pc = "vault" /\ (UseVault => accountCache \in AccountTokens)
    /\ vault' = IF UseVault THEN [vault EXCEPT !["steward"] = accountCache] ELSE vault
    /\ pc' = IF UseVault /\ obj.deleting THEN "vaultDeletion" ELSE "gitRepo"
    /\ UNCHANGED <<store, policy, informer, queued, obj, orig, objFresh, removal>>

(* GetServiceAccountToken: no matching secrets found.                       *)
NoAccountToken ==
    /\ pc = "vault" /\ UseVault /\ accountCache \notin AccountTokens
    /\ EndWithError
    /\ UNCHANGED <<store, outside, informer>>

(* HandleVaultDeletion: listSecrets.  What is in directories is part of the *)
(* one list.                                                                *)
ListSecrets ==
    /\ pc = "vaultDeletion" /\ pc' = "readVersions"
    /\ todo' = {s \in Secrets : vault[s] # "none"} /\ late' = {}
    /\ UNCHANGED <<store, outside, informer, queued, obj, orig, objFresh, secret>>

ReadVersions(s) ==
    /\ pc = "readVersions" /\ s \in todo /\ policy # "Retain"
    /\ secret' = s /\ late' = late \ {s}
    /\ pc' = "removeVersions"
    /\ UNCHANGED <<store, outside, informer, queued, obj, orig, objFresh, todo>>

(* Mutant: a soft deletion that names no versions.                          *)
RemoveNoVersions ==
    /\ pc = "removeVersions"
    /\ vault' = IF policy = "Delete" THEN [vault EXCEPT ![secret] = "none"] ELSE vault
    /\ todo' = todo \ {secret} /\ secret' = None /\ pc' = "readVersions"
    /\ UNCHANGED <<store, policy, informer, queued, obj, orig, objFresh, late>>

(* By the default policy: the policy of the Cluster is not looked at.       *)
(* Metadata goes with all versions, a soft deletion names those it read.    *)
RemoveVersions ==
    /\ pc = "removeVersions"
    /\ vault' = [vault EXCEPT ![secret] = IF policy = "Delete" THEN "none"
                                          ELSE IF secret \in late THEN @ ELSE "deleted"]
    /\ todo' = todo \ {secret} /\ secret' = None /\ pc' = "readVersions"
    /\ UNCHANGED <<store, policy, informer, queued, obj, orig, objFresh, late>>

SecretsRemoved ==
    /\ pc = "readVersions" /\ todo = {} /\ pc' = "gitRepo"
    /\ UNCHANGED <<store, outside, informer, queued, obj, orig, objFresh, removal>>

(* removeSecret: unknown DeletionPolicy, skipping.                          *)
UnknownDeletionPolicy ==
    /\ pc = "readVersions" /\ todo # {} /\ policy = "Retain"
    /\ EndWithError
    /\ UNCHANGED <<store, outside, informer>>

(* setTenantOwner or applyClusterTemplateFromTenant: no tenant.             *)
NoTenant ==
    /\ pc = "gitRepo" /\ ~tenant
    /\ EndWithError
    /\ UNCHANGED <<store, outside, informer>>

(* gitrepo.CreateOrUpdate, from the cached GitRepo.                         *)
CreateGitRepo ==
    /\ pc = "gitRepo" /\ tenant /\ ~gitRepoCache.present
    /\ \/ /\ ~gitRepo.present
          /\ WriteGitRepo(NewGitRepo(obj.template))
          /\ pc' = "common" /\ UNCHANGED <<queued, obj, orig, objFresh, removal>>
       \/ /\ gitRepo.present     \* already exists
          /\ EndWithError /\ UNCHANGED <<gitRepo, gitRepoFresh>>
    /\ UNCHANGED <<cluster, account, tenant, outside, cache, gitRepoCache,
                   accountCache, cacheFresh>>

(* Mutant: a GitRepo that is there is left as it is.                        *)
UpdateGitRepoNever ==
    /\ pc = "gitRepo" /\ tenant /\ gitRepoCache.present
    /\ pc' = "common"
    /\ UNCHANGED <<store, outside, informer, queued, obj, orig, objFresh, removal>>

UpdateGitRepo ==
    /\ pc = "gitRepo" /\ tenant /\ gitRepoCache.present
    /\ \/ /\ gitRepoCache.template = obj.template
          /\ pc' = "common"
          /\ UNCHANGED <<gitRepo, gitRepoFresh, queued, obj, orig, objFresh, removal>>
       \/ /\ gitRepoCache.template # obj.template /\ gitRepoFresh
          /\ WriteGitRepo([gitRepo EXCEPT !.template = obj.template])
          /\ pc' = "common" /\ UNCHANGED <<queued, obj, orig, objFresh, removal>>
       \/ /\ gitRepoCache.template # obj.template /\ ~gitRepoFresh
          /\ EndWithError /\ UNCHANGED <<gitRepo, gitRepoFresh>>
    /\ UNCHANGED <<cluster, account, tenant, outside, cache, gitRepoCache,
                   accountCache, cacheFresh>>

-----------------------------------------------------------------------------
(* UpdateURLAndHostKeys, then pipeline.Common.                              *)

Protected(o) == o.protection = "true"

WithURL(o) ==
    IF gitRepoCache.present /\ gitRepoCache.template \notin UnmanagedTemplates
    THEN [o EXCEPT !.url = gitRepoCache.url] ELSE o

WithDeletionProtection(o) ==
    IF UseDeletionProtection /\ ~o.deleting /\ o.protection = "none"
    THEN [o EXCEPT !.protection = "true"] ELSE o

WithFinalizer(o) == [o EXCEPT !.finalizer = ~o.deleting]

HandleDeletionRefuses ==
    /\ pc = "common" /\ obj.deleting /\ (Protected(obj) \/ ~obj.finalizer)
    /\ EndWithError
    /\ UNCHANGED <<store, outside, informer>>

(* updateObject, first half: a conflict is not an error.                    *)
UpdateObject ==
    /\ pc = "common" /\ ~(obj.deleting /\ (Protected(obj) \/ ~obj.finalizer))
    /\ LET o == WithFinalizer(WithDeletionProtection(WithURL(obj)))
           changed == WithSpecAndMeta(orig, o) # orig IN
       \/ /\ ~changed
          /\ obj' = o /\ pc' = "status"
          /\ UNCHANGED <<cluster, cacheFresh, queued, orig, objFresh, removal>>
       \/ /\ changed /\ objFresh
          /\ Write(WithSpecAndMeta(cluster, o))
          /\ obj' = o /\ objFresh' = FALSE /\ pc' = "status"
          /\ UNCHANGED <<queued, orig, removal>>
       \/ /\ changed /\ ~objFresh
          /\ IF cluster.present THEN EndOk ELSE EndWithError
          /\ UNCHANGED <<cluster, cacheFresh>>
    /\ UNCHANGED <<gitRepo, account, tenant, outside, gitRepoCache, accountCache,
                   cache, gitRepoFresh>>

(* Mutant: the status is patched, whatever version is stored.               *)
UpdateStatusBlindly ==
    /\ pc = "status"
    /\ \/ /\ WithStatus(orig, obj) = orig
          /\ EndOk /\ UNCHANGED <<cluster, cacheFresh>>
       \/ /\ WithStatus(orig, obj) # orig /\ cluster.present
          /\ Write(WithStatus(cluster, obj)) /\ EndOk
       \/ /\ WithStatus(orig, obj) # orig /\ ~cluster.present
          /\ EndWithError /\ UNCHANGED <<cluster, cacheFresh>>
    /\ UNCHANGED <<gitRepo, account, tenant, outside, gitRepoCache, accountCache,
                   cache, gitRepoFresh>>

(* updateObject, second half, with the resourceVersion from before the      *)
(* first.                                                                   *)
UpdateStatus ==
    /\ pc = "status"
    /\ \/ /\ WithStatus(orig, obj) = orig
          /\ EndOk /\ UNCHANGED <<cluster, cacheFresh>>
       \/ /\ WithStatus(orig, obj) # orig /\ objFresh
          /\ Write(WithStatus(cluster, obj)) /\ EndOk
       \/ /\ WithStatus(orig, obj) # orig /\ ~objFresh
          /\ IF cluster.present THEN EndOk ELSE EndWithError
          /\ UNCHANGED <<cluster, cacheFresh>>
    /\ UNCHANGED <<gitRepo, account, tenant, outside, gitRepoCache, accountCache,
                   cache, gitRepoFresh>>

-----------------------------------------------------------------------------
(* SetupWithManager: the Cluster itself and what it owns.                   *)

DeliverCluster ==
    /\ ~cacheFresh
    /\ cache' = cluster /\ cacheFresh' = TRUE /\ queued' = TRUE
    /\ UNCHANGED <<store, outside, gitRepoCache, accountCache, gitRepoFresh, worker>>

DeliverGitRepo ==
    /\ ~gitRepoFresh
    /\ gitRepoCache' = gitRepo /\ gitRepoFresh' = TRUE /\ queued' = TRUE
    /\ UNCHANGED <<store, outside, cache, accountCache, cacheFresh, worker>>

DeliverAccount ==
    /\ accountCache # account
    /\ accountCache' = account /\ queued' = TRUE
    /\ UNCHANGED <<store, outside, cache, gitRepoCache, cacheFresh, gitRepoFresh, worker>>

(* A call to the API server or to Vault fails.                              *)
CallFails ==
    /\ pc # "idle" /\ EndWithError
    /\ UNCHANGED <<store, outside, informer>>

(* The operator restarts, perhaps with another default policy.              *)
Crash ==
    /\ Idle
    /\ policy' \in DefaultPolicies
    /\ cache' = cluster /\ gitRepoCache' = gitRepo /\ accountCache' = account
    /\ cacheFresh' = TRUE /\ gitRepoFresh' = TRUE
    /\ queued' = cluster.present
    /\ UNCHANGED <<store, vault>>

-----------------------------------------------------------------------------
(* Kubernetes, the GitRepo controller, the API and users.                   *)

Elsewhere == UNCHANGED <<outside, cache, gitRepoCache, accountCache, queued,
                         pc, obj, orig, removal>>

(* The token controller fills the secret, and replaces one that is gone.    *)
PopulateToken ==
    /\ account = "empty"
    /\ account' \in AccountTokens
    /\ UNCHANGED <<cluster, gitRepo, tenant, cacheFresh, gitRepoFresh, objFresh>>
    /\ Elsewhere

(* The GitRepo controller stores the url of the project.                    *)
SetURL ==
    /\ gitRepo.present /\ ~gitRepo.url /\ gitRepo.template \notin UnmanagedTemplates
    /\ WriteGitRepo([gitRepo EXCEPT !.url = TRUE])
    /\ UNCHANGED <<cluster, account, tenant, cacheFresh, objFresh>>
    /\ Elsewhere

(* The garbage collector, once the owner is gone.                           *)
CollectOwned ==
    /\ ~cluster.present /\ (gitRepo.present \/ account # "none")
    /\ \/ /\ gitRepo.present
          /\ WriteGitRepo(NoGitRepo) /\ UNCHANGED account
       \/ /\ account # "none"
          /\ account' = "none" /\ UNCHANGED <<gitRepo, gitRepoFresh>>
    /\ UNCHANGED <<cluster, tenant, cacheFresh, objFresh>>
    /\ Elsewhere

Edit(o) ==
    /\ o # cluster
    /\ Write(o) /\ objFresh' = FALSE
    /\ UNCHANGED <<gitRepo, account, tenant, gitRepoFresh>>
    /\ Elsewhere

CreateCluster ==
    ~cluster.present
        /\ \E t \in CreatedTemplates, p \in OwnPolicies : Edit(NewCluster(t, p))

EditTemplate ==
    cluster.present
        /\ \E t \in EditedTemplates : Edit([cluster EXCEPT !.template = t])

EditProtection ==
    cluster.present
        /\ \E p \in ProtectionEdits : Edit([cluster EXCEPT !.protection = p])

DeleteCluster == cluster.present /\ Edit([cluster EXCEPT !.deleting = TRUE])

(* Steward registers with the token: the API clears tokenValid.             *)
UseBootstrapToken ==
    cluster.present /\ cluster.valid /\ Edit([cluster EXCEPT !.valid = FALSE])

(* A Tenant brings back the Clusters that carry its label.                  *)
CreateTenant ==
    /\ ~tenant /\ tenant' = TRUE
    /\ queued' = (queued \/ (cache.present /\ cache.finalizer))
    /\ UNCHANGED <<cluster, gitRepo, account, outside, informer, worker>>

DeleteAccount ==
    /\ account # "none" /\ account' = "none"
    /\ UNCHANGED <<cluster, gitRepo, tenant, cacheFresh, gitRepoFresh, objFresh>>
    /\ Elsewhere

DeleteGitRepo ==
    /\ gitRepo.present /\ WriteGitRepo(NoGitRepo)
    /\ UNCHANGED <<cluster, account, tenant, cacheFresh, objFresh>>
    /\ Elsewhere

(* Users store a secret of the Cluster.                                     *)
WriteSecret(s) ==
    /\ vault' = [vault EXCEPT ![s] = "other"]
    /\ late' = IF obj.deleting /\ pc # "vault" THEN late \cup {s} ELSE late
    /\ <<vault', late'>> # <<vault, late>>
    /\ UNCHANGED <<store, policy, informer, queued, pc, obj, orig, objFresh, todo, secret>>

-----------------------------------------------------------------------------
Reconcile ==
    \/ CreateOrUpdateVault \/ NoAccountToken
    \/ ListSecrets \/ RemoveVersions \/ SecretsRemoved \/ UnknownDeletionPolicy
    \/ \E s \in Secrets : ReadVersions(s)
    \/ NoTenant \/ CreateGitRepo \/ UpdateGitRepo
    \/ HandleDeletionRefuses \/ UpdateObject \/ UpdateStatus

System ==
    \/ Start \/ Reconcile
    \/ DeliverCluster \/ DeliverGitRepo \/ DeliverAccount
    \/ PopulateToken \/ SetURL \/ CollectOwned

Fault == CallFails \/ Crash

Environment ==
    \/ CreateCluster \/ EditTemplate \/ EditProtection \/ DeleteCluster
    \/ UseBootstrapToken
    \/ CreateTenant \/ DeleteAccount \/ DeleteGitRepo
    \/ \E s \in OtherSecrets : WriteSecret(s)

Next == System \/ Fault \/ Environment

Spec == Init /\ [][Next]_vars

(* The worker goes on, watches deliver, Kubernetes issues tokens and        *)
(* collects garbage, the GitRepo controller creates the project.            *)
FairSpec ==
    /\ Spec
    /\ WF_vars(Start) /\ WF_vars(Reconcile)
    /\ WF_vars(DeliverCluster) /\ WF_vars(DeliverGitRepo) /\ WF_vars(DeliverAccount)
    /\ WF_vars(PopulateToken) /\ WF_vars(SetURL) /\ WF_vars(CollectOwned)

-----------------------------------------------------------------------------
(* A Cluster is registered with one bootstrap token: once stored it is not  *)
(* replaced, and once used or outlived it never becomes valid again,        *)
(* although the token is generated from a cached status and the API writes  *)
(* to the same status (setBootstrapToken, updateObject).                    *)
BootstrapTokenStable ==
    [][cluster.present /\ cluster'.present /\ cluster.token # None
       => /\ cluster'.token = cluster.token
          /\ cluster'.valid => cluster.valid]_vars

(* How the secrets are to be left under the deletion policy p, but for what *)
(* others write behind the back of the removal.                             *)
SecretsReleased(p) ==
    \A s \in Secrets \ late : /\ p = "Delete"  => vault[s] = "none"
                             /\ p = "Archive" => vault[s] \in {"none", "deleted"}

(* When the operator lets a Cluster go, its secrets have been treated as    *)
(* the default deletion policy of the operator says, whatever the Cluster's *)
(* own policy, although they are removed one by one, any call may fail half *)
(* way and everything is retried, and every reconciliation of a Cluster     *)
(* that is being deleted stores its token again first (getVaultClient;      *)
(* CreateOrUpdateVault before HandleVaultDeletion before handleFinalizer).  *)
SecretsReleasedByDefaultPolicy ==
    [][cluster.finalizer /\ ~cluster'.finalizer
       => ~UseVault \/ SecretsReleased(policy)]_vars

(* The policy that the documentation gives a Cluster, and the code only its *)
(* GitRepo: its own, or the default where it has none.                      *)
Declared(o) == IF o.own = None THEN policy ELSE o.own

(* Documented: the deletion policy of the object says what becomes of its   *)
(* external resources, for example its secrets in Vault.  None is removed   *)
(* under Retain, and all have been treated accordingly when the operator    *)
(* lets the Cluster go (getVaultClient, HandleVaultDeletion).               *)
SecretsReleasedAsDeclared ==
    [][/\ pc = "removeVersions" /\ vault' # vault => Declared(obj) # "Retain"
       /\ pc = "common" /\ cluster.finalizer /\ ~cluster'.finalizer
              => ~UseVault \/ SecretsReleased(Declared(obj))]_vars

(* Nothing is queued for the Cluster, or on its way to the operator.        *)
AtRest == pc = "idle" /\ ~queued /\ cacheFresh /\ gitRepoFresh /\ accountCache = account

(* No work is ever lost: a Cluster at rest is not being deleted, has its    *)
(* finalizer, its protection and a bootstrap token, its GitRepo follows its *)
(* template, it shows the url of that GitRepo, and Vault holds the token of *)
(* its service account, although updateObject swallows conflicts, the       *)
(* status is written with the version that the update before it outdated,   *)
(* and no timer brings a Cluster back.                                      *)
AtRestSettled ==
    cluster.present /\ AtRest
    => /\ ~cluster.deleting /\ cluster.finalizer /\ cluster.token # None
       /\ UseDeletionProtection => cluster.protection # "none"
       /\ gitRepo.present /\ gitRepo.template = cluster.template
       /\ cluster.template \notin UnmanagedTemplates => cluster.url = gitRepo.url
       /\ UseVault => account \in AccountTokens /\ vault["steward"] = account

Quiet == <>[][System]_vars

(* Watch events and failed reconciliations alone bring a Cluster to where   *)
(* it belongs, although conflicts are swallowed, the first status update    *)
(* always conflicts and no timer runs: it has its finalizer, a bootstrap    *)
(* token and the url of its GitRepo.                                        *)
ClusterSettles ==
    Quiet => <>[](cluster.present /\ ~cluster.deleting /\ tenant
                  => /\ cluster.finalizer /\ cluster.token # None
                     /\ gitRepo.present /\ gitRepo.template = cluster.template
                     /\ (gitRepo.template \notin UnmanagedTemplates => cluster.url))

(* Vault comes to hold the token of the service account, also after the     *)
(* account was deleted and made again (createClusterRBAC,                   *)
(* CreateOrUpdateVault).                                                    *)
VaultGetsInStep ==
    Quiet => <>[](cluster.present /\ ~cluster.deleting /\ UseVault
                  => account \in AccountTokens /\ vault["steward"] = account)

(* A Cluster that is deleted and not protected goes, unless the default     *)
(* policy is Retain, which is an error each time (HandleVaultDeletion,      *)
(* UnknownDeletionPolicy, handleDeletion, updateObject).                    *)
DeletedClusterGoes ==
    Quiet => <>[](cluster.present /\ cluster.deleting
                  => Protected(cluster) \/ policy = "Retain")
=============================================================================
