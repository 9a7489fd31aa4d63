# A model of the Lieutenant operator

The Lieutenant operator is a Kubernetes operator. It turns `Tenant`, `Cluster`
and `GitRepo` objects into projects in GitLab, secrets in Vault, service
accounts and roles, and keeps them so. This directory models its controllers in
TLA+, checks them with TLC on small instances, and proves the most important
facts with TLAPS for every instance.

## The system

| part | state it keeps | operations | talks to |
|---|---|---|---|
| GitRepo controller (`controllers/gitrepo_controller.go`, `controllers/gitrepo/steps.go`) | `GitRepo.status` (phase, url, type, keys, variables), finalizer, protection annotation | one reconciliation: find, claim, create, adopt, manage or remove the project | API server, GitLab client |
| Pipeline of steps (`pipeline/`) | none of its own | runs steps until one asks to stop; `Common` does protection, finalizer and the two updates | API server |
| GitLab client (`git/gitlab/gitlab.go`, `git/manager`, `git/helpers`) | none; the state is GitLab's | Create, Read, Update, Remove, deploy keys, CI variables, access tokens, files | GitLab |
| Cluster controller (`controllers/cluster_controller.go`, `controllers/cluster/`) | label, owner, finalizer, bootstrap token, spec defaults | RBAC, token, Vault, owner, template, GitRepo, deletion | API server, Vault |
| Tenant controller (`controllers/tenant_controller.go`, `controllers/tenant/`) | template files, defaults, RBAC | template, files, role, GitRepo | API server |
| Compile pipeline controller (`controllers/tenant_compile_pipeline_controller.go`) | CI variables in `Tenant.spec`, `Tenant.status.compilePipeline`, a finalizer on Clusters | one reconciliation of a Tenant and its Clusters | API server |
| Vault client (`vault/`) | none; the state is Vault's | write, soft-delete or destroy the secret of a Cluster | Vault |
| CI variable watcher (`controllers/gitrepo/watchers`) | none | enqueues GitRepos whose secret changed | informers |
| Metrics, `main.go` | none | read-only collectors; start-up | - |

The controllers never call each other. They interact through the objects in the
API server, which each of them reads from an informer cache that may lag and
writes with optimistic concurrency (a write is refused unless the writer read
the stored `resourceVersion`), through watches that put object names into a
queue per controller, and through owner references, which the garbage collector
follows. GitLab and Vault raise no events and check no versions.

What is hard in this code follows from that: a decision is taken from a copy and
acted on later; several calls make up one step and any of them may fail, or the
process may stop between two of them; the order of an external effect and the
object update that records it decides what a crash leaves behind; whatever a
dropped conflict or an external change leaves undone must be picked up by some
later event.

What makes each part correct:

- GitRepo: a project of somebody else is left alone, unless a GitRepo may adopt
  it or its claim was under way when the project appeared; what was created
  stays claimed and is managed; an object that goes leaves its project as the deletion policy
  says; the stored objects settle.
- Compile pipeline: a Tenant names no Cluster that is gone, as far as the four
  updates can see to it; variables and status follow the Clusters; deletions are
  not blocked.
- Cluster: the bootstrap token is unique and stays invalid once invalid; Vault
  holds the token as long as the Cluster lives and what the operator's policy
  says after.
- Tenant: the role comes to name the Tenant's clusters, and no others in the end; every cluster has its
  class file, and no other cluster has one.
- Repository content: what Lieutenant put into a project it also removes, and
  nothing else.

`PROJECT.json` lists the hazards line by line, with the property that watches
each.

## Modules

| module | models |
|---|---|
| `GitRepoLifecycle` | the GitRepo controller with its pipeline and GitLab calls, several GitRepos that name one project |
| `MCGitRepoLifecycle` | its instances for TLC |
| `GitRepoLifecycleProofs`, `GitRepoReleaseProofs`, `GitRepoRestProofs` | its theorems: types and claims; what a GitRepo that goes leaves; that no work is lost |
| `ProjectOwnership` | the abstract specification that `GitRepoLifecycle` implements: who may make, manage, archive or remove a project |
| `GitRepoOwnershipProofs` | the proof that it does |
| `RepoSync` | the inside of a managed project: generated deploy keys, access token, CI variables, template files, deploy keys, and the CI variable watcher |
| `RepoSyncProofs` | its theorems |
| `CompilePipeline` | the compile pipeline controller, with the Cluster controller as far as labels, owners and finalizers go |
| `MCCompilePipeline` | its instances for TLC |
| `CompilePipelineProofs` | its theorems |
| `ClusterReconcile` | the Cluster controller with its Vault steps: bootstrap token, service account, secret, GitRepo, url, finalizer, deletion |
| `MCClusterReconcile` | its instances for TLC |
| `ClusterReconcileProofs` | its theorems |
| `TenantReconcile` | the Tenant controller: template files, GitRepo and Role of a Tenant, from the Clusters that come, move and go |
| `MCTenantReconcile` | its instances for TLC |
| `TenantReconcileProofs` | its theorems |

### Conventions shared by the modules

One action is the code between two calls that leave the process, so any other
actor may act between two calls. A reconciliation is a program counter `pc` and
the copies the code holds (`obj`, `orig`, or `read`, `listed`).

A `resourceVersion` is never represented as a number. The code only ever asks
whether a copy carries the stored version, so each copy has a flag that says so
(`cacheFresh`, `objFresh`, ...): it is set when the copy is taken and cleared
when someone else stores another version. A cache may be outdated for as long
as the behaviour likes, but what it delivers is the stored object (informers
skip versions, they do not invent any).

A crash forgets the reconciliation and starts with synchronised caches and all
objects in the queue. Any call to the API server or GitLab may fail. A failing
reconciliation goes back into the queue; which of several calls in one action
failed is abstracted to "none had an effect", except where a partial effect
matters (`CreatePartially`, `ManageFails`).

### GitRepoLifecycle

State: `api` (stored objects with spec, deletion timestamp, finalizer,
annotation, `status.url`, `status.phase`), `template` (what the owning Tenant
or Cluster asks for, which `fetchGitRepoTemplate` writes over the spec in
memory), `project` (the one project at the path, with ghost fields: who created
it, was it there before any claim was stored, has Lieutenant managed it), the cache, the
queue, and the worker.

| action | code |
|---|---|
| `Start` | `Reconcile` up to the read of the project: Get, template, protection against unmanaged types |
| `FindProject`, `RefuseProject`, `MissProject` | `repoExists` and the three branches after it |
| `Claim`, `ClaimConflicts` | the status update that stores `status.url` before the project is created |
| `CreateProject`, `ProjectNameTaken`, `CreateFails`, `CreatePartially`, `RevertClaim` | `Gitlab.Create` and the revert of the claim after an error |
| `ManageProject`, `ManagedProjectGone`, `ManageFails` | `Update`, tokens, variables and files of a managed project |
| `RemoveProject`, `RemovedProjectGone` | `Gitlab.Remove` by deletion policy |
| `HandleRepoError`, `StoreErrorFails` | `handleRepoError`: phase failed, the error is returned |
| `UpdateObject`, `UpdateStatus` | `pipeline.Common`: protection, finalizer, `updateObject`, with its swallowed conflict |
| `Deliver`, `Resync` | the watch and `RequeueAfter` |
| `CreateObject` ... `ForeignDelete` | users, owners, other tools in GitLab |

### ProjectOwnership and its implementation

`ProjectOwnership` has no caches, versions, queue or program counter. Its state
is the project, the set of GitRepos that claim it, those that contend for it,
and what the operator works on (`task`, `actor`, `adopters`, `policy`). The
operator may make a project for a claimant or for a GitRepo that is gone by
then, manage, archive or remove it under the policy it works under, but a
project of somebody else only for a GitRepo that may adopt it or contends for
the path, and nobody begins to contend for such a project unless to adopt it
(`LateContender`); it may withdraw a claim only while the claimant owns no
project. Others make and remove projects, and GitRepos leave.

`GitRepoLifecycle` maps to it by `claims` = the GitRepos whose stored
`status.url` is set, `task` = `pc`, `adopters` = the GitRepo in hand if its
copy says Adopt, `contenders` = `Contenders`: the claim is stored, in an
outdated copy, in the worker's hands, or the worker found nothing at the path
and is about to store it. `KeepsOwnership` is checked by TLC in `gitrepo` and
proved in `GitRepoOwnershipProofs`.

### RepoSync

State: the GitRepo as far as content goes (`spec`: names of variables,
generated keys and deploy keys, is a token asked for, template files; `status`:
`lastAppliedCIVariables` and `generatedDeployKeys`), the secrets of generated
keys, token and variables, the project's variables, deploy keys, tokens and
files, caches of the objects, is the GitRepo queued, and the worker. The project
exists and is managed throughout, or is replaced by an empty one between two
reconciliations.

| action | code |
|---|---|
| `Start` | `Reconcile`: Get from the cache |
| `DropGeneratedKey`, `EnsureGeneratedKey` | the two loops of `ensureGeneratedDeployKeys`; secrets are deleted and created, a failing turn is collected |
| `GetGitClient` | `manager.GetGitClient`: the set of deploy keys is fixed from here on (`LocalKeys`) |
| `EnsureAccessToken`, `StoreToken` | `ensureAccessToken`: read the secret, `EnsureProjectAccessToken` in the mutate function, then Create or Update with the version that was read |
| `EnsureCIVariables`, `RemoveVariable`, `ListVariables`, `SetVariable`, `RecordApplied` | `ensureCIVariables` with `Gitlab.EnsureCIVariables`: values from secrets, removal of managed names, list, one call for each difference, the new list of names |
| `CompareFiles`, `CreateCommit` | `compareFiles` and the one commit of `CommitTemplateFiles` |
| `CompareKeys`, `RemoveDeployKeys`, `SetDeployKeys`, `AddDeployKey`, `RepoUpdated` | `updateDeployKeys` with both uses of `CompareKeys` |
| `HandleRepoError`, `UpdateStatus` | `handleRepoError`; the status update of `pipeline.Common` with its swallowed conflict |
| `DeliverGitRepo` ... `DeliverVarSecret`, `Resync` | `SetupWithManager`: the GitRepo, secrets it owns, secrets its variables refer to, by the index over cached specs; `RequeueAfter` |
| `CallFails`, `StepFails`, `LoopFails`, `DeleteKeyFails`, `Crash` | failing calls by what the code does about them: return, `handleRepoError`, collect, log; restarts |
| `EditSpec` ... `ProjectReplaced` | users, other tools in GitLab, the end of tokens |

A behaviour is about part of the content (`focus`, one of `Focuses`), and
`From` passes by the steps of the rest: these touch nothing that others read,
but any of them may still fail (`StepFails`).

### CompilePipeline

State: Tenants (pipeline on or off, the list variable, the clusters with a
token variable, the clusters in the status) and Clusters (deletion timestamp,
both finalizers, `spec.tenantRef`, label with owner, the three fields of the
spec the code looks at), caches of both, the queue and the worker. `Start` is
Get and List; `AddFinalizer`, `UpdateTenant`, `UpdateTenantStatus`,
`RemoveFinalizer` are the four kinds of update in the order of `Reconcile`,
each with its conflict; `ReconcileCluster` is the Cluster controller's owner,
label and finalizer.

Two history variables, which no action reads, let the properties say who is
accountable for a name. `current`: did the running reconciliation read the
Tenant as it was stored, and which of the Clusters to name did it read so.
`astray`: what each Tenant names although no finalizer holds the Cluster for
it. A Cluster goes astray for a Tenant that names it when it is bound to
another one (`Strayed` in `EditClusterTo`), when a reconciliation names it that
read an outdated copy of it or missed its move (`Renamed`), and when one
releases it that read an outdated Tenant or skipped its token because the
repository is unmanaged (`RemoveFinalizer`). It is astray no longer once the
Tenant ceases to name it.

### ClusterReconcile

State: one Cluster (deletion timestamp, finalizer, protection annotation,
template of its GitRepo, is `spec.gitRepoURL` set, bootstrap token and its
validity), its GitRepo, its service account with the newest token secret, does
its Tenant exist, the secrets in Vault (the token, and what others keep beside
it), caches of the first three, the queue and
the worker. Reconciliations of different Clusters share nothing.

| action | code |
|---|---|
| `Start` | Get, `createClusterRBAC`, `CheckIfDeleted`, `setBootstrapToken`; validUntil is compared with a clock, so a valid token may be found expired at any time |
| `CreateOrUpdateVault`, `NoAccountToken` | the secret is stored, also for a Cluster that is being deleted |
| `ListSecrets`, `ReadVersions`, `RemoveVersions`, `SecretsRemoved`, `UnknownDeletionPolicy` | `HandleVaultDeletion` with the loop of `removeSecret`, one action for each call to Vault, by the default policy of the operator (`policy`); the one of the Cluster (`cluster.own`) is not asked |
| `NoTenant` | `setTenantOwner` |
| `CreateGitRepo`, `UpdateGitRepo` | `gitrepo.CreateOrUpdate` from the cached GitRepo |
| `HandleDeletionRefuses`, `UpdateObject`, `UpdateStatus` | url, `pipeline.Common` and its two updates |
| `DeliverCluster`, `DeliverGitRepo`, `DeliverAccount`, `CreateTenant` | the watches of `SetupWithManager` |
| `PopulateToken`, `SetURL`, `CollectOwned` | Kubernetes and the GitRepo controller |
| `EditTemplate` ... `WriteSecret` | users and the Lieutenant API |

### TenantReconcile

State: the template files of one Tenant (a file is absent, has contents, or is
listed for deletion), its GitRepo with the same list, its Role with the names
in it (`None` when there is no Role), the Clusters as far as the Tenant looks at
them (`ref`: `spec.tenantRef` is this Tenant; `owned`: label and owner reference
are), caches of all of them, the queue and the worker.

| action | code |
|---|---|
| `Start` | Get, `addDefaultClassFile`, `updateTenantGitRepo`: `WithFiles` is the new list |
| `ReconcileRole` | `reconcileRole`, which lists Clusters by `spec.tenantRef` |
| `CreateOrUpdateGitRepo` | `gitrepo.CreateOrUpdate` from the cached GitRepo |
| `UpdateTenant` | `updateObject` of `pipeline.Common`, with its swallowed conflict |
| `DeliverTenant` ... `DeliverCluster` | the watches of `SetupWithManager`: a Cluster is reported to the owner in the copy before and in the copy after |
| `Resync` | controller-runtime hands every object to the watches again, every ten hours by default |
| `SetOwner` | the Cluster controller's owner reference and label |
| `CreateCluster` ... `EditTenant` | users, the Lieutenant API, and the compile pipeline controller's writes to the same Tenant |

## What the runs show

| run | instance | shows |
|---|---|---|
| `gitrepo` | 1 GitRepo; policies create/delete, adopt/archive, unmanaged; templates; protection | types, claims are kept, foreign projects are left to those that may adopt them or contended before they appeared, finalizer only after the policy was applied, no work is lost (`AtRestSettled`), every step is allowed by `ProjectOwnership` |
| `gitrepo_settles` | 1 GitRepo, creation may fail half way, liveness | objects settle by watch events and retries alone; with the timer, claimed projects heal |
| `gitrepo_protected` | violation | the project of a protected GitRepo is removed |
| `gitrepo_race` | violation | a project that somebody made before the claim was stored is managed without adoption |
| `reposync` | 1 GitRepo and its project, one kind of content at a time, outdated caches, all failures, liveness | a valid token stays in its secret, what others keep in the project stays, and token, variables, keys and files get in step with spec and secrets; no work is lost (`AtRestInStep`) |
| `pipeline` | 2 Tenants, each of which may go, 1 Cluster that moves | types, a finalizer goes only when the Tenant the Cluster is bound to names it nowhere, only what went astray is named after it is gone |
| `pipeline_lives` | 1 Tenant, 1 Cluster, outdated caches, liveness | the same with outdated caches; no work is lost (`AtRestInStep`), variables and status get in step, deleted clusters go |
| `pipeline_lag` | violation | an outdated Tenant in the cache lets a token variable outlive its cluster |
| `cluster` | 1 Cluster, 2 bootstrap tokens, all default policies, protection | types, a bootstrap token is neither replaced nor revived, all its secrets are treated as the operator's default policy says before the finalizer goes |
| `cluster_policy` | violation | the Cluster's own deletion policy is not asked when its secrets are removed |
| `cluster_settles` | 1 Cluster whose template is edited to an unmanaged one, liveness | Cluster, GitRepo and Vault settle by watch events and retries, and none is at rest before (`AtRestSettled`); deleted Clusters go |
| `tenant` | 1 Tenant, 1 Cluster that comes, moves and goes, 1 pipeline file, liveness | types, a listed file stays listed, the Role comes to name every member and, with the resync of the informers, nobody else, the files get in step, no work is lost (`AtRestInStep`) |

What the violations show.

- `gitrepo_protected`: `steps` calls `Remove` before `pipeline.Common` looks at
  the protection.
- `gitrepo_race`: `Read` finds nothing, somebody makes a project, the claim is
  stored, `Create` fails on the taken name, and the operator stops before it
  reverts the claim (or the revert fails, or conflicts). The stored url then passes
  the check of the next reconciliation, which manages a project of somebody
  else without the policy Adopt. `ForeignLeftToContenders` is what does hold:
  only a claim that was under way when the project appeared can do this.
- `pipeline_lag`: when the outdated Tenant lacks the variable to remove, nothing
  changed in the copy, no update is made, no version compared, and the
  Cluster is released all the same. `NamedClustersAreThere` is what does hold:
  it names, as `astray`, each way by which a name can outlive its Cluster.
- `cluster_policy`: `getVaultClient` uses the default policy of the operator,
  where `deletion.adoc` and the field's comment speak of the object's own; only
  the GitRepo gets that. `SecretsReleasedByDefaultPolicy` is what does hold.


Bounds. One worker per controller is what controller-runtime starts by default.
One GitRepo meets every branch together with a foreign project; several that
name one project are covered by the theorems, which hold for any number of
them, and not by a run. One secret of others
beside the token makes the removal in Vault a loop of several calls that may
stop half way. Two bootstrap
tokens let a second one be generated while the first is stored. Templates
differ in being managed or not, and edits go in one direction. The second Tenant
is needed only for moves; several Clusters in one loop, which may stop half way,
are covered by the theorems about `CompilePipeline`, which hold for any number
of them, and not by a run. No counter is unbounded, so no run needs a state
constraint; users, faults and crashes may occur any number of times. Symmetry
is used for Tenants and bootstrap tokens in safety runs only. `pipeline` has
moves and deleted Tenants with caches that are up to date when a reconciliation
starts (`MayLag = FALSE`; objects still change at every later step),
`pipeline_lives` has outdated caches with neither, since both together are
beyond five minutes; the theorems have all of it at once, unmanaged
repositories included, which no run has. `pipeline_lives` leaves out the
deletion of the Tenant: once it is gone `Reconcile` returns early, nobody
removes the pipeline finalizer of its Clusters, and `DeletedClustersGo` fails.
At rest and in the end (`InStep`) the pipeline properties look at the token
variables of labelled Clusters with a managed repository only. What is left of
a Cluster that is gone, moved or unmanaged stays for good; such leftovers are
accounted for by `astray`, and not ruled out.
`ObjectsSettle` counts a GitRepo of phase failed as settled: a project that was
made half way and is refused ever after satisfies it. `OwnedStaysClaimed` and
`KeepsOwnership` fail for such a project, and their run has `PartialCreate =
FALSE`.
`AtRestInStep` and `RoleNamesMembers` of `tenant` say only that the Role names
every member. A Cluster that was reconciled into the Role and goes or moves
before the Tenant owns it tells the Tenant nothing, because the watch follows the owner
reference while `reconcileRole` goes by `spec.tenantRef`; the Role then keeps its name until
something else queues the Tenant, at the latest the resync of the informers.
So `RoleDropsOthers` assumes that resync, and fails without, although
`rbac-access.adoc` says that the Role 'gets updated whenever a new cluster gets
created or deleted'.
`DeletedClusterGoes` excepts the
policy Retain, because `removeSecret` answers it with an error each time: without the
exception TLC shows a deleted Cluster that takes `UnknownDeletionPolicy` for
ever, where `deletion.adoc` says of Retain 'Do nothing'. The secret of a protected
Cluster is removed although the Cluster stays, as the order of
`HandleVaultDeletion` and `handleDeletion` has it.
In `reposync` each of the five focuses has the names that can interact and no
more: a variable with a value, which others set too, beside one from a secret;
the secret with two values; a generated key beside one that others add as well;
three tokens, for the stored one, the cached one and a new one; a file in the
root and one in a directory. What one kind of content does to another is only
to keep the later steps from running, which a failing step does in each focus.
`MaxDrops` bounds how often a generated key or its secret is dropped, hence how
many keys there can be: one drop gives an old key and a new one. Tokens that
nobody refers to any more may be issued again. `KeysGetInStep` excepts a GitRepo
that is `Stuck` (the secret of a dropped key is gone and the status still names
the key: `could not get deploy key secret` each time), and allows an old key
under the title of a wanted one, since `deleteKey` only logs its failures and
`getDeployKeys` sees one key of each title. `TemplateFilesGetInStep` excepts GitRepos
with a file in a directory, which `ListTree` does not show: it is created anew
by each commit, which therefore fails. A variable that is dropped before its
name ever got into `lastAppliedCIVariables` stays, so `AppliedVariablesGo`
speaks of those that did. Without these exceptions TLC finds each of the
properties violated.
In the `tenant` runs one Cluster is enough: the list of files and the names in
the Role are computed for each Cluster by itself, and the pipeline file stands
for those that are wanted throughout (switching the pipeline of a Tenant on and
off belongs to `CompilePipeline`).
Every run has deadlock checking on: users can always act.

Fairness. The worker goroutine takes the next step of a reconciliation it has
begun (weak fairness of `Reconcile`). The work queue is first in, first out, so
a name in it is reached although other names come and go (strong fairness of
`Start`; weak fairness is enough for the one name of `ClusterReconcile`,
`TenantReconcile` and `RepoSync`). Watches deliver (weak fairness of `Deliver...`), the garbage collector
collects, the Cluster controller sets owners (`SetOwner`), and, only where a property says so, the timer of `RequeueAfter` fires
(`TimerFires`) or the informers resync (`WF_vars(Resync)` in `RoleDropsOthers`). Nothing is assumed of users or faults; liveness is stated for
behaviours in which they stop (`Quiet`), since no operator settles anything
while GitLab is down.

## What is proved

All theorems hold for every value of the constants: any number of GitRepos,
Tenants, Clusters, secrets, variables, tokens and files. None of them needs
fairness. Where a theorem has an assumption beside those of its module
(`~PartialCreate`), it is named below with what goes wrong without it. All invariants named here were
first checked by TLC on the instances of the runs.

### No work is lost

`NoWorkIsLost` is proved for each of the five modules that model controllers:
`Spec => []AtRestSettled` for `GitRepoLifecycle` and `ClusterReconcile`,
`Spec => []AtRestInStep` for `CompilePipeline`, `TenantReconcile` and
`RepoSync`. It is the safety half of the liveness properties. An object is at
rest when nothing is queued for it, the worker is elsewhere and its watches
have delivered everything. Nobody will look at such an object before something
changes (or the timer fires, where there is one), so it must already be as the
controller wants it; liveness then only asks that queues are served.
There is no assumption on any option: outdated caches, swallowed conflicts,
failing calls, half-made projects, moves, deletions and crashes are all in it.

Each proof has the same three parts (`RestInv`). What an ended reconciliation
left fits the caches, or something that it wrote has yet to be delivered
(`LeftInv`). What the running one has in hand fits the caches as far as it has
got, unless its object was put back into the queue meanwhile (`WorkInv`,
`HandInv`). A copy that carries the stored version is a copy of what is stored
(`CopyInv`, `CacheInv`). The statement about rest alone is not inductive: it
says nothing of a state in which an event is under way, from which the state at
rest is reached by delivering it.

What differs between them:

- `GitRepoLifecycle`: a GitRepo at rest was managed or has the type unmanaged.
  It holds for projects made half way too: the error of a refused project is
  returned, hence retried, for ever.
- `CompilePipeline`: a Tenant and its Clusters change one after the other, so
  `LeftInv` speaks of the Tenant as far as its own copy is current and of each
  Cluster as far as that one's copy is; `SameView` says that the list read at
  the start is what the cache has, as long as the Tenant is not queued.
- `ClusterReconcile`: the GitRepo is compared by the cache only while it is
  current (`GitRepoInStep`), since the update of the GitRepo will come back as
  an event. What others write in Vault raises no event and can be undone only
  where the token is concerned.
- `TenantReconcile`: the Role comes to name every Cluster that the Tenant owns
  and that refers to it. The converse needs the resync of the informers
  (`RoleDropsOthers`) and stays with TLC.
- `RepoSync`: `From` passes by the steps of what a behaviour is not about, so
  `FromSkips` first shows that these had nothing to do (`InFocus`). The
  property says nothing about generated keys: their cache is compared by its
  contents, so a change that is undone before it is delivered raises no event;
  nor about what others do in GitLab, which never raises one.

### GitRepoLifecycle

- `TypeCorrect`: `Spec => []TypeOK`.
- `ForeignProjectsAreLeft`: `Spec => ForeignLeftToContenders`. `ClaimInv`: the
  worker creates, manages or removes a project only with the url in its copy, or
  for a GitRepo that may adopt; so whoever changes a project contends for it.
  That nobody begins to contend while the project is there goes action by
  action (`NextContends`): a url comes into the store, a cache or a copy only
  from one that had it, from `MissProject`, which needs the project to be
  absent, or from `ManageProject`, which `ClaimInv` leaves to contenders and
  adopters. The theorem has no assumption; half-made projects are in it.
- `OwnersKeepTheirClaim`: `~PartialCreate => (Spec => []OwnedStaysClaimed)`.
  `OwnedStaysClaimed` is not inductive, since a copy that lacks the url could
  be written back. `OwnedInv` adds that a copy which lacks it while its object
  owns the project is not the stored version, so the write is refused: in the
  cache (`StoreInv`) and in the worker's hands at every `pc` (`HandInv`). The
  assumption is necessary: when `CreatePartially` is followed by `RevertClaim`,
  no copy carries the url of the project any more, `FindProject` refuses it from
  then on, and TLC finds `OwnedStaysClaimed` violated once `PartialCreate` is
  `TRUE` in the run `gitrepo`.
- `GitReposReleaseAsDeclared`: `~PartialCreate => (Spec => ReleasedAsDeclared)`.
  The finalizer goes in `UpdateObject`, long after `RemoveProject`, so
  `ReleaseInv` carries over that a copy which can still be written was treated
  as the policy says, or that the project is none of its business. That no
  other claim makes the project its business in between is `OwnedInv`. The
  assumption is necessary: with `PartialCreate` TLC finds a trace of 18 steps in
  which the half-made project is refused (`RefuseProject`) and the finalizer
  goes in the next `UpdateObject`.

### ProjectOwnership

- `ImplementsOwnership`: `~PartialCreate => (Spec => KeepsOwnership)`, the
  refinement. `InitRefines` maps initial states; `TurnRefines`, `WriteRefines`,
  `WorkerWriteRefines`, `ReconcileRefines`, `QueueRefines`, `FaultRefines` and
  `EnvironmentRefines` map the actions, `NextRefines` puts them together. The
  invariants it rests on (`Before`) are `TypeOK`, `ClaimInv`, `OwnedInv` and
  `HandleInv`: when the reference to the project that the worker holds is good,
  there is a project. That a claim is
  withdrawn only while its holder owns no project is `OwnedStaysClaimed` in the
  next state, so the assumption is the one of `OwnersKeepTheirClaim`.

### CompilePipeline

- `PipelineTypeCorrect`: `Spec => []TypeOK`.
- `ReleasedWhenUnnamed`: `Spec => ReleasedByItsTenant`. `ReadInv`: nobody else
  changes what a Tenant names while it is in hand and was read as it was.
  `ReleaseInv`: a Cluster that is being deleted is out of the variables when the
  status is written and out of the status when finalizers go, the token of an
  unmanaged one excepted. `CopyInv`: a copy with the stored version is a copy of
  what is stored.
- `NamesOnlyClustersThere`: `Spec => []NamedClustersAreThere`. It is not
  inductive; `NamedInv` is: a Tenant names only what went astray and Clusters
  that are there, carry the finalizer and its label (`Held`), so none of these
  can go before it was released. `AdoptInv` adds that what the worker is about to
  name, and has read as it was, has the finalizer already or still has to get it.

Neither theorem has an assumption: caches lag, Clusters move, repositories
become unmanaged. What these can do is in the properties instead: the first one
speaks of reconciliations that read the Tenant as it was, the second excepts
what went astray. Both exceptions are needed. Without the first, and for a gone
Cluster without the second, the run `pipeline_lag` is the counterexample.

### ClusterReconcile

- `ClusterTypeCorrect`: `Spec => []TypeOK`.
- `BootstrapTokenIsStable`: `Spec => BootstrapTokenStable`. `TokenInv`: what can
  still be written was read from the stored Cluster and has its token, valid at
  most if that one is.
- `SecretsAreReleased`: `Spec => SecretsReleasedByDefaultPolicy`.
  `RemovedInv`: the secrets that the loop has passed (`Passed`) were treated as
  the operator's policy says, or were written since by somebody else (`late`).

### TenantReconcile

- `TenantTypeCorrect`: `Spec => []TypeOK`.
- `ListedFilesStayListed`: `Spec => ListedStaysListed`. `ListInv`: a list that
  can still be stored has every file of the stored one.

### RepoSync

- `SyncTypeCorrect`: `Spec => []TypeOK`. Generated keys are numbers, bounded in
  the runs through `MaxDrops` only; the theorem is for any bound.
- `ValidTokensStay`: `Spec => ValidTokenStays`. `HeldInv`: the worker holds the
  stored version of the secret while it has a new token only if GitLab did not
  accept the stored one.
- `ForeignContentsStay`: `Spec => ForeignContentStays`. `TodoInv`: what is left
  to remove is in the status, what is left to set in the spec, what is left to
  commit is wanted or listed for deletion.

### What stays with TLC

Liveness is out of the prover's reach, as is `ENABLED`: `ObjectsSettle`,
`ClaimedProjectsHeal`, `TenantsGetInStep`, `DeletedClustersGo`,
`ClusterSettles`, `VaultGetsInStep`, `DeletedClusterGoes`, `RoleNamesMembers`,
`RoleDropsOthers`, `FilesGetInStep`, `RotatedValueArrives`, `VariablesGetInStep`,
`AppliedVariablesGo`, `AccessTokenRenewed`, `KeysGetInStep` and
`TemplateFilesGetInStep`. Every invariant and every action property of a passing
run is a theorem.

## What is not modelled

The inside of a project is one step of `ManageProject` in `GitRepoLifecycle` and
the subject of `RepoSync`, which leaves out the display name, the options of
variables, optional secret values, `writeAccess` and type of keys, the pages of
GitLab's lists, edits of the token's secret by users (only its deletion is
modelled), and templates that override the spec in memory (they are in
`GitRepoLifecycle`). The urls that `FullURL` and `parseSSHEndpoint` compute are
one value. Of a Tenant the url of its GitRepo, the merge of its
TenantTemplate, its service account and its role binding are left out; a Tenant
that is deleted is only in `CompilePipeline`.
Of a secret in Vault only the newest version is kept, and the directories below
the path of a Cluster are part of one list. A Cluster always has a template for its GitRepo;
the defaults that `CreateOrUpdate` and the Tenant's template write into a
Cluster are abstracted. A GitRepo that is deleted goes at once in
`ClusterReconcile`; what it does first is the subject of `GitRepoLifecycle`. Metrics and `main.go` keep no state. Strings,
URLs and templating are abstracted to what the controllers compare.

## Plan

All four controllers are modelled, and every safety property that a run checks
is proved. What would come next:

1. Abstract specifications of other components, of the kind of
   `ProjectOwnership`, implemented by the detailed ones: what a Tenant may name
   (`CompilePipeline`), what a project may contain (`RepoSync`).
2. The pure parts (deploy key comparison, policy defaulting) against reference
   definitions.
3. The second page of GitLab's lists, and the Tenant's deletion in
   `TenantReconcile`.
