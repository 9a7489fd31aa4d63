-------------------------- MODULE CompilePipeline --------------------------
(***************************************************************************)
(* The compile pipeline of tenants:                                        *)
(* controllers/tenant_compile_pipeline_controller.go.  One worker keeps    *)
(* the CI variables in a Tenant's gitRepoTemplate and the list of clusters *)
(* in its status in step with the Clusters that carry the Tenant's label,  *)
(* and holds a finalizer on these Clusters so that none of them goes while *)
(* the Tenant still names it.                                              *)
(*                                                                         *)
(* The worker reads Tenant and Clusters from the informer caches; every    *)
(* write needs the stored resourceVersion, and any error ends the          *)
(* reconciliation and puts the Tenant back into the queue.  The Cluster    *)
(* controller is here as far as it matters: label, owner and its own       *)
(* finalizer.                                                              *)
(***************************************************************************)
EXTENDS FiniteSets

CONSTANTS
    Tenants, Clusters,
    None,
    Switched,          \* Tenants whose pipeline users switch: the others' is on
    Shapes,            \* what users make of a Cluster's spec
    MayLag,            \* may a reconciliation start from outdated caches
    MayMove,           \* do users change spec.tenantRef
    MayDeleteTenant    \* do users delete Tenants

(* spec.enableCompilePipeline, whether spec.gitRepoTemplate.accessToken     *)
(* names a secret, and whether spec.gitRepoTemplate.repoType is unmanaged.  *)
Shape == [enabled : BOOLEAN, token : BOOLEAN, unmanaged : BOOLEAN]

ASSUME ShapeAssumption  == Shapes \subseteq Shape /\ Shapes # {}
ASSUME NameAssumption   ==
    /\ None \notin Tenants \cup Clusters
    /\ Switched \subseteq Tenants /\ Tenants # {}
ASSUME OptionAssumption == {MayLag, MayMove, MayDeleteTenant} \subseteq BOOLEAN

VARIABLES
    tenants,       \* the stored Tenants
    clusters,      \* the stored Clusters
    tenantCache,   \* the informers' copies
    clusterCache,
    tenantFresh,   \* does the copy carry the stored resourceVersion
    clusterFresh,
    queue,         \* Tenants waiting for this controller
    pc,            \* what Reconcile does next
    cur,           \* the Tenant it reconciles
    read,          \* that Tenant as it was read
    listed,        \* the Clusters it listed, as they were read
    todo,          \* Clusters whose finalizer is still to be changed
    readFresh,     \* read and listed carry the stored resourceVersions
    listedFresh,
    current,       \* history: did it read the Tenant, and which of the Clusters
                   \* that it is to name did it read, as they were stored
    astray         \* history: what a Tenant names and no finalizer holds for it

store    == <<tenants, clusters>>
informer == <<tenantCache, clusterCache, tenantFresh, clusterFresh, queue>>
worker   == <<pc, cur, read, listed, todo, readFresh, listedFresh, current>>
vars     == <<store, informer, worker, astray>>

-----------------------------------------------------------------------------
(* list is the value of COMPILE_PIPELINE_CLUSTERS, None when this variable  *)
(* and the two for the API, which come and go with it, are absent.  tokens  *)
(* are the clusters with an ACCESS_TOKEN_CLUSTER_ variable; a name has no   *)
(* underscore, so replacing the dashes keeps the variables apart.           *)
Tenant == [present : BOOLEAN, enabled : BOOLEAN,
           list : (SUBSET Clusters) \cup {{None}}, tokens : SUBSET Clusters,
           status : SUBSET Clusters]

Absent == {None}

NoTenant == [present |-> FALSE, enabled |-> FALSE, list |-> Absent,
             tokens |-> {}, status |-> {}]

(* bound is the Tenant of the label and of the controlling owner reference, *)
(* which the Cluster controller sets together.                              *)
Cluster == [present : BOOLEAN, deleting : BOOLEAN,
            finalizer : BOOLEAN,          \* syn.tools
            pipelineFinalizer : BOOLEAN,  \* of this controller
            tenantRef : Tenants, bound : Tenants \cup {None}, shape : Shapes]

NewCluster(t, s) == [present |-> TRUE, deleting |-> FALSE, finalizer |-> FALSE,
                     pipelineFinalizer |-> FALSE, tenantRef |-> t,
                     bound |-> None, shape |-> s]

NoCluster == [NewCluster(CHOOSE t \in Tenants : TRUE, CHOOSE s \in Shapes : TRUE)
              EXCEPT !.present = FALSE]

TypeOK ==
    /\ tenants \in [Tenants -> Tenant] /\ tenantCache \in [Tenants -> Tenant]
    /\ clusters \in [Clusters -> Cluster] /\ clusterCache \in [Clusters -> Cluster]
    /\ tenantFresh \in [Tenants -> BOOLEAN] /\ clusterFresh \in [Clusters -> BOOLEAN]
    /\ queue \subseteq Tenants
    /\ pc \in {"idle", "addFinalizers", "status", "removeFinalizers"}
    /\ cur \in Tenants \cup {None}
    /\ pc # "idle" => cur \in Tenants
    /\ read \in Tenant
    /\ listed \in [Clusters -> Cluster]
    /\ todo \subseteq Clusters
    /\ readFresh \in BOOLEAN /\ listedFresh \in [Clusters -> BOOLEAN]
    /\ current \in [tenant : BOOLEAN, clusters : SUBSET Clusters]
    /\ astray \in [Tenants -> SUBSET Clusters]

Nothing == [tenant |-> FALSE, clusters |-> {}]
Stale == [c \in Clusters |-> FALSE]
Unread == [c \in Clusters |-> NoCluster]

Init ==
    /\ tenants = [t \in Tenants |-> [NoTenant EXCEPT !.present = TRUE,
                                                     !.enabled = t \notin Switched]]
    /\ clusters = [c \in Clusters |-> NoCluster]
    /\ tenantCache = tenants /\ clusterCache = clusters
    /\ tenantFresh = [t \in Tenants |-> TRUE]
    /\ clusterFresh = [c \in Clusters |-> TRUE]
    /\ queue = Tenants
    /\ pc = "idle" /\ cur = None /\ read = NoTenant /\ listed = Unread
    /\ todo = {} /\ readFresh = FALSE /\ listedFresh = Stale
    /\ current = Nothing /\ astray = [t \in Tenants |-> {}]

-----------------------------------------------------------------------------
(* The API server.                                                          *)

Settled(o) == IF o.deleting /\ ~o.finalizer /\ ~o.pipelineFinalizer
              THEN NoCluster ELSE o

(* Someone stores another Cluster c, or another Tenant t: all copies of it  *)
(* are outdated.                                                            *)
StoreCluster(c, o) ==
    /\ clusters' = [clusters EXCEPT ![c] = Settled(o)]
    /\ clusterFresh' = [clusterFresh EXCEPT ![c] = FALSE]
    /\ listedFresh' = [listedFresh EXCEPT ![c] = FALSE]

StoreTenant(t, o) ==
    /\ tenants' = [tenants EXCEPT ![t] = o]
    /\ tenantFresh' = [tenantFresh EXCEPT ![t] = FALSE]

-----------------------------------------------------------------------------
(* History.  A Cluster goes astray for a Tenant t that names it when it     *)
(* moves to another Tenant, when a reconciliation of t names it that has    *)
(* seen an outdated copy of it or has overlooked its move, or when one      *)
(* releases it that has seen an outdated copy of t, or leaves its token     *)
(* because it is unmanaged.  It does no longer when t ceases to name it.    *)
Named(o) == Clusters \cap (o.tokens \cup o.list \cup o.status)

Strayed(t, c) == [astray EXCEPT ![t] = @ \cup ({c} \cap Named(tenants[t]))]

Overlooked == {c \in Clusters : c \notin current.clusters \/ clusters[c].bound # cur}

Renamed(o) ==
    [astray EXCEPT ![cur] = (@ \cup (Overlooked \ Named(tenants[cur]))) \cap Named(o)]

-----------------------------------------------------------------------------
(* What one reconciliation wants, from what it has read.                    *)

(* List with MatchingLabels.                                                *)
Labelled(cs, t) == {c \in Clusters : cs[c].present /\ cs[c].bound = t}

Deleting(cs) == {c \in Clusters : cs[c].deleting}

EnabledOrDeleting(cs, t) == {c \in Labelled(cs, t) : cs[c].shape.enabled}

(* clustersWithPipelineEnabled, through filterDeletedClusters.              *)
Enabled(cs, t) == EnabledOrDeleting(cs, t) \ Deleting(cs)

(* ensureCiVariables, or ensureCiVariablesAbsent.                           *)
WantedList(o, cs, t) == IF o.enabled THEN Enabled(cs, t) ELSE Absent

(* Mutant: a token is kept while its cluster is being deleted.              *)
WithTokenStill(o, cs, t) ==
    IF o.enabled THEN {c \in EnabledOrDeleting(cs, t) : cs[c].shape.token} ELSE {}

(* ensureClusterCiVariable: whose token is set, whose is removed.           *)
WithToken(o, cs, t) ==
    IF o.enabled THEN {c \in Enabled(cs, t) : cs[c].shape.token} ELSE {}

(* Clusters with an unmanaged repository are skipped by the loop.           *)
Considered(cs, t) == {c \in Labelled(cs, t) : ~cs[c].shape.unmanaged}

(* Mutant: tokens are never removed.                                        *)
WantedTokensKept(o, cs, t) ==
    o.tokens \cup (WithToken(o, cs, t) \cap Considered(cs, t))

WantedTokens(o, cs, t) ==
    (o.tokens \ Considered(cs, t)) \cup (WithToken(o, cs, t) \cap Considered(cs, t))

(* Mutant: the status without filterDeletedClusters.                        *)
WantedStatusOfAll(o, cs, t) == IF o.enabled THEN EnabledOrDeleting(cs, t) ELSE {}

(* ensureStatus.                                                            *)
WantedStatus(o, cs, t) == IF o.enabled THEN Enabled(cs, t) ELSE {}

WantedTenant(o, cs, t) ==
    [o EXCEPT !.list = WantedList(o, cs, t), !.tokens = WantedTokens(o, cs, t)]

(* Mutant: only an enabled pipeline releases clusters.                      *)
ToReleaseIfEnabled(o, cs, t) ==
    {c \in Labelled(cs, t) \cap Deleting(cs) : cs[c].pipelineFinalizer /\ o.enabled}

(* The last loop: clusters that only wait for this finalizer to go.         *)
ToRelease(o, cs, t) ==
    {c \in Labelled(cs, t) \cap Deleting(cs) : cs[c].pipelineFinalizer}

-----------------------------------------------------------------------------
Idle ==
    /\ pc' = "idle" /\ cur' = None /\ read' = NoTenant /\ listed' = Unread
    /\ todo' = {} /\ readFresh' = FALSE /\ current' = Nothing

EndOk == Idle /\ listedFresh' = Stale /\ UNCHANGED queue

(* Mutant: an error does not put the Tenant back.                           *)
EndWithErrorSwallowed == EndOk

EndWithError == Idle /\ listedFresh' = Stale /\ queue' = queue \cup {cur}

(* The Clusters that lack the finalizer, as they were read.                 *)
LackFinalizer(cs, t) ==
    {c \in Labelled(cs, t) \ Deleting(cs) : ~cs[c].pipelineFinalizer}

(* Get and List, both from the caches.                                      *)
Start(t) ==
    /\ pc = "idle" /\ t \in queue
    /\ MayLag \/ (tenantFresh[t] /\ \A c \in Clusters : clusterFresh[c])
    /\ queue' = queue \ {t}
    /\ IF ~tenantCache[t].present
       THEN UNCHANGED worker
       ELSE /\ pc' = "addFinalizers" /\ cur' = t
            /\ read' = tenantCache[t] /\ readFresh' = tenantFresh[t]
            /\ listed' = [c \in Clusters |-> IF c \in Labelled(clusterCache, t)
                                            THEN clusterCache[c] ELSE NoCluster]
            /\ listedFresh' = [c \in Clusters |->
                                  clusterFresh[c] /\ c \in Labelled(clusterCache, t)]
            /\ todo' = LackFinalizer(clusterCache, t)
            /\ current' = [tenant |-> tenantFresh[t],
                           clusters |-> {c \in Enabled(clusterCache, t) :
                                           clusterFresh[c]}]
    /\ UNCHANGED <<store, tenantCache, clusterCache, tenantFresh, clusterFresh, astray>>

(* The first loop: nothing else of it is written before the loop ends.      *)
AddFinalizer(c) ==
    /\ pc = "addFinalizers" /\ c \in todo /\ listedFresh[c]
    /\ StoreCluster(c, [clusters[c] EXCEPT !.pipelineFinalizer = TRUE])
    /\ todo' = todo \ {c}
    /\ UNCHANGED <<tenants, tenantCache, clusterCache, tenantFresh, queue,
                   pc, cur, read, listed, readFresh, current, astray>>

AddFinalizerFails(c) ==
    /\ pc = "addFinalizers" /\ c \in todo /\ ~listedFresh[c]
    /\ EndWithError
    /\ UNCHANGED <<store, tenantCache, clusterCache, tenantFresh, clusterFresh, astray>>

(* All have it: the update of the Tenant, when a variable changed.          *)
UpdateTenant ==
    /\ pc = "addFinalizers" /\ todo = {}
    /\ LET wanted == WantedTenant(read, listed, cur) IN
       \/ /\ wanted = read
          /\ pc' = "status"
          /\ UNCHANGED <<tenants, tenantFresh, astray, queue, cur, read, listed, todo,
                         readFresh, listedFresh, current>>
       \/ /\ wanted # read /\ readFresh
          /\ StoreTenant(cur, wanted) /\ astray' = Renamed(wanted)
          /\ read' = wanted /\ pc' = "status"
          /\ UNCHANGED <<queue, cur, listed, todo, readFresh, listedFresh, current>>
       \/ /\ wanted # read /\ ~readFresh
          /\ EndWithError /\ UNCHANGED <<tenants, tenantFresh, astray>>
    /\ UNCHANGED <<clusters, tenantCache, clusterCache, clusterFresh>>

(* The update of its status, when the list of clusters changed.             *)
UpdateTenantStatus ==
    /\ pc = "status"
    /\ LET wanted == [read EXCEPT !.status = WantedStatus(read, listed, cur)]
           next   == /\ pc' = "removeFinalizers"
                     /\ todo' = ToRelease(read, listed, cur)
                     /\ UNCHANGED <<queue, cur, listed, readFresh, listedFresh, current>> IN
       \/ /\ wanted = read
          /\ next /\ UNCHANGED <<tenants, tenantFresh, astray, read>>
       \/ /\ wanted # read /\ readFresh
          /\ StoreTenant(cur, wanted) /\ astray' = Renamed(wanted)
          /\ read' = wanted /\ next
       \/ /\ wanted # read /\ ~readFresh
          /\ EndWithError /\ UNCHANGED <<tenants, tenantFresh, astray>>
    /\ UNCHANGED <<clusters, tenantCache, clusterCache, clusterFresh>>

(* The last loop.                                                           *)
RemoveFinalizer(c) ==
    /\ pc = "removeFinalizers" /\ c \in todo /\ listedFresh[c]
    /\ StoreCluster(c, [clusters[c] EXCEPT !.pipelineFinalizer = FALSE])
    /\ todo' = todo \ {c}
    /\ astray' = IF current.tenant /\ ~listed[c].shape.unmanaged
                 THEN astray ELSE Strayed(cur, c)
    /\ UNCHANGED <<tenants, tenantCache, clusterCache, tenantFresh, queue,
                   pc, cur, read, listed, readFresh, current>>

RemoveFinalizerFails(c) ==
    /\ pc = "removeFinalizers" /\ c \in todo /\ ~listedFresh[c]
    /\ EndWithError
    /\ UNCHANGED <<store, tenantCache, clusterCache, tenantFresh, clusterFresh, astray>>

Finish ==
    /\ pc = "removeFinalizers" /\ todo = {}
    /\ EndOk
    /\ UNCHANGED <<store, tenantCache, clusterCache, tenantFresh, clusterFresh, astray>>

-----------------------------------------------------------------------------
(* The watches: the Tenants themselves, and the Clusters they own.          *)

DeliverTenant(t) ==
    /\ ~tenantFresh[t]
    /\ tenantCache' = [tenantCache EXCEPT ![t] = tenants[t]]
    /\ tenantFresh' = [tenantFresh EXCEPT ![t] = TRUE]
    /\ queue' = queue \cup {t}
    /\ UNCHANGED <<store, clusterCache, clusterFresh, worker, astray>>

(* Mutant: the owner is taken for granted.                                  *)
DeliverClusterOfNobody(c) ==
    /\ ~clusterFresh[c]
    /\ clusterCache' = [clusterCache EXCEPT ![c] = clusters[c]]
    /\ clusterFresh' = [clusterFresh EXCEPT ![c] = TRUE]
    /\ queue' = queue \cup {clusterCache[c].bound, clusters[c].bound}
    /\ UNCHANGED <<store, tenantCache, tenantFresh, worker, astray>>

DeliverCluster(c) ==
    /\ ~clusterFresh[c]
    /\ clusterCache' = [clusterCache EXCEPT ![c] = clusters[c]]
    /\ clusterFresh' = [clusterFresh EXCEPT ![c] = TRUE]
    /\ queue' = queue \cup ({clusterCache[c].bound, clusters[c].bound} \ {None})
    /\ UNCHANGED <<store, tenantCache, tenantFresh, worker, astray>>

(* A call to the API server fails, or the operator restarts.                *)
CallFails ==
    /\ pc # "idle" /\ EndWithError
    /\ UNCHANGED <<store, tenantCache, clusterCache, tenantFresh, clusterFresh, astray>>

Crash ==
    /\ Idle /\ listedFresh' = Stale
    /\ tenantCache' = tenants /\ clusterCache' = clusters
    /\ tenantFresh' = [t \in Tenants |-> TRUE]
    /\ clusterFresh' = [c \in Clusters |-> TRUE]
    /\ queue' = {t \in Tenants : tenants[t].present}
    /\ UNCHANGED <<store, astray>>

-----------------------------------------------------------------------------
(* The Cluster controller: setTenantOwner needs the Tenant, then label,     *)
(* owner and finalizer are stored with one update.  handleDeletion refuses  *)
(* once the finalizer is gone.                                              *)
ReconcileCluster(c) ==
    LET o   == clusters[c]
        new == [o EXCEPT !.bound = o.tenantRef, !.finalizer = ~o.deleting] IN
    /\ o.present /\ tenants[o.tenantRef].present
    /\ o.deleting => o.finalizer
    /\ new # o
    /\ StoreCluster(c, new)
    /\ astray' = IF o.bound \in {None, new.bound} THEN astray ELSE Strayed(o.bound, c)
    /\ UNCHANGED <<tenants, tenantCache, clusterCache, tenantFresh, queue,
                   pc, cur, read, listed, todo, readFresh, current>>

(* A user, or the garbage collector, stores o.                              *)
EditClusterTo(c, o) ==
    /\ o # clusters[c]
    /\ StoreCluster(c, o)
    /\ UNCHANGED <<tenants, tenantCache, clusterCache, tenantFresh, queue,
                   pc, cur, read, listed, todo, readFresh, current, astray>>

CreateCluster(c) ==
    /\ ~clusters[c].present
    /\ \E t \in Tenants, s \in Shapes : EditClusterTo(c, NewCluster(t, s))

EditCluster(c) ==
    /\ clusters[c].present
    /\ \E s \in Shapes : EditClusterTo(c, [clusters[c] EXCEPT !.shape = s])

MoveCluster(c) ==
    /\ MayMove /\ clusters[c].present
    /\ \E t \in Tenants : EditClusterTo(c, [clusters[c] EXCEPT !.tenantRef = t])

DeleteCluster(c) ==
    /\ clusters[c].present
    /\ EditClusterTo(c, [clusters[c] EXCEPT !.deleting = TRUE])

(* Clusters go with the Tenant that owns them.                              *)
CollectCluster(c) ==
    /\ clusters[c].present /\ clusters[c].bound # None
    /\ ~tenants[clusters[c].bound].present
    /\ EditClusterTo(c, [clusters[c] EXCEPT !.deleting = TRUE])

EditTenantTo(t, o) ==
    /\ StoreTenant(t, o)
    /\ readFresh' = (readFresh /\ cur # t)
    /\ UNCHANGED <<clusters, tenantCache, clusterCache, clusterFresh, queue,
                   pc, cur, read, listed, todo, listedFresh, current, astray>>

SwitchPipeline(t) ==
    /\ t \in Switched /\ tenants[t].present
    /\ EditTenantTo(t, [tenants[t] EXCEPT !.enabled = ~@])

(* A Tenant has no finalizer.                                               *)
DeleteTenant(t) ==
    /\ MayDeleteTenant /\ tenants[t].present
    /\ EditTenantTo(t, NoTenant)

-----------------------------------------------------------------------------
Reconcile ==
    \/ UpdateTenant \/ UpdateTenantStatus \/ Finish
    \/ \E c \in Clusters : \/ AddFinalizer(c) \/ AddFinalizerFails(c)
                           \/ RemoveFinalizer(c) \/ RemoveFinalizerFails(c)

Operator ==
    \/ Reconcile
    \/ \E t \in Tenants : Start(t) \/ DeliverTenant(t)
    \/ \E c \in Clusters : \/ DeliverCluster(c) \/ ReconcileCluster(c)
                           \/ CollectCluster(c)

Fault == CallFails \/ Crash

Environment ==
    \/ \E t \in Tenants : SwitchPipeline(t) \/ DeleteTenant(t)
    \/ \E c \in Clusters : \/ CreateCluster(c) \/ EditCluster(c)
                           \/ MoveCluster(c) \/ DeleteCluster(c)

Next == Operator \/ Fault \/ Environment

Spec == Init /\ [][Next]_vars

(* Workers take their steps, the queue is first in, first out, the watches  *)
(* deliver, the garbage collector collects.                                 *)
FairSpec ==
    /\ Spec
    /\ WF_vars(Reconcile)
    /\ \A t \in Tenants : SF_vars(Start(t)) /\ WF_vars(DeliverTenant(t))
    /\ \A c \in Clusters : /\ WF_vars(DeliverCluster(c))
                           /\ WF_vars(ReconcileCluster(c))
                           /\ WF_vars(CollectCluster(c))

-----------------------------------------------------------------------------
(* Documented: a Cluster that is gone is named by no variable of a Tenant.  *)
(* Its finalizer is removed "at this point", when the Tenant has been       *)
(* updated (the comment before the last loop of Reconcile).                 *)
GoneClusterUnreferenced ==
    \A t \in Tenants, c \in Clusters :
        tenants[t].present /\ ~clusters[c].present
            => c \notin tenants[t].tokens /\ c \notin tenants[t].list

(* Neither the variables nor the status of a Tenant name a Cluster that is  *)
(* gone, unless it has gone astray for this Tenant: the four updates of     *)
(* Reconcile, in their order, leave no other way, whichever of them fail or *)
(* conflict.                                                                *)
NamedClustersAreThere ==
    \A t \in Tenants : tenants[t].present =>
        \A c \in Named(tenants[t]) : clusters[c].present \/ c \in astray[t]

(* A cluster loses the pipeline's finalizer only when the Tenant it is      *)
(* bound to at that moment names it nowhere ("at this point the tenant has  *)
(* been updated and we can safely remove the finalizers"), but for the      *)
(* token of an unmanaged one, when the reconciliation has read the Tenant   *)
(* as it was: whatever else was outdated, moved or failed.                  *)
ReleasedByItsTenant ==
    [][\A c \in Clusters :
         /\ clusters[c].pipelineFinalizer /\ clusters[c].bound # None
         /\ ~clusters'[c].pipelineFinalizer
         /\ current.tenant
         => LET o == tenants[clusters[c].bound] IN
            /\ c \notin o.list \cup o.status
            /\ c \in o.tokens => clusters[c].shape.unmanaged]_vars

(* What the variables and the status of a Tenant come to.                   *)
InStep(t) ==
    LET o == tenants[t] IN
    /\ o.list = WantedList(o, clusters, t)
    /\ o.status = WantedStatus(o, clusters, t)
    /\ o.tokens \cap Considered(clusters, t)
           = WithToken(o, clusters, t) \cap Considered(clusters, t)

(* Nobody looks at the Tenant t, or will before something changes.          *)
AtRest(t) ==
    /\ cur # t /\ t \notin queue
    /\ tenantFresh[t] /\ \A c \in Clusters : clusterFresh[c]

(* No work is ever lost: a Tenant at rest names the clusters that are its   *)
(* own, enabled and not being deleted, and these, no others, carry the      *)
(* finalizer, although every one of the four updates may have conflicted or *)
(* been made from an outdated copy (Reconcile, SetupWithManager).           *)
AtRestInStep ==
    \A t \in Tenants :
        tenants[t].present /\ AtRest(t)
        => /\ InStep(t)
           /\ \A c \in Labelled(clusters, t) :
                  clusters[c].pipelineFinalizer = ~clusters[c].deleting

Quiet == <>[][Operator]_vars

(* Once users leave them alone, every Tenant names the clusters that are    *)
(* its own, enabled and not being deleted, whatever crashes, outdated       *)
(* caches and conflicts there were (Reconcile, with the watches of          *)
(* SetupWithManager).                                                       *)
TenantsGetInStep ==
    Quiet => <>[](\A t \in Tenants : tenants[t].present => InStep(t))

(* Documented: the pipeline does not block the deletion of a Cluster.       *)
DeletedClustersGo ==
    Quiet => <>[](\A c \in Clusters : clusters[c].present => ~clusters[c].deleting)
=============================================================================
