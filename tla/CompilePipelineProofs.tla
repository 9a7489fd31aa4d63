----------------------- MODULE CompilePipelineProofs -----------------------
(***************************************************************************)
(* Theorems about CompilePipeline for every set of Tenants, Clusters and   *)
(* shapes, and whatever is outdated when it is read: its type invariant,   *)
(* that a Cluster loses the finalizer only when its Tenant, as it was      *)
(* read, names it nowhere, that a Tenant names a Cluster that is gone only *)
(* if it has gone astray, and that no work is lost.                        *)
(***************************************************************************)
EXTENDS CompilePipeline, TLAPS

-----------------------------------------------------------------------------
(* Facts about Tenants and Clusters.                                        *)

(* What stands for no Cluster is a Cluster that is bound to nobody.         *)
LEMMA NoClusterFacts ==
    /\ NoCluster \in Cluster
    /\ ~NoCluster.present /\ ~NoCluster.deleting /\ ~NoCluster.pipelineFinalizer
    /\ NoCluster.bound = None
<1>1. PICK t \in Tenants, s \in Shapes : TRUE
  BY NameAssumption, ShapeAssumption
<1>2. (CHOOSE u \in Tenants : TRUE) \in Tenants /\ (CHOOSE v \in Shapes : TRUE) \in Shapes
  BY <1>1
<1> QED
  BY <1>2 DEF NoCluster, NewCluster, Cluster

(* A Cluster that users make is a Cluster.                                  *)
LEMMA NewClusterType ==
    \A t \in Tenants, s \in Shapes : NewCluster(t, s) \in Cluster
BY DEF NewCluster, Cluster

(* What stands for no Tenant is a Tenant that names nothing.                *)
LEMMA NoTenantType == NoTenant \in Tenant
BY DEF NoTenant, Tenant, Absent

(* What becomes of a stored Cluster is a Cluster.                           *)
LEMMA SettledType == \A o \in Cluster : Settled(o) \in Cluster
BY NoClusterFacts DEF Settled

(* A Tenant as a reconciliation wants it is a Tenant.                       *)
LEMMA WantedType ==
    ASSUME NEW o \in Tenant, NEW cs \in [Clusters -> Cluster], NEW t
    PROVE  /\ WantedTenant(o, cs, t) \in Tenant
           /\ [o EXCEPT !.status = WantedStatus(o, cs, t)] \in Tenant
<1>1. /\ Enabled(cs, t) \subseteq Clusters /\ WithToken(o, cs, t) \subseteq Clusters
      /\ WantedStatus(o, cs, t) \subseteq Clusters
  BY DEF Enabled, EnabledOrDeleting, Labelled, WithToken, WantedStatus
<1>2. WantedTokens(o, cs, t) \subseteq Clusters
  BY <1>1 DEF WantedTokens, Tenant
<1>3. WantedList(o, cs, t) \in (SUBSET Clusters) \cup {{None}}
  BY <1>1 DEF WantedList, Absent
<1> QED
  BY <1>1, <1>2, <1>3 DEF WantedTenant, Tenant

(* Storing an object keeps the types of what it changes.                    *)
LEMMA StoreClusterType ==
    ASSUME TypeOK, NEW c \in Clusters, NEW o \in Cluster, StoreCluster(c, o)
    PROVE  /\ clusters' \in [Clusters -> Cluster]
           /\ clusterFresh' \in [Clusters -> BOOLEAN]
           /\ listedFresh' \in [Clusters -> BOOLEAN]
<1>1. Settled(o) \in Cluster
  BY SettledType
<1> QED
  BY <1>1 DEF StoreCluster, TypeOK

(* The same for a Tenant.                                                   *)
LEMMA StoreTenantType ==
    ASSUME TypeOK, NEW t \in Tenants, NEW o \in Tenant, StoreTenant(t, o)
    PROVE  /\ tenants' \in [Tenants -> Tenant]
           /\ tenantFresh' \in [Tenants -> BOOLEAN]
BY DEF StoreTenant, TypeOK

(* The worker's variables at the end of a reconciliation.                   *)
LEMMA IdleType ==
    ASSUME Idle
    PROVE  /\ pc' = "idle" /\ cur' = None /\ read' \in Tenant
           /\ listed' \in [Clusters -> Cluster]
           /\ todo' = {} /\ readFresh' = FALSE
           /\ current' \in [tenant : BOOLEAN, clusters : SUBSET Clusters]
BY NoTenantType, NoClusterFacts DEF Idle, Unread, Nothing

(* The history keeps its type.                                              *)
LEMMA HistoryType ==
    ASSUME TypeOK, NEW t \in Tenants
    PROVE  /\ \A c : Strayed(t, c) \in [Tenants -> SUBSET Clusters]
           /\ \A o : cur \in Tenants => Renamed(o) \in [Tenants -> SUBSET Clusters]
BY DEF Strayed, Renamed, Named, TypeOK

(* A reconciliation that fails leaves all objects alone.                    *)
LEMMA EndWithErrorType ==
    ASSUME TypeOK, EndWithError, cur \in Tenants,
           UNCHANGED <<store, tenantCache, clusterCache, tenantFresh, clusterFresh, astray>>
    PROVE  TypeOK'
<1>1. queue' \subseteq Tenants /\ listedFresh' \in [Clusters -> BOOLEAN]
  BY DEF EndWithError, Stale, TypeOK
<1> QED
  BY <1>1, IdleType DEF EndWithError, TypeOK, store

-----------------------------------------------------------------------------
(* Type correctness.                                                        *)

(* The initial state is well typed.                                         *)
LEMMA InitType == Init => TypeOK
<1> SUFFICES ASSUME Init PROVE TypeOK
  OBVIOUS
<1>1. tenants \in [Tenants -> Tenant] /\ read \in Tenant
  BY NoTenantType DEF Init, NoTenant, Tenant, Absent
<1>2. clusters \in [Clusters -> Cluster] /\ listed \in [Clusters -> Cluster]
  BY NoClusterFacts DEF Init, Unread
<1> QED
  BY <1>1, <1>2 DEF Init, TypeOK, Stale, Nothing

(* The start of a reconciliation keeps the types.                           *)
LEMMA StartType ==
    ASSUME TypeOK, NEW t \in Tenants, Start(t)
    PROVE  TypeOK'
<1>1. CASE ~tenantCache[t].present
  BY <1>1 DEF Start, TypeOK, store, worker
<1>2. CASE tenantCache[t].present
  <2>1. /\ listed' \in [Clusters -> Cluster]
        /\ listedFresh' \in [Clusters -> BOOLEAN]
        /\ todo' \subseteq Clusters
    <3>1. /\ listed' = [c \in Clusters |-> IF c \in Labelled(clusterCache, t)
                                           THEN clusterCache[c] ELSE NoCluster]
          /\ listedFresh' = [c \in Clusters |->
                                clusterFresh[c] /\ c \in Labelled(clusterCache, t)]
          /\ todo' = LackFinalizer(clusterCache, t)
      BY <1>2 DEF Start
    <3>2. listed' \in [Clusters -> Cluster]
      BY <3>1, NoClusterFacts DEF TypeOK
    <3>3. listedFresh' \in [Clusters -> BOOLEAN]
      BY <3>1 DEF TypeOK
    <3>4. todo' \subseteq Clusters
      BY <3>1 DEF LackFinalizer, Labelled
    <3> QED
      BY <3>2, <3>3, <3>4
  <2>2. current' \in [tenant : BOOLEAN, clusters : SUBSET Clusters]
    <3>1. /\ tenantFresh[t] \in BOOLEAN
          /\ {c \in Enabled(clusterCache, t) : clusterFresh[c]} \subseteq Clusters
      BY DEF TypeOK, Enabled, EnabledOrDeleting, Labelled
    <3> QED
      BY <1>2, <3>1 DEF Start
  <2> QED
    BY <1>2, <2>1, <2>2 DEF Start, TypeOK, store
<1> QED
  BY <1>1, <1>2

(* The steps of a reconciliation keep the types.                            *)
LEMMA ReconcileType == TypeOK /\ Reconcile => TypeOK'
<1> SUFFICES ASSUME TypeOK, Reconcile PROVE TypeOK'
  OBVIOUS
<1>a. pc # "idle" => cur \in Tenants
  BY DEF TypeOK
<1>1. CASE UpdateTenant
  <2>1. WantedTenant(read, listed, cur) \in Tenant
    BY WantedType DEF TypeOK
  <2>2. CASE EndWithError /\ UNCHANGED <<tenants, tenantFresh, astray>>
    BY <1>1, <1>a, <2>2, EndWithErrorType DEF UpdateTenant, store
  <2>3. CASE ~(EndWithError /\ UNCHANGED <<tenants, tenantFresh, astray>>)
    <3>1. /\ tenants' \in [Tenants -> Tenant]
          /\ tenantFresh' \in [Tenants -> BOOLEAN] /\ read' \in Tenant
          /\ astray' \in [Tenants -> SUBSET Clusters]
      BY <1>1, <1>a, <2>1, <2>3, StoreTenantType, HistoryType DEF UpdateTenant, TypeOK
    <3> QED
      BY <1>1, <1>a, <2>3, <3>1 DEF UpdateTenant, StoreTenant, TypeOK
  <2> QED
    BY <2>2, <2>3
<1>2. CASE UpdateTenantStatus
  <2> DEFINE wanted == [read EXCEPT !.status = WantedStatus(read, listed, cur)]
  <2>1. wanted \in Tenant
    BY WantedType DEF TypeOK
  <2>2. ToRelease(read, listed, cur) \subseteq Clusters
    BY DEF ToRelease, Labelled
  <2>3. CASE EndWithError /\ UNCHANGED <<tenants, tenantFresh, astray>>
    BY <1>2, <1>a, <2>3, EndWithErrorType DEF UpdateTenantStatus, store
  <2>4. CASE ~(EndWithError /\ UNCHANGED <<tenants, tenantFresh, astray>>)
    <3>1. /\ tenants' \in [Tenants -> Tenant]
          /\ tenantFresh' \in [Tenants -> BOOLEAN] /\ read' \in Tenant
          /\ astray' \in [Tenants -> SUBSET Clusters]
      BY <1>2, <1>a, <2>1, <2>4, StoreTenantType, HistoryType DEF UpdateTenantStatus, TypeOK
    <3> QED
      BY <1>2, <1>a, <2>2, <2>4, <3>1 DEF UpdateTenantStatus, StoreTenant, TypeOK
  <2> QED
    BY <2>3, <2>4
<1>3. CASE Finish
  BY <1>3, IdleType DEF Finish, EndOk, Stale, TypeOK, store
<1>4. ASSUME NEW c \in Clusters, AddFinalizer(c)
      PROVE  TypeOK'
  <2>1. [clusters[c] EXCEPT !.pipelineFinalizer = TRUE] \in Cluster
    <3>1. clusters[c] \in Cluster
      BY DEF TypeOK
    <3> QED
      BY <3>1 DEF Cluster
  <2>2. /\ clusters' \in [Clusters -> Cluster]
        /\ clusterFresh' \in [Clusters -> BOOLEAN]
        /\ listedFresh' \in [Clusters -> BOOLEAN]
    BY <1>4, <2>1, StoreClusterType DEF AddFinalizer
  <2> QED
    BY <1>4, <2>2 DEF AddFinalizer, TypeOK
<1>5. ASSUME NEW c \in Clusters, AddFinalizerFails(c)
      PROVE  TypeOK'
  BY <1>5, <1>a, EndWithErrorType DEF AddFinalizerFails
<1>6. ASSUME NEW c \in Clusters, RemoveFinalizer(c)
      PROVE  TypeOK'
  <2>1. [clusters[c] EXCEPT !.pipelineFinalizer = FALSE] \in Cluster
    <3>1. clusters[c] \in Cluster
      BY DEF TypeOK
    <3> QED
      BY <3>1 DEF Cluster
  <2>2. /\ clusters' \in [Clusters -> Cluster]
        /\ clusterFresh' \in [Clusters -> BOOLEAN]
        /\ listedFresh' \in [Clusters -> BOOLEAN]
    BY <1>6, <2>1, StoreClusterType DEF RemoveFinalizer
  <2>3. astray' \in [Tenants -> SUBSET Clusters]
    BY <1>6, HistoryType DEF RemoveFinalizer, TypeOK
  <2> QED
    BY <1>6, <2>2, <2>3 DEF RemoveFinalizer, TypeOK
<1>7. ASSUME NEW c \in Clusters, RemoveFinalizerFails(c)
      PROVE  TypeOK'
  BY <1>7, <1>a, EndWithErrorType DEF RemoveFinalizerFails
<1> QED
  BY <1>1, <1>2, <1>3, <1>4, <1>5, <1>6, <1>7 DEF Reconcile

(* The watches keep the types.                                              *)
LEMMA WatchType ==
    ASSUME TypeOK,
           \/ \E t \in Tenants : DeliverTenant(t)
           \/ \E c \in Clusters : DeliverCluster(c)
    PROVE  TypeOK'
<1>1. ASSUME NEW t \in Tenants, DeliverTenant(t)
      PROVE  TypeOK'
  BY <1>1 DEF DeliverTenant, TypeOK, store, worker
<1>2. ASSUME NEW c \in Clusters, DeliverCluster(c)
      PROVE  TypeOK'
  <2>1. {clusterCache[c].bound, clusters[c].bound} \subseteq Tenants \cup {None}
    BY DEF TypeOK, Cluster
  <2> QED
    BY <1>2, <2>1 DEF DeliverCluster, TypeOK, store, worker
<1> QED
  BY <1>1, <1>2

(* Failures and restarts keep the types.                                    *)
LEMMA FaultType == TypeOK /\ Fault => TypeOK'
<1> SUFFICES ASSUME TypeOK, Fault PROVE TypeOK'
  OBVIOUS
<1>1. CASE CallFails
  <2>1. cur \in Tenants
    BY <1>1 DEF CallFails, TypeOK
  <2> QED
    BY <1>1, <2>1, EndWithErrorType DEF CallFails
<1>2. CASE Crash
  <2>1. listedFresh' \in [Clusters -> BOOLEAN]
    BY <1>2 DEF Crash, Stale
  <2> QED
    BY <1>2, <2>1, IdleType DEF Crash, TypeOK, store
<1> QED
  BY <1>1, <1>2 DEF Fault

(* What others store keeps the types.                                       *)
LEMMA EditClusterType ==
    ASSUME TypeOK, NEW c \in Clusters, NEW o \in Cluster, StoreCluster(c, o),
           UNCHANGED <<tenants, tenantCache, clusterCache, tenantFresh, queue,
                       pc, cur, read, listed, todo, readFresh, current>>,
           astray' \in [Tenants -> SUBSET Clusters]
    PROVE  TypeOK'
<1>1. /\ clusters' \in [Clusters -> Cluster]
      /\ clusterFresh' \in [Clusters -> BOOLEAN]
      /\ listedFresh' \in [Clusters -> BOOLEAN]
  BY StoreClusterType
<1> QED
  BY <1>1 DEF TypeOK

(* The same for a Tenant.                                                   *)
LEMMA EditTenantType ==
    ASSUME TypeOK, NEW t \in Tenants, NEW o \in Tenant, EditTenantTo(t, o)
    PROVE  TypeOK'
<1>1. /\ tenants' \in [Tenants -> Tenant]
      /\ tenantFresh' \in [Tenants -> BOOLEAN]
  BY StoreTenantType DEF EditTenantTo
<1>2. readFresh' \in BOOLEAN
  BY DEF EditTenantTo, TypeOK
<1> QED
  BY <1>1, <1>2 DEF EditTenantTo, TypeOK

(* Who stores another version of a Cluster, and which.                      *)
EditedBy(c, o) ==
    \/ ReconcileCluster(c)
       /\ o = [clusters[c] EXCEPT !.bound = clusters[c].tenantRef,
                                  !.finalizer = ~clusters[c].deleting]
    \/ CreateCluster(c) /\ \E t \in Tenants, s \in Shapes : o = NewCluster(t, s)
    \/ EditCluster(c) /\ \E s \in Shapes : o = [clusters[c] EXCEPT !.shape = s]
    \/ MoveCluster(c) /\ \E t \in Tenants : o = [clusters[c] EXCEPT !.tenantRef = t]
    \/ (DeleteCluster(c) \/ CollectCluster(c))
       /\ o = [clusters[c] EXCEPT !.deleting = TRUE]

(* The Cluster c, as it is stored next, is no longer bound to the Tenant t, *)
(* which names it.                                                          *)
Leaves(c, o, t) ==
    /\ clusters[c].present /\ clusters[c].bound = t /\ o.bound # t
    /\ c \in Named(tenants[t])

(* Every step of the Cluster controller, of users and of the garbage        *)
(* collector at a Cluster stores one version and leaves the rest alone.  A  *)
(* Cluster that moves away goes astray.                                     *)
LEMMA ClusterEdits ==
    ASSUME TypeOK, NEW c \in Clusters,
           \/ ReconcileCluster(c) \/ CreateCluster(c) \/ EditCluster(c)
           \/ MoveCluster(c) \/ DeleteCluster(c) \/ CollectCluster(c)
    PROVE  \E o \in Cluster :
              /\ EditedBy(c, o) /\ StoreCluster(c, o) /\ o.present
              /\ astray' \in [Tenants -> SUBSET Clusters]
              /\ \A t \in Tenants : /\ astray[t] \subseteq astray'[t]
                                    /\ Leaves(c, o, t) => c \in astray'[t]
              /\ UNCHANGED <<tenants, tenantCache, clusterCache, tenantFresh, queue,
                             pc, cur, read, listed, todo, readFresh, current>>
<1>a. clusters[c] \in Cluster /\ astray \in [Tenants -> SUBSET Clusters]
  BY DEF TypeOK
<1>1. CASE ReconcileCluster(c)
  <2> DEFINE o == [clusters[c] EXCEPT !.bound = clusters[c].tenantRef,
                                      !.finalizer = ~clusters[c].deleting]
  <2>1. /\ o \in Cluster /\ o.present = clusters[c].present
        /\ o.bound = clusters[c].tenantRef
    BY <1>a DEF Cluster
  <2>2. astray' = IF clusters[c].bound \in {None, o.bound}
                  THEN astray ELSE Strayed(clusters[c].bound, c)
    BY <1>1 DEF ReconcileCluster
  <2>3. clusters[c].bound # None => clusters[c].bound \in Tenants
    BY <1>a DEF Cluster
  <2>4. /\ astray' \in [Tenants -> SUBSET Clusters]
        /\ \A t \in Tenants : /\ astray[t] \subseteq astray'[t]
                              /\ Leaves(c, o, t) => c \in astray'[t]
    <3>1. CASE clusters[c].bound \in {None, o.bound}
      BY <1>a, <2>2, <3>1, NameAssumption DEF Leaves
    <3>2. CASE clusters[c].bound \notin {None, o.bound}
      BY <1>a, <2>2, <2>3, <3>2, HistoryType DEF Strayed, Leaves
    <3> QED
      BY <3>1, <3>2
  <2> QED
    BY <1>1, <2>1, <2>4 DEF ReconcileCluster, EditedBy
<1>2. CASE CreateCluster(c)
  <2>1. PICK t \in Tenants, s \in Shapes : EditClusterTo(c, NewCluster(t, s))
    BY <1>2 DEF CreateCluster
  <2>2. NewCluster(t, s) \in Cluster /\ NewCluster(t, s).present
    BY NewClusterType DEF NewCluster
  <2>3. \A u \in Tenants : ~Leaves(c, NewCluster(t, s), u)
    BY <1>2 DEF CreateCluster, Leaves
  <2> QED
    BY <1>2, <1>a, <2>1, <2>2, <2>3 DEF EditClusterTo, EditedBy
<1>3. CASE EditCluster(c)
  <2>1. PICK s \in Shapes : EditClusterTo(c, [clusters[c] EXCEPT !.shape = s])
    BY <1>3 DEF EditCluster
  <2>2. /\ [clusters[c] EXCEPT !.shape = s] \in Cluster
        /\ [clusters[c] EXCEPT !.shape = s].present = clusters[c].present
        /\ [clusters[c] EXCEPT !.shape = s].bound = clusters[c].bound
    BY <1>a DEF Cluster
  <2> QED
    BY <1>3, <1>a, <2>1, <2>2 DEF EditCluster, EditClusterTo, EditedBy, Leaves
<1>4. CASE MoveCluster(c)
  <2>1. PICK t \in Tenants : EditClusterTo(c, [clusters[c] EXCEPT !.tenantRef = t])
    BY <1>4 DEF MoveCluster
  <2>2. /\ [clusters[c] EXCEPT !.tenantRef = t] \in Cluster
        /\ [clusters[c] EXCEPT !.tenantRef = t].present = clusters[c].present
        /\ [clusters[c] EXCEPT !.tenantRef = t].bound = clusters[c].bound
    BY <1>a DEF Cluster
  <2> QED
    BY <1>4, <1>a, <2>1, <2>2 DEF MoveCluster, EditClusterTo, EditedBy, Leaves
<1>5. CASE DeleteCluster(c) \/ CollectCluster(c)
  <2>1. /\ [clusters[c] EXCEPT !.deleting = TRUE] \in Cluster
        /\ [clusters[c] EXCEPT !.deleting = TRUE].present = clusters[c].present
        /\ [clusters[c] EXCEPT !.deleting = TRUE].bound = clusters[c].bound
    BY <1>a DEF Cluster
  <2> QED
    BY <1>5, <1>a, <2>1 DEF DeleteCluster, CollectCluster, EditClusterTo, EditedBy, Leaves
<1> QED
  BY <1>1, <1>2, <1>3, <1>4, <1>5

(* Two Tenants that name the same Clusters.                                 *)
SameNames(o, p) == o.list = p.list /\ o.tokens = p.tokens /\ o.status = p.status

(* Users who switch a pipeline or delete a Tenant store a Tenant that names *)
(* what it named, or nothing.                                               *)
LEMMA TenantEdits ==
    ASSUME TypeOK, NEW t \in Tenants, SwitchPipeline(t) \/ DeleteTenant(t)
    PROVE  \E o \in Tenant :
              /\ EditTenantTo(t, o)
              /\ \/ o = NoTenant
                 \/ o.present /\ tenants[t].present /\ SameNames(o, tenants[t])
<1>a. tenants[t] \in Tenant
  BY DEF TypeOK
<1>1. CASE SwitchPipeline(t)
  <2> DEFINE o == [tenants[t] EXCEPT !.enabled = ~@]
  <2>1. o \in Tenant /\ o.present = tenants[t].present /\ SameNames(o, tenants[t])
    BY <1>a DEF Tenant, SameNames
  <2> QED
    BY <1>1, <2>1 DEF SwitchPipeline
<1>2. CASE DeleteTenant(t)
  <2> QED
    BY <1>2, NoTenantType DEF DeleteTenant
<1> QED
  BY <1>1, <1>2

(* The parts of Next by which lemmas speak of it.                           *)
LEMMA NextParts ==
    ASSUME Next
    PROVE  \/ Reconcile \/ CallFails \/ Crash
           \/ \E t \in Tenants : \/ Start(t) \/ DeliverTenant(t)
                                 \/ SwitchPipeline(t) \/ DeleteTenant(t)
           \/ \E c \in Clusters :
                 \/ DeliverCluster(c)
                 \/ ReconcileCluster(c) \/ CreateCluster(c) \/ EditCluster(c)
                 \/ MoveCluster(c) \/ DeleteCluster(c) \/ CollectCluster(c)
BY DEF Next, Operator, Fault, Environment

(* Every step keeps the types.                                              *)
LEMMA NextType == TypeOK /\ [Next]_vars => TypeOK'
<1> SUFFICES ASSUME TypeOK, [Next]_vars PROVE TypeOK'
  OBVIOUS
<1>1. CASE UNCHANGED vars
  BY <1>1 DEF vars, store, informer, worker, TypeOK
<1>2. CASE Reconcile
  BY <1>2, ReconcileType
<1>3. CASE CallFails \/ Crash
  BY <1>3, FaultType DEF Fault
<1>4. ASSUME NEW t \in Tenants, Start(t)
      PROVE  TypeOK'
  BY <1>4, StartType
<1>5. CASE \/ \E t \in Tenants : DeliverTenant(t)
           \/ \E c \in Clusters : DeliverCluster(c)
  BY <1>5, WatchType
<1>6. ASSUME NEW t \in Tenants, SwitchPipeline(t) \/ DeleteTenant(t)
      PROVE  TypeOK'
  BY <1>6, TenantEdits, EditTenantType
<1>7. ASSUME NEW c \in Clusters,
             \/ ReconcileCluster(c) \/ CreateCluster(c) \/ EditCluster(c)
             \/ MoveCluster(c) \/ DeleteCluster(c) \/ CollectCluster(c)
      PROVE  TypeOK'
  BY <1>7, ClusterEdits, EditClusterType
<1> QED
  BY <1>1, <1>2, <1>3, <1>4, <1>5, <1>6, <1>7, NextParts

(* The variables of the pipeline's model keep their types whatever caches,  *)
(* moves and deletions there are (TypeOK of CompilePipeline).               *)
THEOREM PipelineTypeCorrect == Spec => []TypeOK
<1> QED
  BY InitType, NextType, PTL DEF Spec
-----------------------------------------------------------------------------
(* What the worker has read.                                                *)

(* A copy with the stored resourceVersion is a copy of what is stored, and  *)
(* what was listed carries the label of the Tenant at hand.                 *)
CopyInv ==
    /\ \A t \in Tenants : tenantFresh[t] => tenantCache[t] = tenants[t]
    /\ \A c \in Clusters : clusterFresh[c] => clusterCache[c] = clusters[c]
    /\ \A c \in Clusters : listedFresh[c] => /\ pc # "idle" /\ listed[c].present
                                             /\ listed[c] = clusters[c]
    /\ \A c \in Clusters : clusters[c].present \/ clusters[c] = NoCluster
    /\ \A c \in Clusters : listed[c].present => listed[c].bound = cur
    /\ readFresh => pc # "idle" /\ tenants[cur] = read

(* Nobody else changes what the Tenant at hand names, if it was read as it  *)
(* was, and a Tenant that is gone names nothing.                            *)
ReadInv ==
    /\ pc # "idle" => /\ read.present
                      /\ current.tenant /\ tenants[cur].present
                            => SameNames(tenants[cur], read)
    /\ \A t \in Tenants : ~tenants[t].present => tenants[t] = NoTenant

(* Clusters that were listed and being deleted.                             *)
Leaving == {c \in Clusters : listed[c].present /\ listed[c].deleting}

(* Clusters that are being deleted are taken out of the variables, then out *)
(* of the status, before they are released; the loop over the tokens skips  *)
(* unmanaged ones.                                                          *)
ReleaseInv ==
    /\ pc \in {"status", "removeFinalizers"} =>
           \A c \in Leaving : /\ c \notin read.list
                              /\ c \in read.tokens => listed[c].shape.unmanaged
    /\ pc = "removeFinalizers" =>
           /\ todo \subseteq Leaving
           /\ \A c \in Leaving : c \notin read.status

-----------------------------------------------------------------------------
(* The Cluster c is there, and stays until it is released.                  *)
Kept(c) == clusters[c].present /\ clusters[c].pipelineFinalizer

(* The Tenant t holds it.                                                   *)
Held(t, c) == Kept(c) /\ clusters[c].bound = t

(* What a Tenant names, it holds, or it has gone astray.                    *)
NamedInv ==
    \A t \in Tenants : tenants[t].present =>
        \A c \in Named(tenants[t]) : c \in astray[t] \/ Held(t, c)

(* What the worker is about to name and has read as it was is kept, or the  *)
(* worker has yet to see to it.                                             *)
AdoptInv ==
    /\ pc = "status" => todo = {}
    /\ pc \in {"addFinalizers", "status"} =>
           \A c \in current.clusters : c \in todo \/ Kept(c)

-----------------------------------------------------------------------------
(* Every step keeps CopyInv.                                                *)

(* A reconciliation that ends leaves nothing in the worker's hands.         *)
LEMMA IdleInv ==
    ASSUME Idle, listedFresh' = Stale
    PROVE  /\ pc' = "idle" /\ readFresh' = FALSE
           /\ \A c \in Clusters : ~listed'[c].present /\ ~listedFresh'[c]
           /\ ReleaseInv' /\ AdoptInv'
BY NoClusterFacts DEF Idle, Stale, Unread, ReleaseInv, AdoptInv

(* It leaves nothing that could be outdated.                                *)
LEMMA IdleCopy ==
    ASSUME CopyInv, Idle, listedFresh' = Stale,
           UNCHANGED <<store, tenantCache, clusterCache, tenantFresh, clusterFresh>>
    PROVE  CopyInv'
BY IdleInv DEF CopyInv, store

(* A Cluster that is stored outdates every copy of it.                      *)
LEMMA StoreClusterCopy ==
    ASSUME TypeOK, CopyInv, NEW c \in Clusters, NEW o, o.present, StoreCluster(c, o),
           UNCHANGED <<tenants, tenantCache, clusterCache, tenantFresh,
                       pc, cur, read, listed, readFresh>>
    PROVE  CopyInv'
<1>1. Settled(o).present \/ Settled(o) = NoCluster
  BY DEF Settled
<1> QED
  BY <1>1 DEF CopyInv, StoreCluster, TypeOK

(* The worker's own update of the Tenant leaves it with what is stored.     *)
LEMMA StoreReadCopy ==
    ASSUME TypeOK, CopyInv, pc # "idle", pc' # "idle", NEW o,
           StoreTenant(cur, o), read' = o,
           UNCHANGED <<clusters, tenantCache, clusterCache, clusterFresh,
                       cur, listed, readFresh, listedFresh>>
    PROVE  CopyInv'
BY DEF CopyInv, StoreTenant, TypeOK

(* The worker goes on without a write.                                      *)
LEMMA KeepCopy ==
    ASSUME CopyInv, pc # "idle", pc' # "idle",
           UNCHANGED <<store, tenantCache, clusterCache, tenantFresh, clusterFresh,
                       cur, read, listed, readFresh, listedFresh>>
    PROVE  CopyInv'
BY DEF CopyInv, store

(* The steps of a reconciliation keep it.                                   *)
LEMMA ReconcileCopy == TypeOK /\ CopyInv /\ Reconcile => CopyInv'
<1> SUFFICES ASSUME TypeOK, CopyInv, Reconcile PROVE CopyInv'
  OBVIOUS
<1>1. CASE UpdateTenant
  <2>1. CASE WantedTenant(read, listed, cur) = read
    BY <1>1, <2>1, KeepCopy DEF UpdateTenant, store
  <2>2. CASE WantedTenant(read, listed, cur) # read /\ readFresh
    BY <1>1, <2>2, StoreReadCopy DEF UpdateTenant
  <2>3. CASE WantedTenant(read, listed, cur) # read /\ ~readFresh
    BY <1>1, <2>3, IdleCopy DEF UpdateTenant, EndWithError, store
  <2> QED
    BY <2>1, <2>2, <2>3 DEF TypeOK
<1>2. CASE UpdateTenantStatus
  <2> DEFINE wanted == [read EXCEPT !.status = WantedStatus(read, listed, cur)]
  <2>1. CASE wanted = read
    BY <1>2, <2>1, KeepCopy DEF UpdateTenantStatus, store
  <2>2. CASE wanted # read /\ readFresh
    BY <1>2, <2>2, StoreReadCopy DEF UpdateTenantStatus
  <2>3. CASE wanted # read /\ ~readFresh
    BY <1>2, <2>3, IdleCopy DEF UpdateTenantStatus, EndWithError, store
  <2> QED
    BY <2>1, <2>2, <2>3 DEF TypeOK
<1>3. CASE Finish
  BY <1>3, IdleCopy DEF Finish, EndOk
<1>4. ASSUME NEW c \in Clusters, AddFinalizer(c) \/ RemoveFinalizer(c)
      PROVE  CopyInv'
  <2>1. clusters[c] \in Cluster /\ clusters[c].present
    BY <1>4 DEF AddFinalizer, RemoveFinalizer, CopyInv, TypeOK
  <2>2. \A b \in BOOLEAN : [clusters[c] EXCEPT !.pipelineFinalizer = b].present
    BY <2>1 DEF Cluster
  <2> QED
    BY <1>4, <2>2, StoreClusterCopy DEF AddFinalizer, RemoveFinalizer
<1>5. ASSUME NEW c \in Clusters, AddFinalizerFails(c) \/ RemoveFinalizerFails(c)
      PROVE  CopyInv'
  BY <1>5, IdleCopy DEF AddFinalizerFails, RemoveFinalizerFails, EndWithError
<1> QED
  BY <1>1, <1>2, <1>3, <1>4, <1>5 DEF Reconcile

(* What is listed at the start is labelled, and as fresh as the cache.      *)
LEMMA StartCopy ==
    ASSUME TypeOK, CopyInv, NEW t \in Tenants, Start(t)
    PROVE  CopyInv'
<1>1. CASE ~tenantCache[t].present
  BY <1>1 DEF Start, CopyInv, store, worker
<1>2. CASE tenantCache[t].present
  <2>1. /\ pc' = "addFinalizers" /\ cur' = t
        /\ read' = tenantCache[t] /\ readFresh' = tenantFresh[t]
        /\ UNCHANGED <<store, tenantCache, clusterCache, tenantFresh, clusterFresh>>
    BY <1>2 DEF Start
  <2>2. ASSUME NEW c \in Clusters
        PROVE  /\ listed'[c].present => listed'[c].bound = t
               /\ listedFresh'[c] => /\ listed'[c] = clusterCache[c] /\ clusterFresh[c]
                                     /\ listed'[c].present
    BY <1>2, NoClusterFacts DEF Start, Labelled
  <2> QED
    BY <2>1, <2>2 DEF CopyInv, store
<1> QED
  BY <1>1, <1>2

(* A Tenant that users store is another version than the one that was read. *)
LEMMA EditTenantCopy ==
    ASSUME TypeOK, CopyInv, NEW t \in Tenants, NEW o, EditTenantTo(t, o)
    PROVE  CopyInv'
BY DEF EditTenantTo, StoreTenant, CopyInv, TypeOK

(* Every step keeps it.                                                     *)
LEMMA NextCopy == TypeOK /\ CopyInv /\ [Next]_vars => CopyInv'
<1> SUFFICES ASSUME TypeOK, CopyInv, [Next]_vars PROVE CopyInv'
  OBVIOUS
<1>1. CASE UNCHANGED vars
  BY <1>1 DEF vars, store, informer, worker, CopyInv
<1>2. CASE Reconcile
  BY <1>2, ReconcileCopy
<1>3. CASE CallFails
  BY <1>3, IdleCopy DEF CallFails, EndWithError
<1>4. CASE Crash
  BY <1>4, IdleInv DEF Crash, CopyInv, store
<1>5. ASSUME NEW t \in Tenants, Start(t)
      PROVE  CopyInv'
  BY <1>5, StartCopy
<1>6. ASSUME NEW t \in Tenants, DeliverTenant(t)
      PROVE  CopyInv'
  BY <1>6 DEF DeliverTenant, CopyInv, TypeOK, store, worker
<1>7. ASSUME NEW c \in Clusters, DeliverCluster(c)
      PROVE  CopyInv'
  BY <1>7 DEF DeliverCluster, CopyInv, TypeOK, store, worker
<1>8. ASSUME NEW t \in Tenants, SwitchPipeline(t) \/ DeleteTenant(t)
      PROVE  CopyInv'
  BY <1>8, EditTenantCopy DEF SwitchPipeline, DeleteTenant
<1>9. ASSUME NEW c \in Clusters,
             \/ ReconcileCluster(c) \/ CreateCluster(c) \/ EditCluster(c)
             \/ MoveCluster(c) \/ DeleteCluster(c) \/ CollectCluster(c)
      PROVE  CopyInv'
  BY <1>9, ClusterEdits, StoreClusterCopy
<1> QED
  BY <1>1, <1>2, <1>3, <1>4, <1>5, <1>6, <1>7, <1>8, <1>9, NextParts

-----------------------------------------------------------------------------
(* Every step keeps ReadInv.                                                *)

(* Steps that change no Tenant and leave the worker with what it has read.  *)
LEMMA KeepRead ==
    ASSUME ReadInv, UNCHANGED tenants,
           pc' = "idle" \/ (pc # "idle" /\ UNCHANGED <<cur, read, current>>)
    PROVE  ReadInv'
BY DEF ReadInv

(* The worker stores what it then has in hand.                              *)
LEMMA StoreRead ==
    ASSUME TypeOK, CopyInv, ReadInv, readFresh, NEW o \in Tenant,
           StoreTenant(cur, o), o.present = read.present, read' = o, cur' = cur
    PROVE  ReadInv'
<1>1. pc # "idle" /\ cur \in Tenants /\ tenants[cur] = read
  BY DEF CopyInv, TypeOK
<1>2. \A t \in Tenants : tenants'[t] = IF t = cur THEN o ELSE tenants[t]
  BY <1>1 DEF StoreTenant, TypeOK
<1> QED
  BY <1>1, <1>2 DEF ReadInv, SameNames

(* Every step keeps it.                                                     *)
LEMMA NextRead ==
    ASSUME TypeOK, CopyInv, ReadInv, [Next]_vars
    PROVE  ReadInv'
<1>1. CASE UNCHANGED vars
  BY <1>1 DEF vars, store, worker, ReadInv
<1>2. CASE UpdateTenant
  <2> DEFINE wanted == WantedTenant(read, listed, cur)
  <2>1. wanted \in Tenant /\ wanted.present = read.present
    BY WantedType DEF TypeOK, WantedTenant, Tenant
  <2>2. CASE readFresh /\ StoreTenant(cur, wanted) /\ read' = wanted /\ cur' = cur
    BY <2>1, <2>2, StoreRead
  <2>3. CASE ~(readFresh /\ StoreTenant(cur, wanted) /\ read' = wanted /\ cur' = cur)
    BY <1>2, <2>3, KeepRead DEF UpdateTenant, EndWithError, Idle
  <2> QED
    BY <2>2, <2>3
<1>3. CASE UpdateTenantStatus
  <2> DEFINE wanted == [read EXCEPT !.status = WantedStatus(read, listed, cur)]
  <2>1. wanted \in Tenant /\ wanted.present = read.present
    BY WantedType DEF TypeOK, Tenant
  <2>2. CASE readFresh /\ StoreTenant(cur, wanted) /\ read' = wanted /\ cur' = cur
    BY <2>1, <2>2, StoreRead
  <2>3. CASE ~(readFresh /\ StoreTenant(cur, wanted) /\ read' = wanted /\ cur' = cur)
    BY <1>3, <2>3, KeepRead DEF UpdateTenantStatus, EndWithError, Idle
  <2> QED
    BY <2>2, <2>3
<1>4. CASE Finish \/ CallFails \/ Crash
  BY <1>4, KeepRead DEF Finish, CallFails, Crash, EndOk, EndWithError, Idle, store
<1>5. ASSUME NEW c \in Clusters,
             \/ AddFinalizer(c) \/ AddFinalizerFails(c)
             \/ RemoveFinalizer(c) \/ RemoveFinalizerFails(c)
      PROVE  ReadInv'
  BY <1>5, KeepRead DEF AddFinalizer, AddFinalizerFails, RemoveFinalizer,
                        RemoveFinalizerFails, EndWithError, Idle, store
<1>6. ASSUME NEW t \in Tenants, Start(t)
      PROVE  ReadInv'
  <2>1. CASE ~tenantCache[t].present
    BY <1>6, <2>1 DEF Start, ReadInv, store, worker
  <2>2. CASE tenantCache[t].present
    <3>1. /\ cur' = t /\ read' = tenantCache[t] /\ current'.tenant = tenantFresh[t]
          /\ tenants' = tenants
      BY <1>6, <2>2 DEF Start, store
    <3> QED
      BY <2>2, <3>1 DEF ReadInv, CopyInv, SameNames
  <2> QED
    BY <2>1, <2>2
<1>7. ASSUME NEW t \in Tenants, DeliverTenant(t)
      PROVE  ReadInv'
  BY <1>7 DEF DeliverTenant, ReadInv, store, worker
<1>8. ASSUME NEW c \in Clusters, DeliverCluster(c)
      PROVE  ReadInv'
  BY <1>8 DEF DeliverCluster, ReadInv, store, worker
<1>9. ASSUME NEW t \in Tenants, SwitchPipeline(t) \/ DeleteTenant(t)
      PROVE  ReadInv'
  <2>1. PICK o \in Tenant :
           /\ EditTenantTo(t, o)
           /\ o = NoTenant \/ (o.present /\ tenants[t].present /\ SameNames(o, tenants[t]))
    BY <1>9, TenantEdits
  <2>2. \A u \in Tenants : tenants'[u] = IF u = t THEN o ELSE tenants[u]
    BY <2>1 DEF EditTenantTo, StoreTenant, TypeOK
  <2>3. /\ UNCHANGED <<pc, cur, read, current>>
        /\ pc # "idle" => cur \in Tenants
    BY <2>1 DEF EditTenantTo, TypeOK
  <2>4. ~NoTenant.present
    BY DEF NoTenant
  <2> QED
    BY <2>1, <2>2, <2>3, <2>4 DEF ReadInv, SameNames
<1>10. ASSUME NEW c \in Clusters,
              \/ ReconcileCluster(c) \/ CreateCluster(c) \/ EditCluster(c)
              \/ MoveCluster(c) \/ DeleteCluster(c) \/ CollectCluster(c)
       PROVE  ReadInv'
  <2>1. UNCHANGED <<tenants, pc, cur, read, current>>
    BY <1>10, ClusterEdits
  <2> QED
    BY <2>1 DEF ReadInv
<1> QED
  BY <1>1, <1>2, <1>3, <1>4, <1>5, <1>6, <1>7, <1>8, <1>9, <1>10, NextParts DEF Reconcile

-----------------------------------------------------------------------------
(* Every step keeps ReleaseInv.                                             *)

(* What is wanted names no Cluster that is being deleted, but for the token *)
(* of an unmanaged one.                                                     *)
LEMMA WantedWithoutLeaving ==
    ASSUME TypeOK, CopyInv, NEW c \in Leaving
    PROVE  /\ c \notin WantedTenant(read, listed, cur).list
           /\ c \in WantedTenant(read, listed, cur).tokens => listed[c].shape.unmanaged
           /\ c \notin WantedStatus(read, listed, cur)
<1>1. /\ c \in Clusters /\ listed[c].bound = cur
      /\ listed[c].present /\ listed[c].deleting
  BY DEF Leaving, CopyInv, TypeOK
<1>2. /\ ~listed[c].shape.unmanaged => c \in Considered(listed, cur)
      /\ c \in Deleting(listed)
  BY <1>1 DEF Considered, Labelled, Deleting
<1>3. c \notin Enabled(listed, cur)
  BY <1>2 DEF Enabled
<1>4. c \notin WithToken(read, listed, cur) /\ c \notin WantedStatus(read, listed, cur)
  BY <1>3 DEF WithToken, WantedStatus
<1>5. c \in WantedTokens(read, listed, cur) => listed[c].shape.unmanaged
  BY <1>2, <1>4 DEF WantedTokens
<1>6. c \notin WantedList(read, listed, cur)
  BY <1>1, <1>3, NameAssumption DEF WantedList, Absent
<1> QED
  BY <1>4, <1>5, <1>6 DEF WantedTenant, TypeOK, Tenant

(* Steps between two of the worker leave it alone.                          *)
LEMMA KeepRelease ==
    ASSUME ReleaseInv, UNCHANGED <<read, listed, pc>>, todo' \subseteq todo
    PROVE  ReleaseInv'
BY DEF ReleaseInv, Leaving

(* Every step keeps it.                                                     *)
LEMMA NextRelease ==
    ASSUME TypeOK, CopyInv, ReleaseInv, [Next]_vars
    PROVE  ReleaseInv'
<1>1. CASE UNCHANGED vars
  BY <1>1, KeepRelease DEF vars, worker
<1>2. CASE UpdateTenant
  <2> DEFINE wanted == WantedTenant(read, listed, cur)
  <2>1. CASE read' = wanted /\ pc' = "status" /\ listed' = listed
    <3>1. Leaving' = Leaving /\ pc' # "removeFinalizers"
      BY <2>1 DEF Leaving
    <3> QED
      BY <2>1, <3>1, WantedWithoutLeaving DEF ReleaseInv
  <2>2. CASE EndWithError
    BY <2>2, IdleInv DEF EndWithError
  <2> QED
    BY <1>2, <2>1, <2>2 DEF UpdateTenant, TypeOK
<1>3. CASE UpdateTenantStatus
  <2> DEFINE wanted == [read EXCEPT !.status = WantedStatus(read, listed, cur)]
  <2>1. CASE /\ read' = wanted /\ pc' = "removeFinalizers"
             /\ todo' = ToRelease(read, listed, cur) /\ listed' = listed
    <3>1. /\ wanted.tokens = read.tokens /\ wanted.list = read.list
          /\ wanted.status = WantedStatus(read, listed, cur)
      BY DEF TypeOK, Tenant
    <3>2. pc = "status" /\ Leaving' = Leaving
      BY <1>3, <2>1 DEF UpdateTenantStatus, Leaving
    <3>3. ToRelease(read, listed, cur) \subseteq Leaving
      BY DEF ToRelease, Labelled, Deleting, Leaving
    <3> QED
      BY <2>1, <3>1, <3>2, <3>3, WantedWithoutLeaving DEF ReleaseInv
  <2>2. CASE EndWithError
    BY <2>2, IdleInv DEF EndWithError
  <2> QED
    BY <1>3, <2>1, <2>2 DEF UpdateTenantStatus, TypeOK
<1>4. CASE Finish \/ CallFails \/ Crash
  BY <1>4, IdleInv DEF Finish, CallFails, Crash, EndOk, EndWithError
<1>5. ASSUME NEW c \in Clusters, AddFinalizer(c) \/ RemoveFinalizer(c)
      PROVE  ReleaseInv'
  BY <1>5, KeepRelease DEF AddFinalizer, RemoveFinalizer
<1>6. ASSUME NEW c \in Clusters, AddFinalizerFails(c) \/ RemoveFinalizerFails(c)
      PROVE  ReleaseInv'
  BY <1>6, IdleInv DEF AddFinalizerFails, RemoveFinalizerFails, EndWithError
<1>7. ASSUME NEW t \in Tenants, Start(t)
      PROVE  ReleaseInv'
  BY <1>7, KeepRelease DEF Start, ReleaseInv, worker
<1>8. ASSUME NEW t \in Tenants, DeliverTenant(t) \/ SwitchPipeline(t) \/ DeleteTenant(t)
      PROVE  ReleaseInv'
  BY <1>8, KeepRelease DEF DeliverTenant, SwitchPipeline, DeleteTenant, EditTenantTo, worker
<1>9. ASSUME NEW c \in Clusters, DeliverCluster(c)
      PROVE  ReleaseInv'
  BY <1>9, KeepRelease DEF DeliverCluster, worker
<1>10. ASSUME NEW c \in Clusters,
              \/ ReconcileCluster(c) \/ CreateCluster(c) \/ EditCluster(c)
              \/ MoveCluster(c) \/ DeleteCluster(c) \/ CollectCluster(c)
       PROVE  ReleaseInv'
  <2>1. UNCHANGED <<read, listed, pc, todo>>
    BY <1>10, ClusterEdits
  <2> QED
    BY <2>1, KeepRelease
<1> QED
  BY <1>1, <1>2, <1>3, <1>4, <1>5, <1>6, <1>7, <1>8, <1>9, <1>10, NextParts DEF Reconcile

-----------------------------------------------------------------------------
(* A Cluster is released by its Tenant.                                     *)

WorkerInv == TypeOK /\ CopyInv /\ ReadInv /\ ReleaseInv

(* The worker begins with nothing in hand and up-to-date caches.            *)
LEMMA InitWorker == Init => WorkerInv
<1> SUFFICES ASSUME Init PROVE CopyInv /\ ReadInv /\ ReleaseInv
  BY InitType DEF WorkerInv
<1>1. \A c \in Clusters : ~Unread[c].present /\ ~Stale[c]
  BY NoClusterFacts DEF Unread, Stale
<1>2. \A t \in Tenants : tenants[t].present
  BY DEF Init, NoTenant
<1> QED
  BY <1>1, <1>2 DEF Init, CopyInv, ReadInv, ReleaseInv

(* Every step keeps all of it.                                              *)
LEMMA NextWorker ==
    ASSUME WorkerInv, [Next]_vars
    PROVE  WorkerInv'
BY NextType, NextCopy, NextRead, NextRelease DEF WorkerInv

(* Every step leaves the stored Clusters alone or stores one of them.       *)
LEMMA ClusterSteps ==
    ASSUME TypeOK, CopyInv, [Next]_vars, clusters' # clusters
    PROVE  \E d \in Clusters, o \in Cluster :
              /\ o.present
              /\ \A c \in Clusters : clusters'[c] = IF c = d THEN Settled(o) ELSE clusters[c]
              /\ \/ EditedBy(d, o) /\ \A t \in Tenants : Leaves(d, o, t) => d \in astray'[t]
                 \/ AddFinalizer(d) /\ o = [clusters[d] EXCEPT !.pipelineFinalizer = TRUE]
                 \/ RemoveFinalizer(d) /\ o = [clusters[d] EXCEPT !.pipelineFinalizer = FALSE]
<1>1. ASSUME NEW d \in Clusters, NEW o, StoreCluster(d, o)
      PROVE  \A c \in Clusters : clusters'[c] = IF c = d THEN Settled(o) ELSE clusters[c]
  BY <1>1 DEF StoreCluster, TypeOK
<1>2. CASE UpdateTenant \/ UpdateTenantStatus \/ Finish \/ CallFails \/ Crash \/ UNCHANGED vars
  BY <1>2 DEF UpdateTenant, UpdateTenantStatus, Finish, CallFails, Crash, vars, store
<1>3. ASSUME NEW t \in Tenants,
             Start(t) \/ DeliverTenant(t) \/ SwitchPipeline(t) \/ DeleteTenant(t)
      PROVE  FALSE
  BY <1>3 DEF Start, DeliverTenant, SwitchPipeline, DeleteTenant, EditTenantTo, store
<1>4. ASSUME NEW d \in Clusters, AddFinalizerFails(d) \/ RemoveFinalizerFails(d) \/ DeliverCluster(d)
      PROVE  FALSE
  BY <1>4 DEF AddFinalizerFails, RemoveFinalizerFails, DeliverCluster, store
<1>5. ASSUME NEW d \in Clusters, AddFinalizer(d) \/ RemoveFinalizer(d)
      PROVE  \A b \in BOOLEAN :
                [clusters[d] EXCEPT !.pipelineFinalizer = b] \in {o \in Cluster : o.present}
  <2>1. clusters[d] \in Cluster /\ clusters[d].present
    BY <1>5 DEF AddFinalizer, RemoveFinalizer, CopyInv, TypeOK
  <2> QED
    BY <2>1 DEF Cluster
<1>6. ASSUME NEW d \in Clusters, AddFinalizer(d)
      PROVE  \E o \in Cluster :
                /\ o.present /\ StoreCluster(d, o)
                /\ o = [clusters[d] EXCEPT !.pipelineFinalizer = TRUE]
  BY <1>5, <1>6 DEF AddFinalizer
<1>7. ASSUME NEW d \in Clusters, RemoveFinalizer(d)
      PROVE  \E o \in Cluster :
                /\ o.present /\ StoreCluster(d, o)
                /\ o = [clusters[d] EXCEPT !.pipelineFinalizer = FALSE]
  BY <1>5, <1>7 DEF RemoveFinalizer
<1>8. ASSUME NEW d \in Clusters,
             \/ ReconcileCluster(d) \/ CreateCluster(d) \/ EditCluster(d)
             \/ MoveCluster(d) \/ DeleteCluster(d) \/ CollectCluster(d)
      PROVE  \E o \in Cluster : /\ o.present /\ StoreCluster(d, o) /\ EditedBy(d, o)
                                /\ \A t \in Tenants : Leaves(d, o, t) => d \in astray'[t]
  BY <1>8, ClusterEdits
<1> QED
  BY <1>1, <1>2, <1>3, <1>4, <1>6, <1>7, <1>8, NextParts DEF Reconcile

(* Only the worker takes the finalizer away.                                *)
LEMMA OnlyTheWorkerReleases ==
    ASSUME TypeOK, CopyInv, [Next]_vars, NEW c \in Clusters,
           clusters[c].pipelineFinalizer, ~clusters'[c].pipelineFinalizer
    PROVE  RemoveFinalizer(c)
<1>1. PICK d \in Clusters, o \in Cluster :
         /\ clusters'[c] = IF c = d THEN Settled(o) ELSE clusters[c]
         /\ \/ EditedBy(d, o)
            \/ AddFinalizer(d) /\ o = [clusters[d] EXCEPT !.pipelineFinalizer = TRUE]
            \/ RemoveFinalizer(d)
  BY ClusterSteps
<1>2. c = d /\ clusters[c] \in Cluster /\ clusters[c].present
  BY <1>1, NoClusterFacts DEF TypeOK, CopyInv
<1>3. ~o.pipelineFinalizer
  BY <1>1, <1>2 DEF Settled
<1>4. ~EditedBy(c, o)
  BY <1>2, <1>3 DEF EditedBy, CreateCluster, Cluster
<1> QED
  BY <1>1, <1>2, <1>3, <1>4 DEF Cluster

(* One step of ReleasedByItsTenant.                                         *)
Released ==
    \A c \in Clusters :
        /\ clusters[c].pipelineFinalizer /\ clusters[c].bound # None
        /\ ~clusters'[c].pipelineFinalizer
        /\ current.tenant
        => LET o == tenants[clusters[c].bound] IN
           /\ c \notin o.list \cup o.status
           /\ c \in o.tokens => clusters[c].shape.unmanaged

(* The Cluster that the worker releases is labelled with the Tenant at hand, *)
(* which has been updated, if it was read as it was.                        *)
LEMMA ReleasedUnnamed ==
    ASSUME WorkerInv, NEW c \in Clusters, RemoveFinalizer(c)
    PROVE  /\ clusters[c].bound = cur /\ listed[c] = clusters[c] /\ cur \in Tenants
           /\ current.tenant =>
                 /\ c \notin tenants[cur].list /\ c \notin tenants[cur].status
                 /\ c \in tenants[cur].tokens => clusters[c].shape.unmanaged
<1>1. /\ clusters[c].bound = cur /\ cur \in Tenants /\ c \in Leaving
      /\ listed[c] = clusters[c]
      /\ c \notin read.list /\ c \notin read.status
      /\ c \in read.tokens => clusters[c].shape.unmanaged
  BY DEF RemoveFinalizer, WorkerInv, CopyInv, ReleaseInv, TypeOK
<1>2. current.tenant => tenants[cur] = NoTenant \/ SameNames(tenants[cur], read)
  BY <1>1 DEF RemoveFinalizer, WorkerInv, ReadInv
<1>3. c \notin NoTenant.tokens /\ c \notin NoTenant.list /\ c \notin NoTenant.status
  BY NameAssumption DEF NoTenant, Absent
<1> QED
  BY <1>1, <1>2, <1>3 DEF SameNames

(* The strengthening holds in every behaviour.                              *)
LEMMA Worker == Spec => []WorkerInv
BY InitWorker, NextWorker, PTL DEF Spec

(* A Cluster is released only when its Tenant, unless that was outdated     *)
(* when it was read, names it nowhere but in the token of an unmanaged one: *)
(* although Clusters may be moved between Tenants, deleted and unmanaged at *)
(* any time, for any Tenants and Clusters (the updates of Reconcile, before *)
(* its last loop).                                                          *)
THEOREM ReleasedWhenUnnamed == Spec => ReleasedByItsTenant
<1>1. WorkerInv /\ [Next]_vars => [Released]_vars
  <2> SUFFICES ASSUME WorkerInv, [Next]_vars, NEW c \in Clusters,
                      clusters[c].pipelineFinalizer, ~clusters'[c].pipelineFinalizer,
                      current.tenant
               PROVE  /\ c \notin tenants[clusters[c].bound].list
                                   \cup tenants[clusters[c].bound].status
                      /\ c \in tenants[clusters[c].bound].tokens
                            => clusters[c].shape.unmanaged
    BY DEF Released
  <2>1. RemoveFinalizer(c)
    BY OnlyTheWorkerReleases DEF WorkerInv
  <2> QED
    BY <2>1, ReleasedUnnamed
<1>2. ReleasedByItsTenant <=> [][Released]_vars
  BY PTL DEF ReleasedByItsTenant, Released
<1> QED
  BY <1>1, <1>2, Worker, PTL DEF Spec

-----------------------------------------------------------------------------
(* A Tenant holds the Clusters it names, but for those that went astray.    *)

TrackInv == NamedInv /\ AdoptInv

(* Tenants that name the same Clusters.                                     *)
LEMMA SameNamed ==
    /\ \A o, p : SameNames(o, p) => Named(o) = Named(p)
    /\ Named(NoTenant) = {}
BY NameAssumption DEF SameNames, Named, NoTenant, Absent

(* Nothing is named at first.                                               *)
LEMMA InitTrack == Init => TrackInv
<1> SUFFICES ASSUME Init PROVE TrackInv
  OBVIOUS
<1>1. \A t \in Tenants : SameNames(tenants[t], NoTenant)
  BY DEF Init, SameNames, NoTenant
<1> QED
  BY <1>1, SameNamed DEF Init, TrackInv, NamedInv, AdoptInv

(* A Cluster that is kept stays, until the worker releases it; it changes   *)
(* Tenants only when the Cluster controller moves it.                       *)
LEMMA KeptStays ==
    ASSUME TypeOK, CopyInv, [Next]_vars,
           NEW c \in Clusters, Kept(c), ~RemoveFinalizer(c)
    PROVE  /\ Kept(c)'
           /\ \A t \in Tenants : \/ clusters[c].bound # t \/ clusters'[c].bound = t
                                 \/ c \in Named(tenants[t]) => c \in astray'[t]
<1>1. CASE clusters' = clusters
  BY <1>1 DEF Kept
<1>2. CASE clusters' # clusters
  <2>1. PICK d \in Clusters, o \in Cluster :
           /\ o.present
           /\ \A e \in Clusters : clusters'[e] = IF e = d THEN Settled(o) ELSE clusters[e]
           /\ \/ EditedBy(d, o) /\ \A t \in Tenants : Leaves(d, o, t) => d \in astray'[t]
              \/ AddFinalizer(d) /\ o = [clusters[d] EXCEPT !.pipelineFinalizer = TRUE]
              \/ RemoveFinalizer(d) /\ o = [clusters[d] EXCEPT !.pipelineFinalizer = FALSE]
    BY <1>2, ClusterSteps
  <2>2. CASE d # c
    BY <2>1, <2>2 DEF Kept
  <2>3. CASE d = c
    <3>1. clusters[c] \in Cluster
      BY DEF TypeOK
    <3>2. o.pipelineFinalizer
      BY <2>1, <2>3, <3>1 DEF Kept, EditedBy, CreateCluster, Cluster
    <3>3. Settled(o) = o
      BY <3>2 DEF Settled
    <3>4. CASE \A t \in Tenants : Leaves(d, o, t) => d \in astray'[t]
      BY <2>1, <2>3, <3>2, <3>3, <3>4 DEF Kept, Leaves
    <3>5. CASE o.bound = clusters[c].bound
      BY <2>1, <2>3, <3>2, <3>3, <3>5 DEF Kept
    <3>6. o.bound = clusters[c].bound \/ \A t \in Tenants : Leaves(d, o, t) => d \in astray'[t]
      BY <2>1, <2>3, <3>1 DEF Cluster
    <3> QED
      BY <3>4, <3>5, <3>6
  <2> QED
    BY <2>2, <2>3
<1> QED
  BY <1>1, <1>2

(* Steps that leave the worker where it is do not take from it what it is   *)
(* about to name.                                                           *)
LEMMA KeepAdopt ==
    ASSUME TypeOK, CopyInv, AdoptInv, [Next]_vars,
           \A c \in Clusters : ~RemoveFinalizer(c),
           UNCHANGED <<pc, current, todo>>
    PROVE  AdoptInv'
<1>1. current.clusters \subseteq Clusters
  BY DEF TypeOK
<1>2. \A c \in Clusters : Kept(c) => Kept(c)'
  BY KeptStays
<1> QED
  BY <1>1, <1>2 DEF AdoptInv

(* Every step keeps AdoptInv.                                               *)
LEMMA NextAdopt ==
    ASSUME TypeOK, CopyInv, AdoptInv, [Next]_vars
    PROVE  AdoptInv'
<1>1. CASE UNCHANGED vars
  BY <1>1 DEF vars, store, worker, AdoptInv, Kept
<1>2. CASE UpdateTenant
  BY <1>2, IdleInv DEF UpdateTenant, EndWithError, AdoptInv, Kept
<1>3. CASE UpdateTenantStatus
  BY <1>3, IdleInv DEF UpdateTenantStatus, EndWithError, AdoptInv
<1>4. CASE Finish \/ CallFails \/ Crash
  BY <1>4, IdleInv DEF Finish, CallFails, Crash, EndOk, EndWithError
<1>5. ASSUME NEW c \in Clusters, AddFinalizer(c)
      PROVE  AdoptInv'
  <2> DEFINE o == [clusters[c] EXCEPT !.pipelineFinalizer = TRUE]
  <2>1. /\ pc = "addFinalizers" /\ todo' = todo \ {c}
        /\ UNCHANGED <<pc, current>> /\ current.clusters \subseteq Clusters
    BY <1>5 DEF AddFinalizer, TypeOK
  <2>2. clusters[c] \in Cluster /\ clusters[c].present
    BY <1>5 DEF AddFinalizer, CopyInv, TypeOK
  <2>3. Settled(o) = o /\ o.present /\ o.pipelineFinalizer
    BY <2>2 DEF Settled, Cluster
  <2>4. Kept(c)'
    BY <1>5, <2>3 DEF AddFinalizer, StoreCluster, Kept, TypeOK
  <2>5. \A d \in Clusters : d # c /\ Kept(d) => Kept(d)'
    BY <1>5 DEF AddFinalizer, StoreCluster, Kept, TypeOK
  <2> QED
    BY <2>1, <2>4, <2>5 DEF AdoptInv
<1>6. ASSUME NEW c \in Clusters, RemoveFinalizer(c)
      PROVE  AdoptInv'
  BY <1>6 DEF RemoveFinalizer, AdoptInv
<1>7. ASSUME NEW c \in Clusters, AddFinalizerFails(c) \/ RemoveFinalizerFails(c)
      PROVE  AdoptInv'
  BY <1>7, IdleInv DEF AddFinalizerFails, RemoveFinalizerFails, EndWithError
<1>8. ASSUME NEW t \in Tenants, Start(t)
      PROVE  AdoptInv'
  <2>1. CASE ~tenantCache[t].present
    BY <1>8, <2>1 DEF Start, AdoptInv, Kept, store, worker
  <2>2. CASE tenantCache[t].present
    <3>1. /\ pc' = "addFinalizers" /\ clusters' = clusters
          /\ todo' = LackFinalizer(clusterCache, t)
          /\ current'.clusters = {c \in Enabled(clusterCache, t) : clusterFresh[c]}
      BY <1>8, <2>2 DEF Start, store
    <3>2. ASSUME NEW c \in current'.clusters
          PROVE  c \in todo' \/ Kept(c)'
      <4>1. /\ c \in Labelled(clusterCache, t) \ Deleting(clusterCache)
            /\ c \in Clusters /\ clusterCache[c] = clusters[c] /\ clusters[c].present
        BY <3>1, <3>2 DEF Enabled, EnabledOrDeleting, Labelled, CopyInv
      <4> QED
        BY <3>1, <4>1 DEF LackFinalizer, Kept
    <3> QED
      BY <3>1, <3>2 DEF AdoptInv
  <2> QED
    BY <2>1, <2>2
<1>9. CASE /\ \/ \E t \in Tenants : DeliverTenant(t) \/ SwitchPipeline(t) \/ DeleteTenant(t)
              \/ \E c \in Clusters :
                    \/ DeliverCluster(c)
                    \/ ReconcileCluster(c) \/ CreateCluster(c) \/ EditCluster(c)
                    \/ MoveCluster(c) \/ DeleteCluster(c) \/ CollectCluster(c)
           /\ \A c \in Clusters : ~RemoveFinalizer(c)
  <2>1. UNCHANGED <<pc, current, todo>>
    BY <1>9, ClusterEdits DEF DeliverTenant, SwitchPipeline, DeleteTenant, EditTenantTo,
                              DeliverCluster, worker
  <2> QED
    BY <1>9, <2>1, KeepAdopt
<1> QED
  BY <1>1, <1>2, <1>3, <1>4, <1>5, <1>6, <1>7, <1>8, <1>9, NextParts DEF Reconcile

(* The steps that change no Tenant: a Cluster that is named is still held,  *)
(* or has gone astray.                                                      *)
LEMMA UnwrittenNamed ==
    ASSUME WorkerInv, NamedInv, [Next]_vars, tenants' = tenants,
           \A t \in Tenants : astray[t] \subseteq astray'[t]
    PROVE  NamedInv'
<1> SUFFICES ASSUME NEW t \in Tenants, tenants[t].present, NEW c \in Named(tenants[t]),
                    c \notin astray[t]
             PROVE  c \in astray'[t] \/ Held(t, c)'
  BY DEF NamedInv, Named
<1>1. Held(t, c) /\ c \in Clusters
  BY DEF NamedInv, Named
<1>2. CASE RemoveFinalizer(c)
  <2>1. /\ clusters[c].bound = cur /\ listed[c] = clusters[c] /\ cur \in Tenants
        /\ current.tenant => /\ c \notin tenants[cur].list /\ c \notin tenants[cur].status
                             /\ c \in tenants[cur].tokens => clusters[c].shape.unmanaged
    BY <1>1, <1>2, ReleasedUnnamed
  <2>2. t = cur /\ (current.tenant => listed[c].shape.unmanaged)
    BY <1>1, <2>1 DEF Held, Named
  <2>3. astray' = Strayed(cur, c)
    BY <1>2, <2>2 DEF RemoveFinalizer
  <2>4. astray \in [Tenants -> SUBSET Clusters]
    BY DEF WorkerInv, TypeOK
  <2> QED
    BY <2>2, <2>3, <2>4 DEF Strayed
<1>3. CASE ~RemoveFinalizer(c)
  BY <1>1, <1>3, KeptStays DEF Held, WorkerInv
<1> QED
  BY <1>2, <1>3

(* The updates of the Tenant at hand: what it comes to name was read as it  *)
(* was and is kept, or has gone astray.                                     *)
LEMMA WrittenNamed ==
    ASSUME WorkerInv, TrackInv, cur \in Tenants, readFresh, todo = {},
           pc \in {"addFinalizers", "status"},
           NEW o, StoreTenant(cur, o), astray' = Renamed(o), clusters' = clusters
    PROVE  NamedInv'
<1>1. /\ astray \in [Tenants -> SUBSET Clusters] /\ tenants[cur].present
      /\ \A t \in Tenants : tenants'[t] = IF t = cur THEN o ELSE tenants[t]
  BY DEF WorkerInv, TypeOK, StoreTenant, CopyInv, ReadInv
<1>2. /\ \A t \in Tenants : t # cur => astray'[t] = astray[t]
      /\ astray'[cur] = (astray[cur] \cup (Overlooked \ Named(tenants[cur]))) \cap Named(o)
  BY <1>1 DEF Renamed
<1>3. ASSUME NEW c \in Named(o), c \notin astray'[cur]
      PROVE  Held(cur, c)
  <2>1. c \in Clusters /\ c \notin astray[cur]
    BY <1>2, <1>3 DEF Named
  <2>2. CASE c \in Named(tenants[cur])
    BY <1>1, <2>1, <2>2 DEF TrackInv, NamedInv
  <2>3. CASE c \notin Named(tenants[cur])
    <3>1. c \in current.clusters /\ clusters[c].bound = cur
      BY <1>2, <1>3, <2>1, <2>3 DEF Overlooked
    <3> QED
      BY <3>1 DEF TrackInv, AdoptInv, Held
  <2> QED
    BY <2>2, <2>3
<1>4. \A t \in Tenants, c \in Clusters : Held(t, c)' <=> Held(t, c)
  BY DEF Held, Kept
<1> SUFFICES ASSUME NEW t \in Tenants, tenants'[t].present, NEW c \in Named(tenants'[t]),
                    c \notin astray'[t]
             PROVE  Held(t, c)'
  BY DEF NamedInv, Named
<1>5. c \in Clusters
  BY DEF Named
<1>6. CASE t = cur
  BY <1>1, <1>3, <1>4, <1>5, <1>6
<1>7. CASE t # cur
  BY <1>1, <1>2, <1>4, <1>5, <1>7 DEF TrackInv, NamedInv
<1> QED
  BY <1>6, <1>7

(* Every step keeps NamedInv.                                               *)
LEMMA NextNamed ==
    ASSUME WorkerInv, TrackInv, [Next]_vars
    PROVE  NamedInv'
<1>1. CASE UNCHANGED <<tenants, astray>>
  BY <1>1, UnwrittenNamed DEF TrackInv
<1>2. CASE UpdateTenant
  <2>1. CASE UNCHANGED <<tenants, astray>>
    BY <2>1, <1>1
  <2>2. CASE ~UNCHANGED <<tenants, astray>>
    <3> DEFINE o == WantedTenant(read, listed, cur)
    <3>1. /\ StoreTenant(cur, o) /\ astray' = Renamed(o) /\ clusters' = clusters
          /\ readFresh /\ todo = {} /\ pc = "addFinalizers" /\ cur \in Tenants
      BY <1>2, <2>2 DEF UpdateTenant, WorkerInv, TypeOK
    <3> QED
      BY <3>1, WrittenNamed
  <2> QED
    BY <2>1, <2>2
<1>3. CASE UpdateTenantStatus
  <2>1. CASE UNCHANGED <<tenants, astray>>
    BY <2>1, <1>1
  <2>2. CASE ~UNCHANGED <<tenants, astray>>
    <3> DEFINE o == [read EXCEPT !.status = WantedStatus(read, listed, cur)]
    <3>1. /\ StoreTenant(cur, o) /\ astray' = Renamed(o) /\ clusters' = clusters
          /\ readFresh /\ pc = "status" /\ cur \in Tenants
      BY <1>3, <2>2 DEF UpdateTenantStatus, WorkerInv, TypeOK
    <3>2. todo = {}
      BY <3>1 DEF TrackInv, AdoptInv
    <3> QED
      BY <3>1, <3>2, WrittenNamed
  <2> QED
    BY <2>1, <2>2
<1>4. ASSUME NEW c \in Clusters, RemoveFinalizer(c)
      PROVE  NamedInv'
  <2>1. cur \in Tenants /\ astray \in [Tenants -> SUBSET Clusters]
    BY <1>4 DEF RemoveFinalizer, WorkerInv, TypeOK
  <2>2. /\ tenants' = tenants
        /\ astray' = astray \/ astray' = Strayed(cur, c)
    BY <1>4 DEF RemoveFinalizer
  <2>3. \A t \in Tenants : astray[t] \subseteq astray'[t]
    BY <2>1, <2>2 DEF Strayed
  <2> QED
    BY <2>2, <2>3, UnwrittenNamed DEF TrackInv
<1>5. ASSUME NEW t \in Tenants, SwitchPipeline(t) \/ DeleteTenant(t)
      PROVE  NamedInv'
  <2>1. PICK o \in Tenant :
           /\ EditTenantTo(t, o)
           /\ o = NoTenant \/ (o.present /\ tenants[t].present /\ SameNames(o, tenants[t]))
    BY <1>5, TenantEdits DEF WorkerInv
  <2>2. /\ clusters' = clusters /\ astray' = astray
        /\ \A u \in Tenants : tenants'[u] = IF u = t THEN o ELSE tenants[u]
    BY <2>1 DEF EditTenantTo, StoreTenant, WorkerInv, TypeOK
  <2>3. o = NoTenant \/ (tenants[t].present /\ Named(o) = Named(tenants[t]))
    BY <2>1, SameNamed
  <2>4. ~NoTenant.present
    BY DEF NoTenant
  <2> QED
    BY <2>2, <2>3, <2>4 DEF TrackInv, NamedInv, Held, Kept
<1>6. CASE \/ Finish \/ CallFails \/ Crash \/ UNCHANGED vars
           \/ \E t \in Tenants : Start(t) \/ DeliverTenant(t)
           \/ \E c \in Clusters :
                 \/ AddFinalizer(c) \/ AddFinalizerFails(c)
                 \/ RemoveFinalizerFails(c) \/ DeliverCluster(c)
  <2>1. UNCHANGED <<tenants, astray>>
    BY <1>6 DEF Finish, CallFails, Crash, vars, store, Start, DeliverTenant, AddFinalizer,
                AddFinalizerFails, RemoveFinalizerFails, DeliverCluster
  <2> QED
    BY <1>1, <2>1
<1>7. ASSUME NEW c \in Clusters,
             \/ ReconcileCluster(c) \/ CreateCluster(c) \/ EditCluster(c)
             \/ MoveCluster(c) \/ DeleteCluster(c) \/ CollectCluster(c)
      PROVE  NamedInv'
  <2>1. tenants' = tenants /\ \A t \in Tenants : astray[t] \subseteq astray'[t]
    BY <1>7, ClusterEdits DEF WorkerInv
  <2> QED
    BY <2>1, UnwrittenNamed DEF TrackInv
<1> QED
  BY <1>2, <1>3, <1>4, <1>5, <1>6, <1>7, NextParts DEF Reconcile

(* Neither the variables nor the status of a Tenant name a Cluster that is  *)
(* gone, unless it has gone astray for this Tenant: for any Tenants,        *)
(* Clusters and shapes, whatever is outdated when it is read, conflicts,    *)
(* fails, moves or is deleted, there is no other way (the four updates of   *)
(* Reconcile, in their order).                                              *)
THEOREM NamesOnlyClustersThere == Spec => []NamedClustersAreThere
<1>1. Init => WorkerInv /\ TrackInv
  BY InitWorker, InitTrack
<1>2. WorkerInv /\ TrackInv /\ [Next]_vars => (WorkerInv /\ TrackInv)'
  BY NextWorker, NextNamed, NextAdopt DEF WorkerInv, TrackInv
<1>3. WorkerInv /\ TrackInv => NamedClustersAreThere
  BY DEF TrackInv, NamedInv, Held, Kept, NamedClustersAreThere
<1> QED
  BY <1>1, <1>2, <1>3, PTL DEF Spec

-----------------------------------------------------------------------------
(* No work is lost.                                                         *)

(* For the Tenant t the lists cs and ds of Clusters are the same.           *)
SameView(cs, ds, t) ==
    \A c \in Clusters :
        /\ c \in Labelled(cs, t) <=> c \in Labelled(ds, t)
        /\ c \in Labelled(cs, t) => cs[c] = ds[c]

VariablesAsWanted(o, cs, t) ==
    o.list = WantedList(o, cs, t) /\ o.tokens = WantedTokens(o, cs, t)

StatusAsWanted(o, cs, t) == o.status = WantedStatus(o, cs, t)

(* A Tenant that nobody will look at was left as the caches want it, or     *)
(* something has yet to be delivered.                                       *)
LeftInv ==
    \A t \in Tenants :
        t \notin queue /\ t # cur /\ tenantCache[t].present
        => /\ tenantFresh[t] => /\ VariablesAsWanted(tenantCache[t], clusterCache, t)
                                /\ StatusAsWanted(tenantCache[t], clusterCache, t)
           /\ \A c \in Clusters :
                 clusterFresh[c] => /\ c \notin LackFinalizer(clusterCache, t)
                                    /\ c \notin ToRelease(tenantCache[t], clusterCache, t)

(* So is the one at hand as far as the worker has got.                      *)
HandInv ==
    cur \notin queue =>
    /\ SameView(listed, clusterCache, cur)
    /\ tenantFresh[cur] => read = tenantCache[cur]
    /\ pc \in {"status", "removeFinalizers"} /\ tenantFresh[cur] =>
           VariablesAsWanted(read, listed, cur)
    /\ pc = "removeFinalizers" /\ tenantFresh[cur] => StatusAsWanted(read, listed, cur)
    /\ \A c \in LackFinalizer(listed, cur) :
           clusterFresh[c] => pc = "addFinalizers" /\ c \in todo
    /\ pc = "removeFinalizers" =>
           \A c \in ToRelease(read, listed, cur) : clusterFresh[c] => c \in todo

RestInv ==
    /\ LeftInv
    /\ pc # "idle" => HandInv
    /\ pc = "idle" => cur = None

(* What a reconciliation wants depends on the labelled Clusters only.       *)
LEMMA ViewDecides ==
    ASSUME NEW cs, NEW ds, NEW t, SameView(cs, ds, t)
    PROVE  /\ Labelled(cs, t) = Labelled(ds, t)
           /\ LackFinalizer(cs, t) = LackFinalizer(ds, t)
           /\ \A o : /\ ToRelease(o, cs, t) = ToRelease(o, ds, t)
                     /\ VariablesAsWanted(o, cs, t) <=> VariablesAsWanted(o, ds, t)
                     /\ StatusAsWanted(o, cs, t) <=> StatusAsWanted(o, ds, t)
<1>1. Labelled(cs, t) = Labelled(ds, t) /\ Labelled(cs, t) \subseteq Clusters
  BY DEF SameView, Labelled
<1>2. \A c \in Labelled(cs, t) : cs[c] = ds[c]
  BY <1>1 DEF SameView
<1>3. LackFinalizer(cs, t) = LackFinalizer(ds, t)
  BY <1>1, <1>2 DEF LackFinalizer, Deleting
<1>4. \A o : ToRelease(o, cs, t) = ToRelease(o, ds, t)
  BY <1>1, <1>2 DEF ToRelease, Deleting
<1>5. /\ Enabled(cs, t) = Enabled(ds, t) /\ Enabled(cs, t) \subseteq Labelled(cs, t)
      /\ Considered(cs, t) = Considered(ds, t)
  BY <1>1, <1>2 DEF Enabled, EnabledOrDeleting, Deleting, Considered
<1>6. \A o : WithToken(o, cs, t) = WithToken(o, ds, t)
  BY <1>2, <1>5 DEF WithToken
<1> QED
  BY <1>1, <1>3, <1>4, <1>5, <1>6
  DEF VariablesAsWanted, StatusAsWanted, WantedList, WantedTokens, WantedStatus

(* Storing an object leaves less to be seen as done.                        *)
LEMMA StoringRest ==
    ASSUME RestInv,
           UNCHANGED <<tenantCache, clusterCache, queue, pc, cur, read, listed>>,
           \A t \in Tenants : tenantFresh'[t] => tenantFresh[t],
           \A c \in Clusters : clusterFresh'[c] => clusterFresh[c] /\ (c \in todo => c \in todo'),
           TypeOK
    PROVE  RestInv'
<1>1. LeftInv'
  BY DEF RestInv, LeftInv
<1>2. pc # "idle" => HandInv'
  <2>1. /\ LackFinalizer(listed, cur) \subseteq Clusters
        /\ ToRelease(read, listed, cur) \subseteq Clusters
    BY DEF LackFinalizer, ToRelease, Labelled
  <2> QED
    BY <2>1 DEF RestInv, HandInv, TypeOK
<1> QED
  BY <1>1, <1>2 DEF RestInv

(* A reconciliation that fails puts the Tenant back.                        *)
LEMMA ErrorRest ==
    ASSUME TypeOK, RestInv, EndWithError,
           \A t \in Tenants : tenantFresh'[t] => tenantFresh[t],
           UNCHANGED <<tenantCache, clusterCache, clusterFresh>>
    PROVE  RestInv'
BY DEF EndWithError, Idle, RestInv, LeftInv

(* The two updates of the Tenant.                                           *)
LEMMA UpdateTenantRest ==
    ASSUME TypeOK, RestInv, UpdateTenant
    PROVE  RestInv'
<1> DEFINE wanted == WantedTenant(read, listed, cur)
<1>1. pc = "addFinalizers" /\ todo = {} /\ cur \in Tenants
  BY DEF UpdateTenant, TypeOK
<1>2. CASE wanted = read
  <2>1. /\ pc' = "status"
        /\ UNCHANGED <<tenantCache, clusterCache, tenantFresh, clusterFresh, queue,
                       cur, read, listed, todo>>
    BY <1>2 DEF UpdateTenant
  <2>2. VariablesAsWanted(read, listed, cur)
    BY <1>2 DEF VariablesAsWanted, WantedTenant, TypeOK, Tenant
  <2>3. LeftInv'
    BY <2>1 DEF RestInv, LeftInv
  <2>4. HandInv'
    BY <1>1, <2>1, <2>2 DEF RestInv, HandInv
  <2> QED
    BY <2>1, <2>3, <2>4 DEF RestInv
<1>3. CASE wanted # read /\ readFresh
  <2>1. /\ pc' = "status" /\ StoreTenant(cur, wanted)
        /\ UNCHANGED <<tenantCache, clusterCache, clusterFresh, queue, cur, listed, todo>>
    BY <1>3 DEF UpdateTenant
  <2>2. /\ ~tenantFresh'[cur]
        /\ \A t \in Tenants : tenantFresh'[t] => tenantFresh[t]
    BY <1>1, <2>1 DEF StoreTenant, TypeOK
  <2>3. LeftInv'
    BY <2>1, <2>2 DEF RestInv, LeftInv
  <2>4. HandInv'
    BY <1>1, <2>1, <2>2 DEF RestInv, HandInv
  <2> QED
    BY <2>1, <2>3, <2>4 DEF RestInv
<1>4. CASE wanted # read /\ ~readFresh
  BY <1>4, ErrorRest DEF UpdateTenant
<1> QED
  BY <1>2, <1>3, <1>4 DEF TypeOK

LEMMA UpdateStatusRest ==
    ASSUME TypeOK, RestInv, UpdateTenantStatus
    PROVE  RestInv'
<1> DEFINE wanted == [read EXCEPT !.status = WantedStatus(read, listed, cur)]
<1>1. pc = "status" /\ cur \in Tenants
  BY DEF UpdateTenantStatus, TypeOK
<1>2. \A o : ToRelease(o, listed, cur) = ToRelease(read, listed, cur)
  BY DEF ToRelease
<1>3. CASE wanted = read
  <2>1. /\ pc' = "removeFinalizers" /\ todo' = ToRelease(read, listed, cur)
        /\ UNCHANGED <<tenantCache, clusterCache, tenantFresh, clusterFresh, queue,
                       cur, read, listed>>
    BY <1>3 DEF UpdateTenantStatus
  <2>2. StatusAsWanted(read, listed, cur)
    BY <1>3 DEF StatusAsWanted, TypeOK, Tenant
  <2>3. LeftInv'
    BY <2>1 DEF RestInv, LeftInv
  <2>4. HandInv'
    BY <1>1, <2>1, <2>2 DEF RestInv, HandInv
  <2> QED
    BY <2>1, <2>3, <2>4 DEF RestInv
<1>4. CASE wanted # read /\ readFresh
  <2>1. /\ pc' = "removeFinalizers" /\ todo' = ToRelease(read, listed, cur)
        /\ StoreTenant(cur, wanted)
        /\ UNCHANGED <<tenantCache, clusterCache, clusterFresh, queue, cur, listed>>
    BY <1>4 DEF UpdateTenantStatus
  <2>2. /\ ~tenantFresh'[cur]
        /\ \A t \in Tenants : tenantFresh'[t] => tenantFresh[t]
    BY <1>1, <2>1 DEF StoreTenant, TypeOK
  <2>3. LeftInv'
    BY <2>1, <2>2 DEF RestInv, LeftInv
  <2>4. HandInv'
    BY <1>1, <1>2, <2>1, <2>2 DEF RestInv, HandInv
  <2> QED
    BY <2>1, <2>3, <2>4 DEF RestInv
<1>5. CASE wanted # read /\ ~readFresh
  BY <1>5, ErrorRest DEF UpdateTenantStatus
<1> QED
  BY <1>3, <1>4, <1>5 DEF TypeOK

(* The end: everything was seen to.                                         *)
LEMMA FinishRest ==
    ASSUME TypeOK, RestInv, Finish
    PROVE  RestInv'
<1>1. /\ pc = "removeFinalizers" /\ todo = {} /\ cur \in Tenants /\ HandInv
      /\ UNCHANGED <<tenantCache, clusterCache, tenantFresh, clusterFresh, queue>>
  BY DEF Finish, EndOk, TypeOK, RestInv
<1>2. ASSUME cur \notin queue
      PROVE  /\ tenantFresh[cur] => /\ VariablesAsWanted(tenantCache[cur], clusterCache, cur)
                                    /\ StatusAsWanted(tenantCache[cur], clusterCache, cur)
             /\ \A c \in Clusters :
                    clusterFresh[c] => /\ c \notin LackFinalizer(clusterCache, cur)
                                       /\ c \notin ToRelease(tenantCache[cur], clusterCache, cur)
  <2>1. \A o : ToRelease(o, listed, cur) = ToRelease(read, listed, cur)
    BY DEF ToRelease
  <2>2. SameView(listed, clusterCache, cur)
    BY <1>1, <1>2 DEF HandInv
  <2>3. /\ LackFinalizer(clusterCache, cur) = LackFinalizer(listed, cur)
        /\ \A o : /\ ToRelease(o, clusterCache, cur) = ToRelease(o, listed, cur)
                  /\ VariablesAsWanted(o, clusterCache, cur) <=> VariablesAsWanted(o, listed, cur)
                  /\ StatusAsWanted(o, clusterCache, cur) <=> StatusAsWanted(o, listed, cur)
    BY <2>2, ViewDecides
  <2> QED
    BY <1>1, <1>2, <2>1, <2>3 DEF HandInv
<1>3. pc' = "idle" /\ cur' = None
  BY DEF Finish, EndOk, Idle
<1>4. LeftInv'
  BY <1>1, <1>2 DEF RestInv, LeftInv
<1> QED
  BY <1>3, <1>4 DEF RestInv

(* The start.                                                               *)
LEMMA StartRest ==
    ASSUME TypeOK, RestInv, NEW t \in Tenants, Start(t)
    PROVE  RestInv'
<1>1. /\ pc = "idle" /\ cur = None /\ queue' = queue \ {t}
      /\ UNCHANGED <<tenantCache, clusterCache, tenantFresh, clusterFresh>>
  BY DEF Start, RestInv
<1>2. CASE ~tenantCache[t].present
  <2>1. UNCHANGED worker
    BY <1>2 DEF Start
  <2> QED
    BY <1>1, <1>2, <2>1 DEF worker, RestInv, LeftInv
<1>3. CASE tenantCache[t].present
  <2>1. /\ pc' = "addFinalizers" /\ cur' = t /\ read' = tenantCache[t]
        /\ listed' = [c \in Clusters |-> IF c \in Labelled(clusterCache, t)
                                         THEN clusterCache[c] ELSE NoCluster]
        /\ todo' = LackFinalizer(clusterCache, t)
    BY <1>3 DEF Start
  <2>2. SameView(listed', clusterCache, t)
    BY <2>1, NoClusterFacts DEF SameView, Labelled
  <2>3. LackFinalizer(listed', t) = LackFinalizer(clusterCache, t)
    BY <2>2, ViewDecides
  <2>4. HandInv'
    BY <1>1, <2>1, <2>2, <2>3 DEF HandInv
  <2>5. LeftInv'
    BY <1>1, <2>1, NameAssumption DEF RestInv, LeftInv
  <2> QED
    BY <2>1, <2>4, <2>5 DEF RestInv
<1> QED
  BY <1>2, <1>3

(* What the watches deliver.                                                *)
LEMMA DeliverTenantRest ==
    ASSUME TypeOK, RestInv, NEW t \in Tenants, DeliverTenant(t)
    PROVE  RestInv'
<1>1. /\ queue' = queue \cup {t}
      /\ \A u \in Tenants : u # t => /\ tenantCache'[u] = tenantCache[u]
                                     /\ tenantFresh'[u] = tenantFresh[u]
      /\ UNCHANGED <<clusterCache, clusterFresh, pc, cur, read, listed, todo>>
  BY DEF DeliverTenant, TypeOK, worker
<1>2. LeftInv'
  BY <1>1 DEF RestInv, LeftInv
<1>3. pc # "idle" => HandInv'
  BY <1>1 DEF RestInv, HandInv, TypeOK
<1> QED
  BY <1>1, <1>2, <1>3 DEF RestInv

LEMMA DeliverClusterRest ==
    ASSUME TypeOK, RestInv, NEW c \in Clusters, DeliverCluster(c)
    PROVE  RestInv'
<1>1. /\ queue' = queue \cup ({clusterCache[c].bound, clusters[c].bound} \ {None})
      /\ clusterCache'[c] = clusters[c]
      /\ \A d \in Clusters : d # c => /\ clusterCache'[d] = clusterCache[d]
                                      /\ clusterFresh'[d] = clusterFresh[d]
      /\ UNCHANGED <<tenantCache, tenantFresh, pc, cur, read, listed, todo>>
  BY DEF DeliverCluster, TypeOK, worker
<1>2. ASSUME NEW t \in Tenants, t \notin queue'
      PROVE  /\ t \notin queue /\ SameView(clusterCache', clusterCache, t)
             /\ c \notin Labelled(clusterCache', t)
  <2>1. clusterCache[c].bound # t /\ clusters[c].bound # t
    BY <1>1, <1>2, NameAssumption
  <2> QED
    BY <1>1, <1>2, <2>1 DEF SameView, Labelled
<1>3. LeftInv'
  <2> SUFFICES ASSUME NEW t \in Tenants, t \notin queue', t # cur, tenantCache[t].present
               PROVE  /\ tenantFresh[t] => /\ VariablesAsWanted(tenantCache[t], clusterCache', t)
                                           /\ StatusAsWanted(tenantCache[t], clusterCache', t)
                      /\ \A d \in Clusters : clusterFresh'[d] =>
                            /\ d \notin LackFinalizer(clusterCache', t)
                            /\ d \notin ToRelease(tenantCache[t], clusterCache', t)
    BY <1>1 DEF LeftInv
  <2>1. t \notin queue /\ SameView(clusterCache', clusterCache, t)
    BY <1>2
  <2>2. /\ LackFinalizer(clusterCache', t) = LackFinalizer(clusterCache, t)
        /\ \A o : /\ ToRelease(o, clusterCache', t) = ToRelease(o, clusterCache, t)
                  /\ VariablesAsWanted(o, clusterCache', t) <=> VariablesAsWanted(o, clusterCache, t)
                  /\ StatusAsWanted(o, clusterCache', t) <=> StatusAsWanted(o, clusterCache, t)
    BY <2>1, ViewDecides
  <2>3. /\ c \notin LackFinalizer(clusterCache', t)
        /\ c \notin ToRelease(tenantCache[t], clusterCache', t)
    BY <1>2 DEF LackFinalizer, ToRelease
  <2> QED
    BY <1>1, <2>1, <2>2, <2>3 DEF RestInv, LeftInv
<1>4. ASSUME pc # "idle" PROVE HandInv'
  <2> SUFFICES ASSUME cur \notin queue' PROVE HandInv'
    BY <1>1 DEF HandInv
  <2>1. cur \in Tenants /\ HandInv
    BY <1>4 DEF TypeOK, RestInv
  <2>2. /\ cur \notin queue /\ SameView(clusterCache', clusterCache, cur)
        /\ c \notin Labelled(clusterCache', cur)
    BY <1>2, <2>1
  <2>3. SameView(listed, clusterCache', cur) /\ c \notin Labelled(listed, cur)
    BY <2>1, <2>2 DEF HandInv, SameView
  <2>4. /\ c \notin LackFinalizer(listed, cur) /\ c \notin ToRelease(read, listed, cur)
        /\ LackFinalizer(listed, cur) \subseteq Clusters
        /\ ToRelease(read, listed, cur) \subseteq Clusters
    BY <2>3 DEF LackFinalizer, ToRelease, Labelled
  <2> QED
    BY <1>1, <2>1, <2>2, <2>3, <2>4 DEF HandInv
<1> QED
  BY <1>1, <1>3, <1>4 DEF RestInv

(* Every step.                                                              *)
LEMMA NextRest ==
    ASSUME TypeOK, RestInv, [Next]_vars
    PROVE  RestInv'
<1>1. CASE UNCHANGED vars
  BY <1>1, StoringRest DEF vars, store, informer, worker
<1>2. CASE UpdateTenant \/ UpdateTenantStatus \/ Finish
  BY <1>2, UpdateTenantRest, UpdateStatusRest, FinishRest
<1>3. ASSUME NEW c \in Clusters, AddFinalizer(c) \/ RemoveFinalizer(c)
      PROVE  RestInv'
  <2>1. /\ \E o : StoreCluster(c, o)
        /\ todo' = todo \ {c}
        /\ UNCHANGED <<tenantCache, clusterCache, tenantFresh, queue, pc, cur, read, listed>>
    BY <1>3 DEF AddFinalizer, RemoveFinalizer
  <2>2. \A d \in Clusters : clusterFresh'[d] => clusterFresh[d] /\ d # c
    BY <2>1 DEF StoreCluster, TypeOK
  <2> QED
    BY <2>1, <2>2, StoringRest
<1>4. ASSUME NEW c \in Clusters, AddFinalizerFails(c) \/ RemoveFinalizerFails(c)
      PROVE  RestInv'
  BY <1>4, ErrorRest DEF AddFinalizerFails, RemoveFinalizerFails
<1>5. CASE CallFails
  BY <1>5, ErrorRest DEF CallFails
<1>6. CASE Crash
  BY <1>6, NameAssumption DEF Crash, Idle, RestInv, LeftInv
<1>7. ASSUME NEW t \in Tenants, Start(t) \/ DeliverTenant(t)
      PROVE  RestInv'
  BY <1>7, StartRest, DeliverTenantRest
<1>8. ASSUME NEW t \in Tenants, SwitchPipeline(t) \/ DeleteTenant(t)
      PROVE  RestInv'
  <2>1. PICK o \in Tenant : EditTenantTo(t, o)
    BY <1>8, TenantEdits
  <2>2. \A u \in Tenants : tenantFresh'[u] => tenantFresh[u]
    BY <2>1 DEF EditTenantTo, StoreTenant, TypeOK
  <2> QED
    BY <2>1, <2>2, StoringRest DEF EditTenantTo
<1>9. ASSUME NEW c \in Clusters, DeliverCluster(c)
      PROVE  RestInv'
  BY <1>9, DeliverClusterRest
<1>10. ASSUME NEW c \in Clusters,
              \/ ReconcileCluster(c) \/ CreateCluster(c) \/ EditCluster(c)
              \/ MoveCluster(c) \/ DeleteCluster(c) \/ CollectCluster(c)
       PROVE  RestInv'
  <2>1. PICK o \in Cluster :
          /\ StoreCluster(c, o)
          /\ UNCHANGED <<tenants, tenantCache, clusterCache, tenantFresh, queue,
                         pc, cur, read, listed, todo, readFresh, current>>
    BY <1>10, ClusterEdits
  <2>2. \A d \in Clusters : clusterFresh'[d] => clusterFresh[d]
    BY <2>1 DEF StoreCluster, TypeOK
  <2> QED
    BY <2>1, <2>2, StoringRest
<1> QED
  BY <1>1, <1>2, <1>3, <1>4, <1>5, <1>6, <1>7, <1>8, <1>9, <1>10, NextParts DEF Reconcile

(* A Tenant that nobody will look at before something changes names the     *)
(* clusters it should, and these carry the finalizer: for any number of     *)
(* Tenants and Clusters, with outdated caches, moves, unmanaged Clusters,   *)
(* conflicts and crashes, no event that would be needed is ever missed      *)
(* (Reconcile, the watches of SetupWithManager).                            *)
THEOREM NoWorkIsLost == Spec => []AtRestInStep
<1>1. Init => TypeOK /\ CopyInv /\ RestInv
  <2>1. Init => RestInv
    BY DEF Init, RestInv, LeftInv
  <2> QED
    BY <2>1, InitType, InitWorker DEF WorkerInv
<1>2. TypeOK /\ CopyInv /\ RestInv /\ [Next]_vars => (TypeOK /\ CopyInv /\ RestInv)'
  BY NextType, NextCopy, NextRest
<1>3. TypeOK /\ CopyInv /\ RestInv => AtRestInStep
  <2> SUFFICES ASSUME TypeOK, CopyInv, RestInv, NEW t \in Tenants,
                      tenants[t].present, AtRest(t)
               PROVE  /\ InStep(t)
                      /\ \A c \in Labelled(clusters, t) :
                            clusters[c].pipelineFinalizer = ~clusters[c].deleting
    BY DEF AtRestInStep
  <2>1. tenantCache[t] = tenants[t] /\ \A c \in Clusters : clusterFresh[c]
    BY DEF AtRest, CopyInv
  <2>2. clusterCache = clusters
    BY <2>1 DEF CopyInv, TypeOK
  <2>3. /\ VariablesAsWanted(tenants[t], clusters, t)
        /\ StatusAsWanted(tenants[t], clusters, t)
        /\ \A c \in Clusters : /\ c \notin LackFinalizer(clusters, t)
                                /\ c \notin ToRelease(tenants[t], clusters, t)
    BY <2>1, <2>2 DEF AtRest, RestInv, LeftInv
  <2>4. InStep(t)
    BY <2>3 DEF InStep, VariablesAsWanted, StatusAsWanted, WantedTokens
  <2>5. ASSUME NEW c \in Labelled(clusters, t)
        PROVE  clusters[c].pipelineFinalizer = ~clusters[c].deleting
    <3>1. c \in Clusters /\ clusters[c] \in Cluster
      BY DEF Labelled, TypeOK
    <3>2. clusters[c].pipelineFinalizer \in BOOLEAN /\ clusters[c].deleting \in BOOLEAN
      BY <3>1 DEF Cluster
    <3>3. /\ clusters[c].deleting \/ clusters[c].pipelineFinalizer
          /\ ~clusters[c].deleting \/ ~clusters[c].pipelineFinalizer
      BY <2>3, <3>1 DEF LackFinalizer, ToRelease, Deleting
    <3> QED
      BY <3>2, <3>3
  <2> QED
    BY <2>4, <2>5
<1> QED
  BY <1>1, <1>2, <1>3, PTL DEF Spec
=============================================================================
