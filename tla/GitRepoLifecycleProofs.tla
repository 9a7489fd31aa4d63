---------------------- MODULE GitRepoLifecycleProofs ----------------------
(***************************************************************************)
(* Theorems about GitRepoLifecycle for every set of GitRepos, specs and    *)
(* templates: its type invariant, and that no project is touched that was  *)
(* there before Lieutenant.                                                *)
(***************************************************************************)
EXTENDS GitRepoLifecycle, TLAPS

USE DEF Phases, Protections, Steps

-----------------------------------------------------------------------------
(* Facts about objects and projects.                                        *)

(* A new object has the type of an object.                                  *)
LEMMA NewObjectType == \A s \in Specs : NewObject(s) \in Object
BY DEF NewObject, Object

(* There is a spec, so the object that stands for none is well typed.       *)
LEMMA NoObjectType == NoObject \in Object /\ ~NoObject.present /\ ~NoObject.url
<1>1. PICK s \in Specs : TRUE
  BY SpecsAssumption
<1>2. (CHOOSE t \in Specs : TRUE) \in Specs
  BY <1>1
<1> QED
  BY <1>2 DEF NoObject, NewObject, Object

(* What stands for no object is not being deleted.                          *)
LEMMA NoObjectSettled == Settled(NoObject) = NoObject
BY DEF Settled, NoObject, NewObject

(* A project that is made, deleted, managed or released is a project.       *)
LEMMA ProjectTypes ==
    /\ NoProject \in Project
    /\ \A o \in GitRepos \cup {Foreign, None}, p \in BOOLEAN :
           NewProject(o, p) \in Project
    /\ \A p \in Project : /\ Managed(p) \in Project
                          /\ [p EXCEPT !.archived = TRUE] \in Project
                          /\ \A r \in GitRepos : Released(p, r) \in Project
<1>1. NoProject \in Project
  BY DEF NoProject, Project
<1>2. ASSUME NEW o \in GitRepos \cup {Foreign, None}, NEW p \in BOOLEAN
      PROVE  NewProject(o, p) \in Project
  BY DEF NewProject, NoProject, Project
<1>3. ASSUME NEW p \in Project
      PROVE  /\ Managed(p) \in Project
             /\ [p EXCEPT !.archived = TRUE] \in Project
             /\ \A r \in GitRepos : Released(p, r) \in Project
  BY DEF Managed, Released, Project
<1> QED
  BY <1>1, <1>2, <1>3

(* Updates of a stored object, and what becomes of it, are objects.         *)
LEMMA ObjectTypes ==
    ASSUME NEW s \in Object, NEW o \in Object
    PROVE  /\ Settled(o) \in Object
           /\ WithStatus(s, o) \in Object
           /\ WithSpecAndMeta(s, o) \in Object
           /\ WithFinalizer(WithDeletionProtection(o)) \in Object
<1>1. Settled(o) \in Object
  BY NoObjectType DEF Settled
<1>2. WithStatus(s, o) \in Object /\ WithStatus(o, s) \in Object
  BY DEF WithStatus, Object
<1>3. WithDeletionProtection(o) \in Object
  BY DEF WithDeletionProtection, Object
<1>4. \A p \in Object : WithFinalizer(p) \in Object
  BY DEF WithFinalizer, Object
<1> QED
  BY <1>1, <1>2, <1>3, <1>4 DEF WithSpecAndMeta

(* A write keeps the types of what it changes.                              *)
LEMMA WriteType ==
    ASSUME TypeOK, NEW r \in GitRepos, NEW o \in Object, Write(r, o)
    PROVE  /\ api' \in [GitRepos -> Object]
           /\ cacheFresh' \in [GitRepos -> BOOLEAN]
           /\ project' \in Project
<1>1. Settled(o) \in Object
  BY ObjectTypes
<1>2. api' \in [GitRepos -> Object]
  BY <1>1 DEF Write, TypeOK
<1>3. cacheFresh' \in [GitRepos -> BOOLEAN]
  BY <1>1 DEF Write, TypeOK
<1>4. project' \in Project
  BY ProjectTypes DEF Write, TypeOK
<1> QED
  BY <1>2, <1>3, <1>4

(* The worker's variables are well typed at the end of a reconciliation.    *)
LEMMA IdleType ==
    ASSUME Idle
    PROVE  /\ pc' = "idle" /\ cur' = None
           /\ obj' \in Object /\ orig' \in Object
           /\ objFresh' \in BOOLEAN /\ handle' \in BOOLEAN
           /\ policy' \in {"Delete", "Archive", "Retain"}
BY NoObjectType DEF Idle

(* What the owner's template makes of a cached object is an object.         *)
LEMMA FetchedType ==
    ASSUME TypeOK, NEW r \in GitRepos
    PROVE  Fetched(r) \in Object
<1>1. template[r] = None \/ template[r] \in Specs
  BY TemplateAssumption DEF TypeOK
<1>2. cache[r] \in Object
  BY DEF TypeOK
<1> QED
  BY <1>1, <1>2, NameAssumption DEF Fetched, Object

-----------------------------------------------------------------------------
(* Type correctness.                                                        *)

(* The initial state is well typed.                                         *)
LEMMA InitType == Init => TypeOK
BY NoObjectType, ProjectTypes DEF Init, TypeOK

(* The steps of a reconciliation keep the types.                            *)
LEMMA ReconcileType == TypeOK /\ Reconcile => TypeOK'
<1> SUFFICES ASSUME TypeOK, Reconcile PROVE TypeOK'
  OBVIOUS
<1>a. /\ obj \in Object /\ orig \in Object /\ project \in Project
      /\ pc # "idle" => cur \in GitRepos
      /\ pc # "idle" => api[cur] \in Object
  BY DEF TypeOK
<1>1. CASE FindProject
  BY <1>1 DEF FindProject, TypeOK, store, informer
<1>2. CASE RefuseProject
  <2>1. [obj EXCEPT !.phase = "failed"] \in Object
    BY <1>a DEF Object
  <2> QED
    BY <1>2, <2>1 DEF RefuseProject, TypeOK, store, informer
<1>3. CASE MissProject
  BY <1>3 DEF MissProject, TypeOK, store, informer
<1>4. CASE Claim
  <2> DEFINE claimed == [api[cur] EXCEPT !.url = TRUE, !.phase = "creating"]
  <2>1. cur \in GitRepos /\ claimed \in Object /\ Write(cur, claimed)
    BY <1>a, <1>4 DEF Claim, Object
  <2> HIDE DEF claimed
  <2>2. /\ api' \in [GitRepos -> Object] /\ project' \in Project
        /\ cacheFresh' \in [GitRepos -> BOOLEAN]
    BY <2>1, WriteType
  <2>3. obj' = claimed /\ pc' = "create"
    BY <1>4 DEF Claim, claimed
  <2> QED
    BY <1>4, <2>1, <2>2, <2>3 DEF Claim, TypeOK
<1>5. CASE ClaimConflicts
  BY <1>5, <1>a, IdleType DEF ClaimConflicts, EndWithError, TypeOK, store
<1>6. CASE CreateProject
  <2>1. NewProject(Owner, FALSE) \in Project
    BY <1>6, <1>a, ProjectTypes DEF Owner, CreateProject
  <2> QED
    BY <1>6, <2>1 DEF CreateProject, TypeOK, store, informer
<1>7. CASE ProjectNameTaken
  <2>1. [obj EXCEPT !.url = FALSE, !.phase = "failed"] \in Object
    BY <1>a DEF Object
  <2> QED
    BY <1>7, <2>1 DEF ProjectNameTaken, RevertClaim, TypeOK, store, informer
<1>8. CASE ManageProject
  <2>1. [obj EXCEPT !.url = TRUE, !.phase = "created"] \in Object
    BY <1>a DEF Object
  <2>2. Managed(project) \in Project
    BY <1>a, ProjectTypes
  <2> QED
    BY <1>8, <2>1, <2>2 DEF ManageProject, TypeOK, store, informer
<1>9. CASE ManagedProjectGone
  BY <1>9 DEF ManagedProjectGone, TypeOK, store, informer
<1>10. CASE RemoveProject
  <2>1. project' \in Project
    BY <1>10, <1>a, ProjectTypes DEF RemoveProject, TypeOK
  <2> QED
    BY <1>10, <2>1 DEF RemoveProject, TypeOK, store, informer
<1>11. CASE RemovedProjectGone
  BY <1>11, <1>a, IdleType DEF RemovedProjectGone, EndWithError, TypeOK, store
<1>12. CASE HandleRepoError
  <2>1. cur \in GitRepos /\ [obj EXCEPT !.phase = "failed"] \in Object
    BY <1>12, <1>a DEF HandleRepoError, Object
  <2>2. WithStatus(api[cur], [obj EXCEPT !.phase = "failed"]) \in Object
    BY <1>12, <1>a, <2>1, ObjectTypes DEF HandleRepoError
  <2>3. /\ api' \in [GitRepos -> Object] /\ project' \in Project
        /\ cacheFresh' \in [GitRepos -> BOOLEAN]
    BY <1>12, <2>1, <2>2, WriteType DEF HandleRepoError, TypeOK
  <2> QED
    BY <1>12, <2>1, <2>3, IdleType DEF HandleRepoError, EndWithError, TypeOK
<1>13. CASE HandleDeletionRefuses
  BY <1>13, <1>a, IdleType DEF HandleDeletionRefuses, EndWithError, TypeOK, store
<1>14. CASE UpdateObject
  <2> DEFINE o == WithFinalizer(WithDeletionProtection(obj))
             new == WithSpecAndMeta(api[cur], o)
             changed == WithSpecAndMeta(orig, o) # orig
  <2>1. cur \in GitRepos /\ o \in Object /\ new \in Object
    BY <1>14, <1>a, ObjectTypes DEF UpdateObject
  <2>2. template' = template /\ cache' = cache
    BY <1>14 DEF UpdateObject
  <2>3. \/ /\ obj' = o /\ pc' = "status"
           /\ UNCHANGED <<api, project, cacheFresh, queue, cur, orig, objFresh,
                          policy, handle>>
        \/ /\ Write(cur, new)
           /\ obj' = o /\ pc' = "status"
           /\ objFresh' = (api'[cur] = api[cur])
           /\ UNCHANGED <<queue, cur, orig, policy, handle>>
        \/ /\ EndOk \/ EndWithError
           /\ UNCHANGED <<api, project, cacheFresh>>
    BY <1>14 DEF UpdateObject
  <2> HIDE DEF o, new
  <2>4. CASE /\ obj' = o /\ pc' = "status"
             /\ UNCHANGED <<api, project, cacheFresh, queue, cur, orig, objFresh,
                            policy, handle>>
    BY <2>1, <2>2, <2>4 DEF TypeOK
  <2>5. CASE /\ Write(cur, new)
             /\ obj' = o /\ pc' = "status"
             /\ objFresh' = (api'[cur] = api[cur])
             /\ UNCHANGED <<queue, cur, orig, policy, handle>>
    <3>1. /\ api' \in [GitRepos -> Object] /\ project' \in Project
          /\ cacheFresh' \in [GitRepos -> BOOLEAN]
      BY <2>1, <2>5, WriteType
    <3> QED
      BY <2>1, <2>2, <2>5, <3>1 DEF TypeOK
  <2>6. CASE /\ EndOk \/ EndWithError
             /\ UNCHANGED <<api, project, cacheFresh>>
    BY <2>1, <2>2, <2>6, IdleType DEF EndOk, EndWithError, TypeOK
  <2> QED
    BY <2>3, <2>4, <2>5, <2>6
<1>15. CASE UpdateStatus
  <2> DEFINE new == WithStatus(api[cur], obj)
  <2>1. cur \in GitRepos /\ new \in Object
    BY <1>15, <1>a, ObjectTypes DEF UpdateStatus
  <2>2. /\ template' = template /\ cache' = cache
        /\ Write(cur, new) \/ UNCHANGED <<api, project, cacheFresh>>
        /\ EndOk \/ EndWithError
    BY <1>15 DEF UpdateStatus
  <2>3. /\ api' \in [GitRepos -> Object] /\ project' \in Project
        /\ cacheFresh' \in [GitRepos -> BOOLEAN]
    BY <2>1, <2>2, WriteType DEF TypeOK
  <2> QED
    BY <2>1, <2>2, <2>3, IdleType DEF EndOk, EndWithError, TypeOK
<1> QED
  BY <1>1, <1>2, <1>3, <1>4, <1>5, <1>6, <1>7, <1>8, <1>9, <1>10, <1>11, <1>12,
     <1>13, <1>14, <1>15 DEF Reconcile

(* The start of a reconciliation, the informer and the timer.               *)
LEMMA QueueType ==
    ASSUME TypeOK, NEW r \in GitRepos, Start(r) \/ Deliver(r) \/ Resync(r)
    PROVE  TypeOK'
<1>1. CASE Start(r)
  <2>1. Fetched(r) \in Object /\ cache[r] \in Object
    BY FetchedType DEF TypeOK
  <2>2. Fetched(r).spec.deletion \in {"Delete", "Archive", "Retain"}
    BY <2>1, SpecsAssumption DEF Object, RepoSpec
  <2>3. CASE ~cache[r].present
    BY <1>1, <2>3 DEF Start, TypeOK, worker, store
  <2>4. CASE cache[r].present
    BY <1>1, <2>1, <2>2, <2>4 DEF Start, TypeOK, store
  <2> QED
    BY <2>3, <2>4
<1>2. CASE Deliver(r)
  BY <1>2 DEF Deliver, TypeOK, store, worker
<1>3. CASE Resync(r)
  BY <1>3 DEF Resync, TypeOK, store, worker
<1> QED
  BY <1>1, <1>2, <1>3

(* Failures keep the types.                                                 *)
LEMMA FaultType == TypeOK /\ Fault => TypeOK'
<1> SUFFICES ASSUME TypeOK, Fault PROVE TypeOK'
  OBVIOUS
<1>a. /\ obj \in Object /\ project \in Project
      /\ pc # "idle" => cur \in GitRepos
  BY DEF TypeOK
<1>b. [obj EXCEPT !.url = FALSE, !.phase = "failed"] \in Object
  BY <1>a DEF Object
<1>1. CASE CallFails
  BY <1>1, <1>a, IdleType DEF CallFails, EndWithError, TypeOK, store
<1>2. CASE PrepareFails
  BY <1>2 DEF PrepareFails, TypeOK, store, informer
<1>3. CASE CreateFails
  BY <1>3, <1>b DEF CreateFails, RevertClaim, TypeOK, store, informer
<1>4. CASE CreatePartially
  <2>1. NewProject(Owner, FALSE) \in Project
    BY <1>4, <1>a, ProjectTypes DEF Owner, CreatePartially
  <2> QED
    BY <1>4, <1>b, <2>1 DEF CreatePartially, RevertClaim, TypeOK, store, informer
<1>5. CASE ManageFails
  BY <1>5, <1>a, ProjectTypes DEF ManageFails, TypeOK, store, informer
<1>6. CASE StoreErrorFails
  BY <1>6, <1>a, IdleType DEF StoreErrorFails, EndWithError, TypeOK, store
<1>7. CASE Crash
  BY <1>7, IdleType DEF Crash, TypeOK, store
<1> QED
  BY <1>1, <1>2, <1>3, <1>4, <1>5, <1>6, <1>7 DEF Fault

(* Another writer's object keeps the types when it is an object.            *)
LEMMA EditType ==
    ASSUME TypeOK, NEW r \in GitRepos, NEW o \in Object, Edit(r, o)
    PROVE  TypeOK'
<1>1. /\ api' \in [GitRepos -> Object] /\ project' \in Project
      /\ cacheFresh' \in [GitRepos -> BOOLEAN]
  BY WriteType DEF Edit
<1> QED
  BY <1>1 DEF Edit, TypeOK

(* What everyone else does keeps the types.                                 *)
LEMMA EnvironmentType == TypeOK /\ Environment => TypeOK'
<1> SUFFICES ASSUME TypeOK, Environment PROVE TypeOK'
  OBVIOUS
<1>1. CASE ForeignCreate
  <2>1. NewProject(Foreign, NoClaimStored) \in Project
    BY ProjectTypes DEF NoClaimStored
  <2> QED
    BY <1>1, <2>1 DEF ForeignCreate, TypeOK, store, informer, worker
<1>2. CASE ForeignDelete
  BY <1>2, ProjectTypes DEF ForeignDelete, TypeOK, store, informer
<1>3. ASSUME NEW r \in GitRepos,
             \/ CreateObject(r) \/ DeleteObject(r) \/ EditProtection(r)
             \/ EditSpec(r) \/ EditTemplate(r)
      PROVE  TypeOK'
  <2>a. api[r] \in Object
    BY DEF TypeOK
  <2>1. CASE CreateObject(r)
    BY <2>1, NewObjectType, EditType DEF CreateObject
  <2>2. CASE DeleteObject(r)
    <3>1. [api[r] EXCEPT !.deleting = TRUE] \in Object
      BY <2>a DEF Object
    <3> QED
      BY <2>2, <3>1, EditType DEF DeleteObject
  <2>3. CASE EditProtection(r)
    <3>1. \A p \in ProtectionEdits : [api[r] EXCEPT !.protection = p] \in Object
      BY <2>a, OptionAssumption DEF Object
    <3> QED
      BY <2>3, <3>1, EditType DEF EditProtection
  <2>4. CASE EditSpec(r)
    <3>1. \A s \in Specs : [api[r] EXCEPT !.spec = s] \in Object
      BY <2>a DEF Object
    <3> QED
      BY <2>4, <3>1, EditType DEF EditSpec
  <2>5. CASE EditTemplate(r)
    BY <2>5 DEF EditTemplate, TypeOK, informer, worker
  <2> QED
    BY <1>3, <2>1, <2>2, <2>3, <2>4, <2>5
<1> QED
  BY <1>1, <1>2, <1>3 DEF Environment

(* Every step of the system keeps the types.                                *)
LEMMA NextType == TypeOK /\ [Next]_vars => TypeOK'
<1> SUFFICES ASSUME TypeOK, [Next]_vars PROVE TypeOK'
  OBVIOUS
<1>1. CASE Operator
  BY <1>1, ReconcileType, QueueType DEF Operator
<1>2. CASE Fault
  BY <1>2, FaultType
<1>3. CASE Environment
  BY <1>3, EnvironmentType
<1>4. CASE UNCHANGED vars
  BY <1>4 DEF TypeOK, vars, store, informer, worker
<1> QED
  BY <1>1, <1>2, <1>3, <1>4 DEF Next

(* In every behaviour every variable keeps its type.                        *)
THEOREM TypeCorrect == Spec => []TypeOK
<1>1. Init => TypeOK
  BY InitType
<1>2. TypeOK /\ [Next]_vars => TypeOK'
  BY NextType
<1> QED
  BY <1>1, <1>2, PTL DEF Spec

-----------------------------------------------------------------------------
(* Projects of others are left to those that contend for them.              *)

(* The invariant behind it: the worker is about to create, manage or remove *)
(* a project only under a claim, or for a GitRepo that may adopt.           *)
ClaimInv ==
    /\ pc = "create" => obj.url
    /\ pc \in {"manage", "remove"} /\ obj.spec.creation # "Adopt" => obj.url

(* Nobody is at work at the start.                                          *)
LEMMA InitClaim == Init => ClaimInv
BY DEF Init, ClaimInv

(* Only the worker's own steps say where it goes on, and with which object. *)
LEMMA OtherClaim == ClaimInv /\ UNCHANGED <<pc, obj>> => ClaimInv'
BY DEF ClaimInv

(* At the end of a reconciliation the invariant asks for nothing.           *)
LEMMA AwayClaim == pc' \notin {"create", "manage", "remove"} => ClaimInv'
BY DEF ClaimInv

(* Every step of the system keeps the invariant.                            *)
LEMMA NextClaim == TypeOK /\ ClaimInv /\ [Next]_vars => ClaimInv'
<1> SUFFICES ASSUME TypeOK, ClaimInv, [Next]_vars PROVE ClaimInv'
  OBVIOUS
<1>a. /\ obj \in Object
      /\ pc # "idle" => cur \in GitRepos /\ api[cur] \in Object
  BY DEF TypeOK
<1>1. CASE Reconcile
  <2>1. CASE FindProject
    BY <2>1 DEF FindProject, MayManage, ClaimInv
  <2>2. CASE Claim
    <3>1. obj'.url /\ pc' = "create"
      BY <1>a, <2>2 DEF Claim, Object
    <3> QED
      BY <3>1 DEF ClaimInv
  <2>3. CASE CreateProject
    BY <2>3 DEF CreateProject, ClaimInv
  <2>4. CASE RefuseProject \/ MissProject \/ ProjectNameTaken \/ ManageProject
             \/ ManagedProjectGone \/ RemoveProject
    BY <2>4, AwayClaim DEF RefuseProject, MissProject, ProjectNameTaken, RevertClaim,
       ManageProject, ManagedProjectGone, RemoveProject
  <2>5. CASE ClaimConflicts \/ RemovedProjectGone \/ HandleRepoError
             \/ HandleDeletionRefuses \/ UpdateObject \/ UpdateStatus
    BY <2>5, AwayClaim DEF ClaimConflicts, RemovedProjectGone, HandleRepoError,
       HandleDeletionRefuses, UpdateObject, UpdateStatus, EndWithError, EndOk, Idle
  <2> QED
    BY <1>1, <2>1, <2>2, <2>3, <2>4, <2>5 DEF Reconcile
<1>2. CASE \E r \in GitRepos : Start(r) \/ Deliver(r) \/ Resync(r)
  BY <1>2, OtherClaim, AwayClaim DEF Start, Deliver, Resync, worker
<1>3. CASE Fault
  BY <1>3, AwayClaim DEF Fault, CallFails, PrepareFails, CreateFails, CreatePartially,
     RevertClaim, ManageFails, StoreErrorFails, Crash, EndWithError, Idle
<1>4. CASE Environment
  BY <1>4, OtherClaim DEF Environment, ForeignCreate, ForeignDelete, CreateObject,
     DeleteObject, EditProtection, EditSpec, EditTemplate, Edit, worker
<1>5. CASE UNCHANGED vars
  BY <1>5, OtherClaim DEF vars, worker
<1> QED
  BY <1>1, <1>2, <1>3, <1>4, <1>5 DEF Next, Operator

(* What a step makes of the project.                                        *)
ProjectSteps ==
    \/ project' \in {project, NoProject, NewProject(Owner, FALSE),
                     NewProject(Foreign, NoClaimStored), Managed(project),
                     [project EXCEPT !.archived = TRUE]}
    \/ \E r \in GitRepos : project' = Released(project, r)

(* A write to the store changes the project by releasing it, if at all.     *)
LEMMA WriteReleases ==
    ASSUME NEW r, NEW o, Write(r, o)
    PROVE  project' = project \/ project' = Released(project, r)
BY DEF Write

(* Every step does one of these, and a step of the worker that neither      *)
(* creates, manages nor removes can only release the project.               *)
LEMMA NextProject ==
    ASSUME TypeOK, Next
    PROVE  /\ ProjectSteps
           /\ pc' # pc /\ pc \notin {"create", "manage", "remove"} /\ project' # project
               => \E r \in GitRepos : project' = Released(project, r)
<1> USE DEF ProjectSteps
<1>a. pc # "idle" => cur \in GitRepos
  BY DEF TypeOK
<1>1. CASE Reconcile
  <2>1. CASE Claim \/ HandleRepoError \/ UpdateObject \/ UpdateStatus
    <3>1. project' = project \/ \E o : Write(cur, o)
      BY <2>1 DEF Claim, HandleRepoError, UpdateObject, UpdateStatus
    <3>2. cur \in GitRepos
      BY <2>1, <1>a DEF Claim, HandleRepoError, UpdateObject, UpdateStatus
    <3> QED
      BY <3>1, <3>2, WriteReleases
  <2>2. CASE FindProject \/ RefuseProject \/ MissProject \/ ClaimConflicts
    BY <2>2 DEF FindProject, RefuseProject, MissProject, ClaimConflicts
  <2>3. CASE CreateProject \/ ProjectNameTaken
    BY <2>3 DEF CreateProject, ProjectNameTaken
  <2>4. CASE ManageProject \/ ManagedProjectGone
    BY <2>4 DEF ManageProject, ManagedProjectGone
  <2>5. CASE RemoveProject \/ RemovedProjectGone \/ HandleDeletionRefuses
    BY <2>5 DEF RemoveProject, RemovedProjectGone, HandleDeletionRefuses, TypeOK
  <2> QED
    BY <1>1, <2>1, <2>2, <2>3, <2>4, <2>5 DEF Reconcile
<1>2. CASE \E r \in GitRepos : Start(r) \/ Deliver(r) \/ Resync(r)
  BY <1>2 DEF Start, Deliver, Resync
<1>3. CASE Fault
  BY <1>3 DEF Fault, CallFails, PrepareFails, CreateFails, CreatePartially,
              ManageFails, StoreErrorFails, Crash
<1>4. CASE Environment
  <2>1. CASE ForeignCreate \/ ForeignDelete
    BY <2>1 DEF ForeignCreate, ForeignDelete, worker
  <2>2. ASSUME NEW r \in GitRepos,
               \/ CreateObject(r) \/ DeleteObject(r) \/ EditProtection(r)
               \/ EditSpec(r) \/ EditTemplate(r)
        PROVE  /\ project' = project \/ project' = Released(project, r)
               /\ pc' = pc
    <3>1. (\E o : Edit(r, o)) \/ EditTemplate(r)
      BY <2>2 DEF CreateObject, DeleteObject, EditProtection, EditSpec
    <3> QED
      BY <3>1, WriteReleases DEF Edit, EditTemplate, worker
  <2> QED
    BY <1>4, <2>1, <2>2 DEF Environment
<1> QED
  BY <1>1, <1>2, <1>3, <1>4 DEF Next, Operator

(* A write under the name of a contender, or one that claims nothing, makes *)
(* no new claim in the store.                                               *)
LEMMA WriteContends ==
    ASSUME TypeOK, NEW r \in GitRepos, NEW o \in Object, Write(r, o),
           o.url => r \in Contenders
    PROVE  \A q \in GitRepos : api'[q].url => q \in Contenders
<1> DEFINE stored == Settled(o)
<1>1. api' = [api EXCEPT ![r] = stored] /\ (stored.url => o.url)
  BY NoObjectType DEF Write, Settled
<1> HIDE DEF stored
<1> QED
  BY <1>1 DEF TypeOK, Contenders

(* When the worker is done, only store and cache tell who contends.         *)
LEMMA IdleContends ==
    ASSUME Idle,
           \A q \in GitRepos : api'[q].url => q \in Contenders,
           \A q \in GitRepos : cache'[q].url => q \in Contenders
    PROVE  Contenders' \subseteq Contenders
BY NoObjectType DEF Contenders, Idle

(* While there is a project, no step of a reconciliation makes a contender, *)
(* except of a GitRepo that adopts.                                         *)
LEMMA ReconcileContends ==
    ASSUME TypeOK, ClaimInv, project.exists, Reconcile
    PROVE  Contenders' \subseteq Contenders \cup Adopters
<1>a. /\ obj \in Object /\ cache' = cache
      /\ pc # "idle" => cur \in GitRepos /\ api[cur] \in Object
  BY DEF TypeOK, Reconcile, FindProject, RefuseProject, MissProject, Claim,
     ClaimConflicts, CreateProject, ProjectNameTaken, RevertClaim, ManageProject,
     ManagedProjectGone, RemoveProject, RemovedProjectGone, HandleRepoError,
     HandleDeletionRefuses, UpdateObject, UpdateStatus, informer
<1>b. \A q \in GitRepos : (api[q].url \/ cache[q].url) => q \in Contenders
  BY DEF Contenders
<1>c. cur \in GitRepos /\ (obj.url \/ pc = "claim") => cur \in Contenders
  BY DEF Contenders
<1>1. CASE FindProject \/ ManagedProjectGone \/ RemoveProject
  BY <1>1 DEF FindProject, ManagedProjectGone, RemoveProject, Contenders, store, informer
<1>2. CASE RefuseProject \/ ProjectNameTaken
  <2>1. /\ api' = api /\ cur' = cur /\ pc' # "claim"
        /\ obj' = obj \/ obj' = [obj EXCEPT !.phase = "failed"]
             \/ obj' = [obj EXCEPT !.url = FALSE, !.phase = "failed"]
    BY <1>2 DEF RefuseProject, ProjectNameTaken, RevertClaim, store
  <2>2. obj'.url => obj.url
    BY <1>a, <2>1 DEF Object
  <2> QED
    BY <1>a, <2>1, <2>2 DEF Contenders
<1>3. CASE MissProject \/ CreateProject
  BY <1>3 DEF MissProject, CreateProject
<1>4. CASE Claim
  <2> DEFINE claimed == [api[cur] EXCEPT !.url = TRUE, !.phase = "creating"]
  <2>1. cur \in Contenders /\ Write(cur, claimed) /\ cur' = cur
    BY <1>4, <1>a, <1>c DEF Claim
  <2>2. cur \in GitRepos /\ claimed \in Object
    BY <1>4, <1>a DEF Claim, Object, Phases
  <2> HIDE DEF claimed
  <2>3. \A q \in GitRepos : api'[q].url => q \in Contenders
    BY <2>1, <2>2, WriteContends
  <2> QED
    BY <1>a, <1>b, <2>1, <2>3 DEF Contenders
<1>5. CASE ManageProject
  <2>1. cur \in Contenders \cup Adopters
    BY <1>5, <1>a, <1>c DEF ManageProject, ClaimInv, Adopters
  <2> QED
    BY <1>5, <1>a, <2>1 DEF ManageProject, Contenders, store
<1>6. CASE ClaimConflicts \/ RemovedProjectGone \/ HandleDeletionRefuses
  BY <1>6, <1>a, <1>b, IdleContends DEF ClaimConflicts, RemovedProjectGone,
     HandleDeletionRefuses, EndWithError, store
<1>7. CASE HandleRepoError
  <2> DEFINE f == [obj EXCEPT !.phase = "failed"]
             new == WithStatus(api[cur], f)
  <2>1. cur \in GitRepos /\ f \in Object /\ (f.url => obj.url)
    BY <1>7, <1>a DEF HandleRepoError, Object, Phases
  <2>2. new \in Object /\ (new.url => f.url)
    BY <1>7, <1>a, <2>1, ObjectTypes DEF HandleRepoError, WithStatus, Object
  <2>3. Idle /\ (Write(cur, new) \/ api' = api)
    BY <1>7 DEF HandleRepoError, EndWithError
  <2> HIDE DEF f, new
  <2>4. \A q \in GitRepos : api'[q].url => q \in Contenders
    BY <1>b, <1>c, <2>1, <2>2, <2>3, WriteContends
  <2> QED
    BY <1>a, <1>b, <2>3, <2>4, IdleContends
<1>8. CASE UpdateObject
  <2> DEFINE o == WithFinalizer(WithDeletionProtection(obj))
             new == WithSpecAndMeta(api[cur], o)
  <2>1. cur \in GitRepos /\ api[cur] \in Object /\ o \in Object /\ new \in Object
    BY <1>8, <1>a, ObjectTypes DEF UpdateObject
  <2>2. (new.url => api[cur].url) /\ (o.url => obj.url)
    <3>1. WithDeletionProtection(obj) \in Object
          /\ (WithDeletionProtection(obj).url <=> obj.url)
      BY <1>a DEF WithDeletionProtection, Object
    <3> QED
      BY <2>1, <3>1 DEF WithSpecAndMeta, WithStatus, WithFinalizer, Object
  <2>3. /\ Write(cur, new) \/ api' = api
        /\ (obj' = o /\ pc' = "status" /\ cur' = cur) \/ Idle
    BY <1>8 DEF UpdateObject, EndOk, EndWithError
  <2> HIDE DEF o, new
  <2>4. \A q \in GitRepos : api'[q].url => q \in Contenders
    BY <1>b, <2>1, <2>2, <2>3, WriteContends
  <2>5. CASE Idle
    BY <1>a, <1>b, <2>4, <2>5, IdleContends
  <2>6. CASE obj' = o /\ pc' = "status" /\ cur' = cur
    BY <1>a, <1>b, <1>c, <2>2, <2>4, <2>6 DEF Contenders
  <2> QED
    BY <2>3, <2>5, <2>6
<1>9. CASE UpdateStatus
  <2> DEFINE new == WithStatus(api[cur], obj)
  <2>1. cur \in GitRepos /\ new \in Object /\ (new.url => obj.url)
    BY <1>9, <1>a, ObjectTypes DEF UpdateStatus, WithStatus, Object
  <2>2. Idle /\ (Write(cur, new) \/ api' = api)
    BY <1>9 DEF UpdateStatus, EndOk, EndWithError
  <2> HIDE DEF new
  <2>3. \A q \in GitRepos : api'[q].url => q \in Contenders
    BY <1>b, <1>c, <2>1, <2>2, WriteContends
  <2> QED
    BY <1>a, <1>b, <2>2, <2>3, IdleContends
<1> QED
  BY <1>1, <1>2, <1>3, <1>4, <1>5, <1>6, <1>7, <1>8, <1>9 DEF Reconcile

(* Nobody else makes a contender: the status is the operator's.             *)
LEMMA EnvironmentContends ==
    ASSUME TypeOK, Environment
    PROVE  Contenders' \subseteq Contenders
<1>1. CASE ForeignCreate \/ ForeignDelete
  BY <1>1 DEF ForeignCreate, ForeignDelete, Contenders, store, informer, worker
<1>2. ASSUME NEW r \in GitRepos, NEW o \in Object, Edit(r, o), o.url => api[r].url
      PROVE  Contenders' \subseteq Contenders
  <2>1. \A q \in GitRepos : api'[q].url => q \in Contenders
    BY <1>2, WriteContends DEF Edit, Contenders
  <2> QED
    BY <1>2, <2>1 DEF Edit, Contenders
<1>3. ASSUME NEW r \in GitRepos,
             \/ CreateObject(r) \/ DeleteObject(r) \/ EditProtection(r)
             \/ EditSpec(r) \/ EditTemplate(r)
      PROVE  Contenders' \subseteq Contenders
  <2>a. api[r] \in Object
    BY DEF TypeOK
  <2>1. CASE CreateObject(r)
    <3>1. \A s \in Specs : ~NewObject(s).url
      BY DEF NewObject
    <3> QED
      BY <2>1, <3>1, NewObjectType, <1>2 DEF CreateObject
  <2>2. CASE DeleteObject(r)
    <3> DEFINE o == [api[r] EXCEPT !.deleting = TRUE]
    <3>1. o \in Object /\ (o.url <=> api[r].url)
      BY <2>a DEF Object
    <3> QED
      BY <2>2, <3>1, <1>2 DEF DeleteObject
  <2>3. CASE EditProtection(r)
    <3> DEFINE o(p) == [api[r] EXCEPT !.protection = p]
    <3>1. \A p \in ProtectionEdits : o(p) \in Object /\ (o(p).url <=> api[r].url)
      BY <2>a, OptionAssumption DEF Object, Protections
    <3> QED
      BY <2>3, <3>1, <1>2 DEF EditProtection
  <2>4. CASE EditSpec(r)
    <3> DEFINE o(s) == [api[r] EXCEPT !.spec = s]
    <3>1. \A s \in Specs : o(s) \in Object /\ (o(s).url <=> api[r].url)
      BY <2>a DEF Object
    <3> QED
      BY <2>4, <3>1, <1>2 DEF EditSpec
  <2>5. CASE EditTemplate(r)
    BY <2>5 DEF EditTemplate, Contenders, informer, worker
  <2> QED
    BY <1>3, <2>1, <2>2, <2>3, <2>4, <2>5
<1> QED
  BY <1>1, <1>3 DEF Environment

(* While there is a project, nobody begins to contend for it but to adopt.  *)
LEMMA NextContends ==
    ASSUME TypeOK, ClaimInv, project.exists, [Next]_vars
    PROVE  Contenders' \subseteq Contenders \cup Adopters
<1>1. CASE Reconcile
  BY <1>1, ReconcileContends
<1>2. ASSUME NEW r \in GitRepos, Start(r) \/ Deliver(r) \/ Resync(r)
      PROVE  Contenders' \subseteq Contenders
  <2>1. CASE Start(r)
    <3>1. Fetched(r).url <=> cache[r].url
      BY DEF Fetched, TypeOK, Object
    <3>2. CASE ~cache[r].present
      BY <2>1, <3>2 DEF Start, Contenders, worker, store
    <3>3. CASE cache[r].present
      BY <2>1, <3>1, <3>3 DEF Start, Contenders, store
    <3> QED
      BY <3>2, <3>3
  <2>2. CASE Deliver(r)
    BY <2>2 DEF Deliver, Contenders, TypeOK, store, worker
  <2>3. CASE Resync(r)
    BY <2>3 DEF Resync, Contenders, store, worker
  <2> QED
    BY <1>2, <2>1, <2>2, <2>3
<1>3. CASE Fault
  <2>1. CASE CallFails \/ StoreErrorFails \/ Crash
    BY <2>1, IdleContends DEF CallFails, StoreErrorFails, Crash, EndWithError, store,
       Contenders
  <2>2. CASE PrepareFails \/ ManageFails
    BY <2>2 DEF PrepareFails, ManageFails, Contenders, store, informer
  <2>3. CASE CreateFails \/ CreatePartially
    <3>1. obj \in Object
      BY DEF TypeOK
    <3>2. obj' = [obj EXCEPT !.url = FALSE, !.phase = "failed"] /\ pc' = "repoError"
          /\ UNCHANGED <<api, cache, cur>>
      BY <2>3 DEF CreateFails, CreatePartially, RevertClaim, store, informer
    <3> QED
      BY <3>1, <3>2 DEF Contenders, Object
  <2> QED
    BY <1>3, <2>1, <2>2, <2>3 DEF Fault
<1>4. CASE Environment
  BY <1>4, EnvironmentContends
<1>5. CASE UNCHANGED vars
  BY <1>5 DEF vars, store, informer, worker, Contenders
<1> QED
  BY <1>1, <1>2, <1>3, <1>4, <1>5 DEF Next, Operator

(* What one step may do to a project that someone else made.                *)
LeftToContenders ==
    project.exists /\ project.owner = Foreign
    => /\ Contenders' \subseteq Contenders \cup Adopters
       /\ project' # project /\ pc' # pc => cur \in Contenders \cup Adopters

(* Only the steps that manage or remove change a project of others, and     *)
(* they need the claim or the adoption.                                     *)
LEMMA NextLeftToContenders ==
    TypeOK /\ ClaimInv /\ [Next]_vars => [LeftToContenders]_vars
<1> SUFFICES ASSUME TypeOK, ClaimInv, Next, project.exists, project.owner = Foreign
             PROVE  /\ Contenders' \subseteq Contenders \cup Adopters
                    /\ project' # project /\ pc' # pc => cur \in Contenders \cup Adopters
  BY DEF LeftToContenders
<1>1. \A r \in GitRepos : Released(project, r) = project
  BY NameAssumption DEF Released
<1>2. project' # project /\ pc' # pc => pc \in {"create", "manage", "remove"}
  BY <1>1, NextProject
<1>3. pc \in {"create", "manage", "remove"} => cur \in Contenders \cup Adopters
  BY DEF ClaimInv, Contenders, Adopters, TypeOK
<1> QED
  BY <1>2, <1>3, NextContends

(* In every behaviour, whatever the specs, caches, crashes and conflicts,   *)
(* the projects of others are left to those whose claim was on its way      *)
(* when they appeared, and to those that may adopt.                         *)
THEOREM ForeignProjectsAreLeft == Spec => ForeignLeftToContenders
<1>1. Init => TypeOK /\ ClaimInv
  BY InitType, InitClaim
<1>2. TypeOK /\ ClaimInv /\ [Next]_vars => (TypeOK /\ ClaimInv)'
  BY NextType, NextClaim
<1>3. TypeOK /\ ClaimInv /\ [Next]_vars => [LeftToContenders]_vars
  BY NextLeftToContenders
<1>4. ForeignLeftToContenders <=> [][LeftToContenders]_vars
  BY PTL DEF ForeignLeftToContenders, LeftToContenders
<1> QED
  BY <1>1, <1>2, <1>3, <1>4, PTL DEF Spec

-----------------------------------------------------------------------------
(* A GitRepo keeps the claim to the project that was created for it.        *)

Owns(r) == project.exists /\ project.owner = r

(* The store holds no object that should be gone, no claim of an object     *)
(* that is, and the cache is what the resourceVersion says.                 *)
StoreInv ==
    \A r \in GitRepos :
        /\ Settled(api[r]) = api[r]
        /\ api[r].url => api[r].present
        /\ cacheFresh[r] => cache[r] = api[r]

(* The worker creates only what its GitRepo does not own, and an object in  *)
(* its hands that can still be written drops the stored claim only when the *)
(* creation has failed.                                                     *)
HandInv ==
    /\ pc # "idle" => obj.present
    /\ pc \in {"claim", "create"} => ~Owns(cur)
    /\ pc # "idle" /\ objFresh =>
           /\ api[cur].present
           /\ api[cur].url => obj.url \/ (pc = "repoError" /\ ~Owns(cur))

OwnedInv == OwnedStaysClaimed /\ StoreInv /\ HandInv

(* There is nothing to own at the start.                                    *)
LEMMA InitOwned == Init => OwnedInv
BY NoObjectType, NoObjectSettled DEF Init, OwnedInv, OwnedStaysClaimed, StoreInv,
   HandInv, NoProject

(* A write that does not drop the claim of an owner keeps what is said of   *)
(* the store.                                                               *)
LEMMA WriteOwned ==
    ASSUME TypeOK, OwnedInv, NEW r \in GitRepos, NEW o \in Object, Write(r, o),
           cache' = cache, o.present, Owns(r) /\ api[r].url => o.url
    PROVE  OwnedStaysClaimed' /\ StoreInv'
<1> DEFINE stored == Settled(o)
<1>1. /\ stored \in Object /\ Settled(stored) = stored
      /\ stored.present => stored = o
      /\ stored.url => stored.present
  BY NoObjectType, NoObjectSettled DEF Settled
<1>2. /\ api' = [api EXCEPT ![r] = stored]
      /\ cacheFresh' = [cacheFresh EXCEPT ![r] = @ /\ stored = api[r]]
      /\ project' = IF stored.present THEN project ELSE Released(project, r)
  BY DEF Write
<1> HIDE DEF stored
<1>3. ASSUME NEW q \in GitRepos
      PROVE  /\ Settled(api'[q]) = api'[q]
             /\ api'[q].url => api'[q].present
             /\ cacheFresh'[q] => cache'[q] = api'[q]
  <2>1. CASE q = r
    BY <1>1, <1>2, <2>1 DEF TypeOK, OwnedInv, StoreInv
  <2>2. CASE q # r
    BY <1>2, <2>2 DEF TypeOK, OwnedInv, StoreInv
  <2> QED
    BY <2>1, <2>2
<1>4. ASSUME NEW q \in GitRepos, project'.exists /\ project'.owner = q
      PROVE  api'[q].url
  <2>1. Owns(q)
    BY <1>2, <1>4, NameAssumption DEF Owns, Released, TypeOK, Project
  <2>2. api[q].url
    BY <2>1 DEF OwnedInv, OwnedStaysClaimed, Owns
  <2>3. CASE q # r
    BY <1>2, <2>2, <2>3 DEF TypeOK
  <2>4. CASE q = r /\ stored.present
    BY <1>1, <1>2, <2>1, <2>2, <2>4 DEF TypeOK
  <2>5. CASE q = r /\ ~stored.present
    BY <1>2, <1>4, <2>1, <2>5, NameAssumption DEF Released, Owns, TypeOK, Project
  <2> QED
    BY <2>3, <2>4, <2>5
<1> QED
  BY <1>3, <1>4 DEF StoreInv, OwnedStaysClaimed

(* A step that leaves store, cache and project alone keeps what is said of  *)
(* them.                                                                    *)
LEMMA QuietOwned ==
    ASSUME OwnedInv, UNCHANGED <<api, cache, cacheFresh, project>>
    PROVE  OwnedStaysClaimed' /\ StoreInv'
BY DEF OwnedInv, OwnedStaysClaimed, StoreInv, Settled, NoObject, NewObject

(* The worker holds nothing at the end of a reconciliation.                 *)
LEMMA IdleHand == Idle => HandInv'
BY DEF Idle, HandInv

(* The steps of a reconciliation keep the invariant.                        *)
LEMMA ReconcileOwned == TypeOK /\ OwnedInv /\ Reconcile => OwnedInv'
<1> SUFFICES ASSUME TypeOK, OwnedInv, Reconcile PROVE OwnedInv'
  OBVIOUS
<1>a. /\ obj \in Object /\ orig \in Object /\ project \in Project
      /\ pc # "idle" => cur \in GitRepos
      /\ pc # "idle" => api[cur] \in Object
  BY DEF TypeOK
<1>1. CASE FindProject
  <2>1. HandInv'
    BY <1>1 DEF FindProject, OwnedInv, HandInv, store
  <2> QED
    BY <1>1, <2>1, QuietOwned DEF FindProject, OwnedInv, store, informer
<1>2. CASE RefuseProject
  <2>1. LET o == [obj EXCEPT !.phase = "failed"]
        IN  o.url = obj.url /\ o.present = obj.present
    BY <1>a DEF Object
  <2>2. HandInv'
    BY <1>2, <2>1 DEF RefuseProject, OwnedInv, HandInv, store
  <2> QED
    BY <1>2, <2>2, QuietOwned DEF RefuseProject, OwnedInv, store, informer
<1>3. CASE MissProject
  <2>1. HandInv'
    BY <1>3 DEF MissProject, OwnedInv, HandInv, Owns, store
  <2> QED
    BY <1>3, <2>1, QuietOwned DEF MissProject, OwnedInv, store, informer
<1>4. CASE Claim
  <2> DEFINE claimed == [api[cur] EXCEPT !.url = TRUE, !.phase = "creating"]
  <2>1. /\ cur \in GitRepos /\ claimed \in Object /\ claimed.url
        /\ claimed.present /\ Write(cur, claimed) /\ cache' = cache
        /\ claimed.deleting = api[cur].deleting
        /\ claimed.finalizer = api[cur].finalizer
    BY <1>a, <1>4 DEF Claim, Object, OwnedInv, HandInv
  <2>2. obj' = claimed /\ pc' = "create" /\ cur' = cur
    BY <1>4 DEF Claim
  <2> HIDE DEF claimed
  <2>3. OwnedStaysClaimed' /\ StoreInv'
    BY <2>1, WriteOwned
  <2>4. Settled(claimed) = claimed
    <3>1. api[cur].present /\ Settled(api[cur]) = api[cur]
      BY <1>4, <2>1 DEF Claim, OwnedInv, HandInv, StoreInv
    <3> QED
      BY <2>1, <3>1, NoObjectType DEF Settled
  <2>5. api'[cur] = claimed /\ project' = project
    BY <2>1, <2>4 DEF Write, TypeOK
  <2>6. HandInv'
    BY <1>4, <2>1, <2>2, <2>5 DEF Claim, OwnedInv, HandInv, Owns
  <2> QED
    BY <2>3, <2>6 DEF OwnedInv
<1>5. CASE ClaimConflicts
  BY <1>5, QuietOwned, IdleHand DEF ClaimConflicts, EndWithError, OwnedInv, store
<1>6. CASE CreateProject
  <2>1. project'.owner = Owner
    BY <1>6 DEF CreateProject, NewProject, NoProject
  <2>2. OwnedStaysClaimed'
    BY <1>6, <2>1, NameAssumption DEF CreateProject, Owner, OwnedStaysClaimed, store
  <2>3. StoreInv'
    BY <1>6 DEF CreateProject, OwnedInv, StoreInv, Settled, NoObject, NewObject,
                store, informer
  <2>4. HandInv'
    BY <1>6 DEF CreateProject, OwnedInv, HandInv, store
  <2> QED
    BY <2>2, <2>3, <2>4 DEF OwnedInv
<1>7. CASE ProjectNameTaken
  <2>1. HandInv'
    BY <1>7, <1>a DEF Object, ProjectNameTaken, RevertClaim, OwnedInv, HandInv, Owns, store
  <2> QED
    BY <1>7, <2>1, QuietOwned DEF ProjectNameTaken, RevertClaim, OwnedInv, store, informer
<1>8. CASE ManageProject
  <2>1. LET o == [obj EXCEPT !.url = TRUE, !.phase = "created"]
        IN  o.url /\ o.present = obj.present
    BY <1>a DEF Object
  <2>2. project'.exists = project.exists /\ project'.owner = project.owner
    BY <1>8, <1>a DEF ManageProject, Managed, Project
  <2>3. OwnedStaysClaimed'
    BY <1>8, <2>2 DEF ManageProject, OwnedInv, OwnedStaysClaimed, store
  <2>4. StoreInv'
    BY <1>8 DEF ManageProject, OwnedInv, StoreInv, Settled, NoObject, NewObject,
                store, informer
  <2>5. HandInv'
    BY <1>8, <2>1 DEF ManageProject, OwnedInv, HandInv, store
  <2> QED
    BY <2>3, <2>4, <2>5 DEF OwnedInv
<1>9. CASE ManagedProjectGone
  <2>1. HandInv'
    BY <1>9 DEF ManagedProjectGone, OwnedInv, HandInv, store
  <2> QED
    BY <1>9, <2>1, QuietOwned DEF ManagedProjectGone, OwnedInv, store, informer
<1>10. CASE RemoveProject
  <2>1. project'.exists => project.exists /\ project'.owner = project.owner
    BY <1>10, <1>a DEF RemoveProject, NoProject, Project, TypeOK
  <2>2. OwnedStaysClaimed'
    BY <1>10, <2>1 DEF RemoveProject, OwnedInv, OwnedStaysClaimed, store
  <2>3. StoreInv'
    BY <1>10 DEF RemoveProject, OwnedInv, StoreInv, Settled, NoObject, NewObject,
                 store, informer
  <2>4. HandInv'
    BY <1>10 DEF RemoveProject, OwnedInv, HandInv, store
  <2> QED
    BY <2>2, <2>3, <2>4 DEF OwnedInv
<1>11. CASE RemovedProjectGone
  BY <1>11, QuietOwned, IdleHand DEF RemovedProjectGone, EndWithError, OwnedInv, store
<1>12. CASE HandleRepoError
  <2> DEFINE new == WithStatus(api[cur], [obj EXCEPT !.phase = "failed"])
  <2>1. cur \in GitRepos /\ [obj EXCEPT !.phase = "failed"] \in Object
    BY <1>12, <1>a DEF HandleRepoError, Object
  <2>2. /\ new \in Object /\ new.url = obj.url
        /\ new.present = api[cur].present
    BY <1>12, <1>a, <2>1, ObjectTypes DEF HandleRepoError, WithStatus, Object
  <2>3. Idle /\ cache' = cache
    BY <1>12 DEF HandleRepoError, EndWithError
  <2>4. CASE objFresh
    <3>1. Write(cur, new)
      BY <1>12, <2>4 DEF HandleRepoError
    <3>2. api[cur].present /\ (Owns(cur) /\ api[cur].url => obj.url)
      BY <1>12, <2>4 DEF HandleRepoError, OwnedInv, HandInv
    <3> QED
      BY <2>1, <2>2, <2>3, <3>1, <3>2, WriteOwned, IdleHand DEF OwnedInv
  <2>5. CASE ~objFresh
    BY <1>12, <2>3, <2>5, QuietOwned, IdleHand DEF HandleRepoError, OwnedInv
  <2> QED
    BY <2>4, <2>5 DEF TypeOK
<1>13. CASE HandleDeletionRefuses
  BY <1>13, QuietOwned, IdleHand DEF HandleDeletionRefuses, EndWithError, OwnedInv, store
<1>14. CASE UpdateObject
  <2> DEFINE o == WithFinalizer(WithDeletionProtection(obj))
             new == WithSpecAndMeta(api[cur], o)
  <2>1. cur \in GitRepos /\ o \in Object /\ new \in Object
    BY <1>14, <1>a, ObjectTypes DEF UpdateObject
  <2>2. /\ new.url = api[cur].url /\ o.url = obj.url
        /\ new.present = obj.present /\ o.present = obj.present
    <3>1. /\ WithDeletionProtection(obj) \in Object
          /\ WithDeletionProtection(obj).url = obj.url
          /\ WithDeletionProtection(obj).present = obj.present
      BY <1>a DEF WithDeletionProtection, Object
    <3> QED
      BY <1>14, <1>a, <2>1, <3>1
         DEF UpdateObject, WithSpecAndMeta, WithStatus, WithFinalizer, Object
  <2>3. cache' = cache /\ cur' \in {cur, None}
    BY <1>14 DEF UpdateObject, EndOk, EndWithError, Idle
  <2>4. \/ /\ obj' = o /\ pc' = "status"
           /\ UNCHANGED <<api, project, cacheFresh, queue, cur, orig, objFresh,
                          policy, handle>>
        \/ /\ objFresh /\ Write(cur, new)
           /\ obj' = o /\ pc' = "status"
           /\ objFresh' = (api'[cur] = api[cur])
           /\ UNCHANGED <<queue, cur, orig, policy, handle>>
        \/ /\ EndOk \/ EndWithError
           /\ UNCHANGED <<api, project, cacheFresh>>
    BY <1>14 DEF UpdateObject
  <2>5. /\ pc = "common" /\ obj.present
        /\ objFresh => api[cur].present /\ (api[cur].url => obj.url)
    BY <1>14 DEF UpdateObject, OwnedInv, HandInv
  <2> HIDE DEF o, new
  <2>6. CASE /\ obj' = o /\ pc' = "status"
             /\ UNCHANGED <<api, project, cacheFresh, queue, cur, orig, objFresh,
                            policy, handle>>
    <3>1. HandInv'
      BY <2>2, <2>5, <2>6 DEF HandInv
    <3> QED
      BY <2>3, <2>6, <3>1, QuietOwned DEF OwnedInv
  <2>7. CASE /\ objFresh /\ Write(cur, new)
             /\ obj' = o /\ pc' = "status"
             /\ objFresh' = (api'[cur] = api[cur])
             /\ UNCHANGED <<queue, cur, orig, policy, handle>>
    <3>1. OwnedStaysClaimed' /\ StoreInv'
      BY <2>1, <2>2, <2>3, <2>5, <2>7, WriteOwned
    <3>2. HandInv'
      BY <2>2, <2>5, <2>7 DEF HandInv
    <3> QED
      BY <3>1, <3>2 DEF OwnedInv
  <2>8. CASE /\ EndOk \/ EndWithError
             /\ UNCHANGED <<api, project, cacheFresh>>
    BY <2>3, <2>8, QuietOwned, IdleHand DEF EndOk, EndWithError, OwnedInv
  <2> QED
    BY <2>4, <2>6, <2>7, <2>8
<1>15. CASE UpdateStatus
  <2> DEFINE new == WithStatus(api[cur], obj)
  <2>1. /\ cur \in GitRepos /\ new \in Object /\ new.url = obj.url
        /\ new.present = api[cur].present
    BY <1>15, <1>a, ObjectTypes DEF UpdateStatus, WithStatus, Object
  <2>2. /\ cache' = cache /\ Idle
        /\ (objFresh /\ Write(cur, new)) \/ UNCHANGED <<api, project, cacheFresh>>
    BY <1>15 DEF UpdateStatus, EndOk, EndWithError
  <2>3. objFresh => api[cur].present /\ (api[cur].url => obj.url)
    BY <1>15 DEF UpdateStatus, OwnedInv, HandInv
  <2> HIDE DEF new
  <2> QED
    BY <2>1, <2>2, <2>3, WriteOwned, QuietOwned, IdleHand DEF OwnedInv
<1> QED
  BY <1>1, <1>2, <1>3, <1>4, <1>5, <1>6, <1>7, <1>8, <1>9, <1>10, <1>11, <1>12,
     <1>13, <1>14, <1>15 DEF Reconcile

(* A reconciliation starts with a copy that is fresh when the cache is.     *)
LEMMA QueueOwned ==
    ASSUME TypeOK, OwnedInv, NEW r \in GitRepos, Start(r) \/ Deliver(r) \/ Resync(r)
    PROVE  OwnedInv'
<1>1. CASE Start(r)
  <2>1. Fetched(r).url = cache[r].url /\ Fetched(r).present = cache[r].present
    BY DEF Fetched, TypeOK, Object
  <2>2. UNCHANGED <<api, cache, cacheFresh, project>>
    BY <1>1 DEF Start, store
  <2>3. CASE ~cache[r].present
    BY <1>1, <2>2, <2>3, QuietOwned DEF Start, OwnedInv, HandInv, Owns, worker
  <2>4. CASE cache[r].present
    <3>1. HandInv'
      BY <1>1, <2>1, <2>2, <2>4 DEF Start, OwnedInv, StoreInv, HandInv
    <3> QED
      BY <2>2, <3>1, QuietOwned DEF OwnedInv
  <2> QED
    BY <2>3, <2>4
<1>2. CASE Deliver(r)
  <2>1. OwnedStaysClaimed' /\ HandInv'
    BY <1>2 DEF Deliver, OwnedInv, OwnedStaysClaimed, HandInv, Owns, store, worker
  <2>2. StoreInv'
    BY <1>2 DEF Deliver, OwnedInv, StoreInv, TypeOK, Settled, NoObject, NewObject, store
  <2> QED
    BY <2>1, <2>2 DEF OwnedInv
<1>3. CASE Resync(r)
  BY <1>3, QuietOwned DEF Resync, OwnedInv, HandInv, Owns, store, worker
<1> QED
  BY <1>1, <1>2, <1>3

(* Failures keep the invariant, as long as a creation that fails creates    *)
(* nothing.                                                                 *)
LEMMA FaultOwned ==
    ASSUME ~PartialCreate, TypeOK, OwnedInv, Fault
    PROVE  OwnedInv'
<1>a. obj \in Object /\ project \in Project
  BY DEF TypeOK
<1>1. CASE CallFails
  BY <1>1, QuietOwned, IdleHand DEF CallFails, EndWithError, OwnedInv, store
<1>2. CASE PrepareFails
  <2>1. HandInv'
    BY <1>2 DEF PrepareFails, OwnedInv, HandInv, store
  <2> QED
    BY <1>2, <2>1, QuietOwned DEF PrepareFails, OwnedInv, store, informer
<1>3. CASE CreateFails
  <2>1. HandInv'
    BY <1>3, <1>a DEF CreateFails, RevertClaim, OwnedInv, HandInv, Owns, Object, store
  <2> QED
    BY <1>3, <2>1, QuietOwned DEF CreateFails, RevertClaim, OwnedInv, store, informer
<1>4. CASE CreatePartially
  BY <1>4 DEF CreatePartially
<1>5. CASE ManageFails
  <2>1. project'.exists = project.exists /\ project'.owner = project.owner
    BY <1>5, <1>a DEF ManageFails, Managed, Project
  <2>2. OwnedStaysClaimed' /\ HandInv'
    BY <1>5, <2>1 DEF ManageFails, OwnedInv, OwnedStaysClaimed, HandInv, store
  <2>3. StoreInv'
    BY <1>5 DEF ManageFails, OwnedInv, StoreInv, Settled, NoObject, NewObject,
                store, informer
  <2> QED
    BY <2>2, <2>3 DEF OwnedInv
<1>6. CASE StoreErrorFails
  BY <1>6, QuietOwned, IdleHand DEF StoreErrorFails, EndWithError, OwnedInv, store
<1>7. CASE Crash
  <2>1. OwnedStaysClaimed'
    BY <1>7 DEF Crash, OwnedInv, OwnedStaysClaimed, store
  <2>2. StoreInv'
    BY <1>7 DEF Crash, OwnedInv, StoreInv, Settled, NoObject, NewObject, store
  <2> QED
    BY <1>7, <2>1, <2>2, IdleHand DEF Crash, OwnedInv
<1> QED
  BY <1>1, <1>2, <1>3, <1>4, <1>5, <1>6, <1>7 DEF Fault

(* Another writer's object, whose status is the stored one, keeps the       *)
(* invariant: the copies of the object are out of date from then on.        *)
LEMMA EditOwned ==
    ASSUME TypeOK, OwnedInv, NEW r \in GitRepos, NEW o \in Object, Edit(r, o),
           o.present, api[r].url => o.url
    PROVE  OwnedInv'
<1>1. OwnedStaysClaimed' /\ StoreInv'
  BY WriteOwned DEF Edit
<1>2. /\ pc' = pc /\ cur' = cur /\ obj' = obj
      /\ objFresh' => objFresh /\ cur # r
  BY DEF Edit
<1>3. \A q \in GitRepos : q # r => api'[q] = api[q]
  BY DEF Edit, Write, TypeOK
<1>4. pc # "idle" => (project'.exists /\ project'.owner = cur => Owns(cur))
  BY NameAssumption DEF Edit, Write, Released, Owns, TypeOK, Project
<1>5. HandInv'
  BY <1>2, <1>3, <1>4 DEF OwnedInv, HandInv, Owns, TypeOK
<1> QED
  BY <1>1, <1>5 DEF OwnedInv

(* What everyone else does keeps the invariant.                             *)
LEMMA EnvironmentOwned == TypeOK /\ OwnedInv /\ Environment => OwnedInv'
<1> SUFFICES ASSUME TypeOK, OwnedInv, Environment PROVE OwnedInv'
  OBVIOUS
<1>1. CASE ForeignCreate
  <2>1. project'.owner = Foreign
    BY <1>1 DEF ForeignCreate, NewProject, NoProject
  <2>2. OwnedStaysClaimed'
    BY <2>1, NameAssumption DEF OwnedStaysClaimed
  <2>3. HandInv'
    BY <1>1, <2>1, NameAssumption
       DEF ForeignCreate, OwnedInv, HandInv, Owns, TypeOK, store, worker
  <2>4. StoreInv'
    BY <1>1 DEF ForeignCreate, OwnedInv, StoreInv, Settled, NoObject, NewObject,
                store, informer
  <2> QED
    BY <2>2, <2>3, <2>4 DEF OwnedInv
<1>2. CASE ForeignDelete
  <2>1. ~project'.exists
    BY <1>2 DEF ForeignDelete, NoProject
  <2>2. OwnedStaysClaimed' /\ HandInv'
    BY <1>2, <2>1 DEF ForeignDelete, OwnedInv, OwnedStaysClaimed, HandInv, Owns, store
  <2>3. StoreInv'
    BY <1>2 DEF ForeignDelete, OwnedInv, StoreInv, Settled, NoObject, NewObject,
                store, informer
  <2> QED
    BY <2>2, <2>3 DEF OwnedInv
<1>3. ASSUME NEW r \in GitRepos,
             \/ CreateObject(r) \/ DeleteObject(r) \/ EditProtection(r)
             \/ EditSpec(r) \/ EditTemplate(r)
      PROVE  OwnedInv'
  <2>a. api[r] \in Object
    BY DEF TypeOK
  <2>1. CASE CreateObject(r)
    <3>1. \A s \in Specs : NewObject(s).present
      BY DEF NewObject
    <3>2. ~api[r].url
      BY <2>1 DEF CreateObject, OwnedInv, StoreInv
    <3> QED
      BY <2>1, <3>1, <3>2, NewObjectType, EditOwned DEF CreateObject
  <2>2. CASE DeleteObject(r)
    <3> DEFINE o == [api[r] EXCEPT !.deleting = TRUE]
    <3>1. o \in Object /\ o.url = api[r].url /\ o.present = api[r].present
      BY <2>a DEF Object
    <3> QED
      BY <2>2, <3>1, EditOwned DEF DeleteObject
  <2>3. CASE EditProtection(r)
    <3> DEFINE o(p) == [api[r] EXCEPT !.protection = p]
    <3>1. \A p \in ProtectionEdits :
              o(p) \in Object /\ o(p).url = api[r].url /\ o(p).present = api[r].present
      BY <2>a, OptionAssumption DEF Object
    <3> QED
      BY <2>3, <3>1, EditOwned DEF EditProtection
  <2>4. CASE EditSpec(r)
    <3> DEFINE o(s) == [api[r] EXCEPT !.spec = s]
    <3>1. \A s \in Specs :
              o(s) \in Object /\ o(s).url = api[r].url /\ o(s).present = api[r].present
      BY <2>a DEF Object
    <3> QED
      BY <2>4, <3>1, EditOwned DEF EditSpec
  <2>5. CASE EditTemplate(r)
    BY <2>5, QuietOwned
       DEF EditTemplate, OwnedInv, HandInv, Owns, informer, worker
  <2> QED
    BY <1>3, <2>1, <2>2, <2>3, <2>4, <2>5
<1> QED
  BY <1>1, <1>2, <1>3 DEF Environment

(* Every step of the system keeps the invariant.                            *)
LEMMA NextOwned ==
    ASSUME ~PartialCreate, TypeOK, OwnedInv, [Next]_vars
    PROVE  OwnedInv'
<1>1. CASE Operator
  BY <1>1, ReconcileOwned, QueueOwned DEF Operator
<1>2. CASE Fault
  BY <1>2, FaultOwned
<1>3. CASE Environment
  BY <1>3, EnvironmentOwned
<1>4. CASE UNCHANGED vars
  BY <1>4, QuietOwned DEF OwnedInv, HandInv, Owns, vars, store, informer, worker
<1> QED
  BY <1>1, <1>2, <1>3, <1>4 DEF Next

(* When a creation that fails creates nothing, a GitRepo never loses its    *)
(* claim to the project that was created for it.                            *)
THEOREM OwnersKeepTheirClaim ==
    ASSUME ~PartialCreate
    PROVE  Spec => []OwnedStaysClaimed
<1>1. Init => TypeOK /\ OwnedInv
  BY InitType, InitOwned
<1>2. TypeOK /\ OwnedInv /\ [Next]_vars => (TypeOK /\ OwnedInv)'
  BY NextType, NextOwned
<1>3. OwnedInv => OwnedStaysClaimed
  BY DEF OwnedInv
<1> QED
  BY <1>1, <1>2, <1>3, PTL DEF Spec
=============================================================================
