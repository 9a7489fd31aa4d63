----------------------- MODULE GitRepoReleaseProofs -----------------------
(***************************************************************************)
(* What becomes of the project of a GitRepo that GitRepoLifecycle lets go, *)
(* for every set of GitRepos, specs and templates.                         *)
(***************************************************************************)
EXTENDS GitRepoLifecycleProofs

-----------------------------------------------------------------------------
(* The project was created for r, or is managed under the claim of r.       *)
Mine(r) == project.exists /\ (project.owner = r \/ (project.managed /\ api[r].url))

(* What the policy of this reconciliation says has been done.               *)
Declared == policy = "Retain" \/ (policy = "Archive" /\ project.archived)

(* When the deletion has come to the finalizer with an object that can      *)
(* still be written, the project has been treated, or is none of its        *)
(* business; what is being deleted is never managed on the way there.       *)
ReleaseInv ==
    /\ pc = "manage" => ~obj.deleting
    /\ pc = "common" /\ obj.deleting /\ objFresh /\ Mine(cur) => Declared

(* There is nothing to release at the start or at the end.                  *)
LEMMA IdleRelease == Idle => ReleaseInv'
BY DEF Idle, ReleaseInv

(* A step within the reconciliation that is on its way to neither.          *)
LEMMA AwayRelease == pc' \notin {"manage", "common"} => ReleaseInv'
BY DEF ReleaseInv

(* The steps of a reconciliation.                                           *)
LEMMA ReconcileRelease ==
    ASSUME TypeOK, OwnedInv, ReleaseInv, Reconcile
    PROVE  ReleaseInv'
<1>a. project \in Project /\ obj \in Object
  BY DEF TypeOK
<1>1. CASE FindProject
  BY <1>1 DEF FindProject, ReleaseInv
<1>2. CASE RefuseProject
  <2>1. CASE obj.deleting /\ objFresh
    <3>1. ~api[cur].url /\ project.owner # cur
      <4>1. ~obj.url /\ pc = "read" /\ cur \in GitRepos /\ project.exists
        BY <1>2 DEF RefuseProject, MayManage, TypeOK
      <4>2. ~api[cur].url
        BY <2>1, <4>1 DEF OwnedInv, HandInv
      <4> QED
        BY <4>1, <4>2 DEF OwnedInv, OwnedStaysClaimed
    <3>2. UNCHANGED <<api, project, cur>>
      BY <1>2 DEF RefuseProject, store
    <3> QED
      BY <1>2, <3>1, <3>2 DEF RefuseProject, ReleaseInv, Mine
  <2>2. CASE ~obj.deleting
    BY <1>2, <2>2 DEF RefuseProject, ReleaseInv
  <2>3. CASE obj.deleting /\ ~objFresh
    BY <1>2, <2>3 DEF RefuseProject, ReleaseInv
  <2> QED
    BY <2>1, <2>2, <2>3
<1>3. CASE MissProject \/ Claim \/ ProjectNameTaken \/ ManagedProjectGone
  BY <1>3, AwayRelease DEF MissProject, Claim, ProjectNameTaken, RevertClaim, ManagedProjectGone
<1>4. CASE CreateProject
  BY <1>4 DEF CreateProject, ReleaseInv
<1>5. CASE ManageProject
  <2>1. ~obj'.deleting /\ pc' = "common"
    BY <1>a, <1>5 DEF ManageProject, ReleaseInv, Object
  <2> QED
    BY <2>1 DEF ReleaseInv
<1>6. CASE RemoveProject
  <2>1. pc' = "common" /\ policy' = policy /\ policy \in {"Delete", "Archive", "Retain"}
    BY <1>6 DEF RemoveProject, TypeOK
  <2>2. CASE policy = "Delete"
    <3>1. ~project'.exists
      BY <1>6, <2>2 DEF RemoveProject, NoProject
    <3> QED
      BY <2>1, <3>1 DEF ReleaseInv, Mine
  <2>3. CASE policy = "Archive"
    <3>1. project'.archived
      BY <1>a, <1>6, <2>3 DEF RemoveProject, Project
    <3> QED
      BY <2>1, <2>3, <3>1 DEF ReleaseInv, Declared
  <2>4. CASE policy = "Retain"
    BY <2>1, <2>4 DEF ReleaseInv, Declared
  <2> QED
    BY <2>1, <2>2, <2>3, <2>4
<1>7. CASE ClaimConflicts \/ RemovedProjectGone \/ HandleRepoError
           \/ HandleDeletionRefuses \/ UpdateStatus
  BY <1>7, IdleRelease DEF ClaimConflicts, RemovedProjectGone, HandleRepoError,
                           HandleDeletionRefuses, UpdateStatus, EndWithError, EndOk
<1>8. CASE UpdateObject
  <2>1. Idle \/ pc' = "status"
    BY <1>8 DEF UpdateObject, EndOk, EndWithError
  <2> QED
    BY <2>1, IdleRelease, AwayRelease
<1> QED
  BY <1>1, <1>2, <1>3, <1>4, <1>5, <1>6, <1>7, <1>8 DEF Reconcile

(* While the worker waits, others can only take the project away, or its    *)
(* object's resourceVersion.                                                *)
LEMMA OthersRelease ==
    ASSUME TypeOK, ReleaseInv, UNCHANGED <<pc, cur, obj, policy>>,
           objFresh' => objFresh,
           pc = "common" /\ objFresh' /\ Mine(cur)' =>
               Mine(cur) /\ project'.archived = project.archived
    PROVE  ReleaseInv'
BY DEF ReleaseInv, Declared, Mine

LEMMA NextRelease ==
    ASSUME TypeOK, OwnedInv, ReleaseInv, [Next]_vars
    PROVE  ReleaseInv'
<1>a. project \in Project
  BY DEF TypeOK
<1>1. CASE UNCHANGED vars
  BY <1>1 DEF vars, store, worker, ReleaseInv, Mine, Declared
<1>2. CASE Reconcile
  BY <1>2, ReconcileRelease
<1>3. ASSUME NEW r \in GitRepos, Start(r) \/ Deliver(r) \/ Resync(r) PROVE ReleaseInv'
  <2>1. CASE UNCHANGED worker
    BY <1>3, <2>1 DEF Start, Deliver, Resync, store, worker, ReleaseInv, Mine, Declared
  <2>2. CASE Start(r) /\ ~UNCHANGED worker
    <3>1. pc' = "read" \/ (pc' = "common" /\ policy' = "Retain")
      BY <2>2 DEF Start
    <3> QED
      BY <3>1 DEF ReleaseInv, Declared
  <2> QED
    BY <1>3, <2>1, <2>2 DEF Deliver, Resync
<1>4. CASE Fault
  <2>1. CASE CallFails \/ StoreErrorFails \/ Crash
    BY <2>1, IdleRelease DEF CallFails, StoreErrorFails, Crash, EndWithError
  <2>2. CASE PrepareFails \/ CreateFails \/ CreatePartially \/ ManageFails
    BY <2>2, AwayRelease DEF PrepareFails, CreateFails, CreatePartially, ManageFails,
                             RevertClaim
  <2> QED
    BY <1>4, <2>1, <2>2 DEF Fault
<1>5. CASE ForeignCreate \/ ForeignDelete
  <2>1. ~Mine(cur)' \/ pc # "common"
    <3>1. project' = NoProject \/ project' = NewProject(Foreign, NoClaimStored)
      BY <1>5 DEF ForeignCreate, ForeignDelete
    <3>2. ~NoProject.exists /\ ~NewProject(Foreign, NoClaimStored).managed
          /\ NewProject(Foreign, NoClaimStored).owner = Foreign
      BY DEF NoProject, NewProject
    <3>3. UNCHANGED <<api, cur>>
      BY <1>5 DEF ForeignCreate, ForeignDelete, store, worker
    <3>4. pc = "common" => cur # Foreign
      BY NameAssumption DEF TypeOK
    <3> QED
      BY <3>1, <3>2, <3>3, <3>4 DEF Mine
  <2> QED
    BY <1>5, <2>1, OthersRelease DEF ForeignCreate, ForeignDelete, worker
<1>6. ASSUME NEW r \in GitRepos, NEW o, Edit(r, o) PROVE ReleaseInv'
  <2>1. UNCHANGED <<pc, cur, obj, policy>> /\ (objFresh' => objFresh /\ cur # r)
    BY <1>6 DEF Edit
  <2>2. project' = project \/ project' = Released(project, r)
    BY <1>6, WriteReleases DEF Edit
  <2>3. pc = "common" /\ objFresh' => cur \in GitRepos /\ api'[cur] = api[cur]
    BY <1>6, <2>1 DEF Edit, Write, TypeOK
  <2>4. /\ project'.exists = project.exists /\ project'.managed = project.managed
        /\ project'.archived = project.archived
        /\ project'.owner \in {project.owner, None}
    BY <1>a, <2>2 DEF Released, Project
  <2>5. pc = "common" /\ objFresh' /\ Mine(cur)' => Mine(cur)
    BY <2>1, <2>3, <2>4, NameAssumption DEF Mine
  <2> QED
    BY <2>1, <2>4, <2>5, OthersRelease
<1>7. ASSUME NEW r \in GitRepos, EditTemplate(r) PROVE ReleaseInv'
  BY <1>7 DEF EditTemplate, worker, ReleaseInv, Mine, Declared
<1>8. CASE Environment
  <2>1. \/ ForeignCreate \/ ForeignDelete
        \/ \E r \in GitRepos : EditTemplate(r) \/ \E o : Edit(r, o)
    BY <1>8 DEF Environment, CreateObject, DeleteObject, EditProtection, EditSpec
  <2> QED
    BY <1>5, <1>6, <1>7, <2>1
<1> QED
  BY <1>1, <1>2, <1>3, <1>4, <1>8 DEF Next, Operator

-----------------------------------------------------------------------------
(* An object that goes when its finalizer does was being deleted.           *)
LEMMA GoesWhenDeleted ==
    ASSUME TypeOK, OwnedInv, Next, pc = "common", pc' = "status",
           NEW r \in GitRepos, api[r].present, ~api'[r].present
    PROVE  r = cur /\ obj.deleting /\ objFresh
<1> DEFINE u == WithFinalizer(WithDeletionProtection(obj))
           o == WithSpecAndMeta(api[cur], u)
<1>a. obj \in Object /\ cur \in GitRepos /\ obj.present /\ api[cur] \in Object
  BY DEF TypeOK, OwnedInv, HandInv
<1>1. UpdateObject
  BY DEF Next, Operator, Reconcile, Fault, Environment, FindProject, RefuseProject,
         MissProject, Claim, ClaimConflicts, CreateProject, ProjectNameTaken, RevertClaim,
         ManageProject, ManagedProjectGone, RemoveProject, RemovedProjectGone,
         HandleRepoError, HandleDeletionRefuses, UpdateStatus, Start, Deliver, Resync,
         CallFails, PrepareFails, CreateFails, CreatePartially, ManageFails,
         StoreErrorFails, Crash, ForeignCreate, ForeignDelete, CreateObject, DeleteObject,
         EditProtection, EditSpec, EditTemplate, Edit, EndWithError, EndOk, Idle, worker
<1>2. objFresh /\ Write(cur, o)
  BY <1>1 DEF UpdateObject, EndOk, EndWithError, Idle
<1>3. /\ u.present /\ u.deleting = obj.deleting /\ u.finalizer = ~obj.deleting
      /\ u \in Object
  <2> DEFINE p == WithDeletionProtection(obj)
  <2>1. p = obj \/ p = [obj EXCEPT !.protection = "true"]
    BY DEF WithDeletionProtection
  <2> HIDE DEF p
  <2>2. p.present /\ p.deleting = obj.deleting /\ p \in Object
    BY <1>a, <2>1 DEF Object, Protections
  <2>3. u = [p EXCEPT !.finalizer = ~p.deleting]
    BY DEF WithFinalizer, p
  <2> QED
    BY <2>2, <2>3 DEF Object
<1> HIDE DEF u
<1>4. o.present /\ o.deleting = obj.deleting /\ o.finalizer = ~obj.deleting
  BY <1>a, <1>3 DEF WithSpecAndMeta, WithStatus, Object
<1>5. api' = [api EXCEPT ![cur] = Settled(o)]
  BY <1>2 DEF Write
<1> HIDE DEF o
<1>6. r = cur /\ ~Settled(o).present
  BY <1>a, <1>5 DEF TypeOK
<1> QED
  BY <1>2, <1>4, <1>6 DEF Settled

(* When a creation that fails creates nothing: whenever a GitRepo goes with *)
(* the finalizer that the operator removes, the project that was created    *)
(* for it, or that it manages under its claim, has been deleted, archived   *)
(* or retained as the deletion policy of this reconciliation says, for any  *)
(* number of GitRepos with one path and whatever users and GitLab do in     *)
(* between (gitlab.go Remove, pipeline/steps.go handleFinalizer).           *)
THEOREM GitReposReleaseAsDeclared ==
    ASSUME ~PartialCreate
    PROVE  Spec => ReleasedAsDeclared
<1>1. Init => TypeOK /\ OwnedInv /\ ReleaseInv
  BY InitType, InitOwned DEF Init, ReleaseInv
<1>2. TypeOK /\ OwnedInv /\ ReleaseInv /\ [Next]_vars => (TypeOK /\ OwnedInv /\ ReleaseInv)'
  BY NextType, NextOwned, NextRelease
<1>3. ASSUME TypeOK, OwnedInv, ReleaseInv, Next, NEW r \in GitRepos,
             pc = "common", pc' = "status", api[r].present, ~api'[r].present,
             project.exists, project.owner = r \/ (project.managed /\ api[r].url)
      PROVE  policy = "Retain" \/ (policy = "Archive" /\ project.archived)
  <2>1. r = cur /\ obj.deleting /\ objFresh
    BY <1>3, GoesWhenDeleted
  <2> QED
    BY <1>3, <2>1 DEF ReleaseInv, Mine, Declared
<1>4. TypeOK /\ OwnedInv /\ ReleaseInv /\ [Next]_vars =>
        [\A r \in GitRepos :
           /\ pc = "common" /\ pc' = "status"
           /\ api[r].present /\ ~api'[r].present
           /\ project.exists
           /\ project.owner = r \/ (project.managed /\ api[r].url)
           => policy = "Retain" \/ (policy = "Archive" /\ project.archived)]_vars
  BY <1>3
<1> QED
  BY <1>1, <1>2, <1>4, PTL DEF Spec, ReleasedAsDeclared
=============================================================================
