---------------------- MODULE GitRepoOwnershipProofs ----------------------
(***************************************************************************)
(* GitRepoLifecycle implements ProjectOwnership, for every set of          *)
(* GitRepos, specs and templates: every step of the operator and of the    *)
(* others is a step that ProjectOwnership allows, or none.                 *)
(***************************************************************************)
EXTENDS GitRepoLifecycleProofs

Claims == {r \in GitRepos : api[r].url}

-----------------------------------------------------------------------------
(* The id in the hands of the worker is that of a project.                  *)

HandleInv == handle => project.exists

(* There is no handle at the start.                                         *)
LEMMA InitHandle == Init => HandleInv
BY DEF Init, HandleInv

(* A step that keeps a project there is, and takes no new handle, keeps the *)
(* invariant; so does the end of a reconciliation.                          *)
LEMMA KeptHandle ==
    ASSUME HandleInv, handle' => handle, project.exists => project'.exists
    PROVE  HandleInv'
BY DEF HandleInv

LEMMA IdleHandle == Idle => HandleInv'
BY DEF Idle, HandleInv

(* Every step keeps what is said of the handle.                             *)
LEMMA NextHandle == TypeOK /\ HandleInv /\ [Next]_vars => HandleInv'
<1> SUFFICES ASSUME TypeOK, HandleInv, [Next]_vars PROVE HandleInv'
  OBVIOUS
<1>a. project \in Project
  BY DEF TypeOK
<1>b. pc # "idle" => cur \in GitRepos
  BY DEF TypeOK
<1>c. ASSUME NEW r, NEW o, Write(r, o)
      PROVE  project.exists => project'.exists
  BY <1>a, <1>c DEF Write, Released, Project
<1>1. CASE UNCHANGED vars
  BY <1>1 DEF vars, worker, HandleInv
<1>2. CASE Reconcile
  <2>1. CASE FindProject
    BY <2>1 DEF FindProject, HandleInv
  <2>2. CASE RefuseProject \/ MissProject \/ ProjectNameTaken \/ ManagedProjectGone
    BY <2>2 DEF RefuseProject, MissProject, ProjectNameTaken, RevertClaim,
                ManagedProjectGone, HandleInv
  <2>3. CASE ClaimConflicts \/ RemovedProjectGone \/ HandleRepoError
             \/ HandleDeletionRefuses \/ UpdateStatus
    BY <2>3, IdleHandle DEF ClaimConflicts, RemovedProjectGone, HandleRepoError,
       HandleDeletionRefuses, UpdateStatus, EndWithError, EndOk
  <2>4. CASE Claim
    BY <2>4, <1>c, KeptHandle DEF Claim
  <2>5. CASE UpdateObject
    BY <2>5, <1>c, KeptHandle, IdleHandle DEF UpdateObject, EndWithError, EndOk
  <2>6. CASE CreateProject
    BY <2>6 DEF CreateProject, HandleInv, NewProject, NoProject
  <2>7. CASE ManageProject
    BY <2>7, <1>a DEF ManageProject, HandleInv, Managed, Project
  <2>8. CASE RemoveProject
    BY <2>8, <1>a DEF RemoveProject, HandleInv, Project, TypeOK
  <2> QED
    BY <1>2, <2>1, <2>2, <2>3, <2>4, <2>5, <2>6, <2>7, <2>8 DEF Reconcile
<1>3. CASE \E r \in GitRepos : Start(r) \/ Deliver(r) \/ Resync(r)
  BY <1>3 DEF Start, Deliver, Resync, worker, HandleInv
<1>4. CASE Fault
  <2>1. CASE CallFails \/ StoreErrorFails \/ Crash
    BY <2>1, IdleHandle DEF CallFails, StoreErrorFails, Crash, EndWithError
  <2>2. CASE PrepareFails \/ CreateFails
    BY <2>2 DEF PrepareFails, CreateFails, RevertClaim, HandleInv
  <2>3. CASE CreatePartially
    BY <2>3 DEF CreatePartially, RevertClaim, HandleInv, NewProject, NoProject
  <2>4. CASE ManageFails
    BY <2>4, <1>a DEF ManageFails, HandleInv, Managed, Project
  <2> QED
    BY <1>4, <2>1, <2>2, <2>3, <2>4 DEF Fault
<1>5. CASE Environment
  <2>1. CASE ForeignCreate
    BY <2>1 DEF ForeignCreate, worker, HandleInv, NewProject, NoProject
  <2>2. CASE ForeignDelete
    BY <2>2 DEF ForeignDelete, HandleInv
  <2>3. ASSUME NEW r \in GitRepos,
               \/ CreateObject(r) \/ DeleteObject(r) \/ EditProtection(r)
               \/ EditSpec(r) \/ EditTemplate(r)
        PROVE  HandleInv'
    <3>1. (\E o : Edit(r, o)) \/ EditTemplate(r)
      BY <2>3 DEF CreateObject, DeleteObject, EditProtection, EditSpec
    <3> QED
      BY <3>1, <1>c, KeptHandle DEF Edit, EditTemplate, worker
  <2> QED
    BY <1>5, <2>1, <2>2, <2>3 DEF Environment
<1> QED
  BY <1>1, <1>2, <1>3, <1>4, <1>5 DEF Next, Operator

-----------------------------------------------------------------------------
(* Steps map to steps.                                                      *)

(* The projects of the two modules are the same.                            *)
LEMMA SameProjects ==
    /\ NoProject = Ownership!Nothing
    /\ \A o, p : NewProject(o, p) = Ownership!Fresh(o, p)
BY DEF NoProject, NewProject, Ownership!Nothing, Ownership!Fresh

(* At the start there is neither project nor claim.                         *)
LEMMA InitRefines == Init => Ownership!Init
BY NoObjectType, SameProjects DEF Init, Ownership!Init, Contenders

(* A step that changes no stored object and no project is a step of nobody. *)
LEMMA TurnRefines == UNCHANGED <<api, project>> => Ownership!Next
BY DEF Ownership!Next

(* A write of a GitRepo makes a claim, withdraws one that owns nothing, is  *)
(* the last of that GitRepo, or is none of this.                            *)
LEMMA WriteRefines ==
    ASSUME TypeOK, StoreInv, OwnedStaysClaimed', NEW r \in GitRepos, NEW o \in Object,
           Write(r, o), o.present
    PROVE  \/ Ownership!Claim(r) \/ Ownership!Withdraw(r) \/ Ownership!Leave(r)
<1> DEFINE stored == Settled(o)
<1>1. /\ api' = [api EXCEPT ![r] = stored]
      /\ project' = IF stored.present THEN project ELSE Released(project, r)
  BY DEF Write
<1>2. ~stored.present => ~stored.url
  BY NoObjectType DEF Settled
<1> HIDE DEF stored
<1>3. Claims' = IF stored.url THEN Claims \cup {r} ELSE Claims \ {r}
  BY <1>1 DEF Claims, TypeOK
<1>4. CASE stored.url
  BY <1>1, <1>2, <1>3, <1>4 DEF Claims, Ownership!Claim
<1>5. CASE stored.present /\ ~stored.url
  <2>1. ~(project.exists /\ project.owner = r)
    BY <1>1, <1>5 DEF OwnedStaysClaimed, TypeOK
  <2> QED
    BY <1>1, <1>3, <1>5, <2>1 DEF Claims, Ownership!Withdraw
<1>6. CASE ~stored.present
  BY <1>1, <1>2, <1>3, <1>6 DEF Claims, Ownership!Leave, Released
<1> QED
  BY <1>4, <1>5, <1>6

(* A write of the worker is a step of the operator.                         *)
LEMMA WorkerWriteRefines ==
    ASSUME TypeOK, StoreInv, OwnedStaysClaimed', NEW o \in Object, cur \in GitRepos,
           Write(cur, o), o.present, pc' # pc
    PROVE  Ownership!Next
BY WriteRefines DEF Ownership!Next, Ownership!Operator

(* What the proofs before this module say of a step and its first state.    *)
Before == TypeOK /\ ClaimInv /\ OwnedInv /\ HandleInv

(* A step of a reconciliation is a step of the operator, or none.           *)
LEMMA ReconcileRefines ==
    ASSUME Before, OwnedStaysClaimed', Reconcile
    PROVE  Ownership!Next
<1> USE DEF Before
<1>a. pc # "idle" => cur \in GitRepos
  BY DEF TypeOK
<1>b. obj \in Object /\ project \in Project
  BY DEF TypeOK
<1>1. CASE FindProject \/ RefuseProject \/ MissProject \/ ClaimConflicts
           \/ ProjectNameTaken \/ ManagedProjectGone \/ RemovedProjectGone
           \/ HandleDeletionRefuses
  BY <1>1, TurnRefines DEF FindProject, RefuseProject, MissProject, ClaimConflicts,
     ProjectNameTaken, RevertClaim, ManagedProjectGone, RemovedProjectGone,
     HandleDeletionRefuses, store
<1>2. CASE Claim
  <2> DEFINE claimed == [api[cur] EXCEPT !.url = TRUE, !.phase = "creating"]
  <2>1. Write(cur, claimed) /\ pc = "claim" /\ pc' = "create" /\ objFresh
    BY <1>2 DEF Claim
  <2>2. api[cur] \in Object /\ api[cur].present
    BY <1>a, <2>1 DEF TypeOK, OwnedInv, HandInv
  <2>3. claimed \in Object /\ claimed.present
    BY <2>2 DEF Object, Phases
  <2> QED
    BY <1>a, <2>1, <2>3, WorkerWriteRefines DEF OwnedInv
<1>3. CASE CreateProject
  <2>1. ~project.exists /\ project' = NewProject(Owner, FALSE) /\ pc = "create"
        /\ pc' # pc /\ api' = api
    BY <1>3 DEF CreateProject, store
  <2>2. Owner \in Claims \cup {None}
    BY <1>a, <2>1 DEF Owner, Claims
  <2>3. Ownership!Make
    BY <2>1, <2>2, SameProjects DEF Ownership!Make, Claims
  <2> QED
    BY <2>1, <2>3 DEF Ownership!Next, Ownership!Operator
<1>4. CASE ManageProject
  <2>1. project' = Managed(project) /\ pc = "manage" /\ pc' # pc /\ api' = api /\ handle
    BY <1>4 DEF ManageProject, store
  <2>2. Ownership!MayTouch
    BY <1>a, <2>1 DEF HandleInv, ClaimInv, Contenders, Adopters, Ownership!MayTouch
  <2>3. Ownership!Manage
    BY <2>1, <2>2 DEF Ownership!Manage, Managed
  <2> QED
    BY <2>1, <2>3 DEF Ownership!Next, Ownership!Operator
<1>5. CASE RemoveProject
  <2>1. pc = "remove" /\ pc' # pc /\ api' = api
    BY <1>5 DEF RemoveProject, store
  <2>2. CASE policy = "Retain"
    <3>1. project' = project
      BY <1>5, <2>2 DEF RemoveProject
    <3> QED
      BY <2>1, <3>1, TurnRefines
  <2>3. policy # "Retain" => Ownership!MayTouch
    BY <1>a, <1>5, <2>1 DEF RemoveProject, ClaimInv, Contenders, Adopters,
       Ownership!MayTouch
  <2>4. CASE policy = "Delete"
    <3>1. project' = NoProject
      BY <1>5, <2>4 DEF RemoveProject
    <3>2. Ownership!Remove
      BY <2>1, <2>3, <2>4, <3>1, SameProjects DEF Ownership!Remove
    <3> QED
      BY <2>1, <3>2 DEF Ownership!Next, Ownership!Operator
  <2>5. CASE policy = "Archive"
    <3>1. project' = [project EXCEPT !.archived = TRUE]
      BY <1>5, <2>5 DEF RemoveProject
    <3>2. Ownership!Archive
      BY <2>1, <2>3, <2>5, <3>1 DEF Ownership!Archive
    <3> QED
      BY <2>1, <3>2 DEF Ownership!Next, Ownership!Operator
  <2> QED
    BY <2>2, <2>4, <2>5 DEF TypeOK
<1>6. CASE HandleRepoError
  <2> DEFINE o == WithStatus(api[cur], [obj EXCEPT !.phase = "failed"])
  <2>1. CASE ~objFresh
    BY <1>6, <2>1, TurnRefines DEF HandleRepoError
  <2>2. CASE objFresh
    <3>1. Write(cur, o) /\ pc = "repoError" /\ pc' = "idle"
      BY <1>6, <2>2 DEF HandleRepoError, EndWithError, Idle
    <3>2. api[cur] \in Object /\ api[cur].present
      BY <1>a, <2>2, <3>1 DEF TypeOK, OwnedInv, HandInv
    <3>3. [obj EXCEPT !.phase = "failed"] \in Object
      BY <1>b DEF Object, Phases
    <3>4. o \in Object
      BY <3>2, <3>3, ObjectTypes
    <3>5. o.present
      BY <3>2 DEF WithStatus, Object
    <3> HIDE DEF o
    <3> QED
      BY <1>a, <3>1, <3>4, <3>5, WorkerWriteRefines DEF OwnedInv
  <2> QED
    BY <2>1, <2>2
<1>7. CASE UpdateObject
  <2> DEFINE o == WithFinalizer(WithDeletionProtection(obj))
             w == WithSpecAndMeta(api[cur], o)
  <2>1. pc = "common"
    BY <1>7 DEF UpdateObject
  <2>2. UNCHANGED <<api, project>> \/ (Write(cur, w) /\ pc' = "status")
    BY <1>7 DEF UpdateObject
  <2>3. o \in Object
    BY <1>b, ObjectTypes
  <2>4. api[cur] \in Object
    BY <1>a, <2>1 DEF TypeOK
  <2>5. w \in Object
    BY <2>3, <2>4, ObjectTypes
  <2>6. o.present
    BY <1>b, <2>1 DEF WithFinalizer, WithDeletionProtection, OwnedInv, HandInv, Object
  <2>7. w.present
    BY <2>3, <2>6 DEF WithSpecAndMeta, WithStatus, Object
  <2> HIDE DEF w
  <2> QED
    BY <1>a, <2>1, <2>2, <2>5, <2>7, TurnRefines, WorkerWriteRefines DEF OwnedInv
<1>8. CASE UpdateStatus
  <2> DEFINE w == WithStatus(api[cur], obj)
  <2>1. pc = "status"
    BY <1>8 DEF UpdateStatus
  <2>2. UNCHANGED <<api, project>> \/ (Write(cur, w) /\ objFresh /\ pc' = "idle")
    BY <1>8 DEF UpdateStatus, EndOk, Idle
  <2>3. api[cur] \in Object
    BY <1>a, <2>1 DEF TypeOK
  <2>4. w \in Object
    BY <1>b, <2>3, ObjectTypes
  <2>5. objFresh => w.present
    BY <2>1, <2>3 DEF OwnedInv, HandInv, WithStatus, Object
  <2> HIDE DEF w
  <2> QED
    BY <1>a, <2>1, <2>2, <2>4, <2>5, TurnRefines, WorkerWriteRefines DEF OwnedInv
<1> QED
  BY <1>1, <1>2, <1>3, <1>4, <1>5, <1>6, <1>7, <1>8 DEF Reconcile

(* Neither queue nor informer touches store or project.                     *)
LEMMA QueueRefines ==
    ASSUME NEW r \in GitRepos, Start(r) \/ Deliver(r) \/ Resync(r)
    PROVE  Ownership!Next
BY TurnRefines DEF Start, Deliver, Resync, store

(* A failure stops the worker; only a project that was made or managed by   *)
(* then is left behind, as ProjectOwnership allows.                         *)
LEMMA FaultRefines ==
    ASSUME Before, Fault
    PROVE  Ownership!Next
<1> USE DEF Before
<1>a. pc # "idle" => cur \in GitRepos
  BY DEF TypeOK
<1>1. CASE CallFails \/ PrepareFails \/ CreateFails \/ StoreErrorFails \/ Crash
  BY <1>1, TurnRefines DEF CallFails, PrepareFails, CreateFails, RevertClaim,
     StoreErrorFails, Crash, store
<1>2. CASE CreatePartially
  <2>1. ~project.exists /\ project' = NewProject(Owner, FALSE) /\ pc = "create"
        /\ pc' # pc /\ api' = api
    BY <1>2 DEF CreatePartially, RevertClaim, store
  <2>2. Owner \in Claims \cup {None}
    BY <1>a, <2>1 DEF Owner, Claims
  <2>3. Ownership!Make
    BY <2>1, <2>2, SameProjects DEF Ownership!Make, Claims
  <2> QED
    BY <2>1, <2>3 DEF Ownership!Next, Ownership!Operator
<1>3. CASE ManageFails
  <2>1. pc = "manage" /\ pc' # pc /\ api' = api
    BY <1>3 DEF ManageFails, store
  <2>2. CASE project' = project
    BY <2>1, <2>2, TurnRefines
  <2>3. CASE handle /\ project' = Managed(project)
    <3>1. Ownership!MayTouch
      BY <1>a, <2>1, <2>3 DEF HandleInv, ClaimInv, Contenders, Adopters,
         Ownership!MayTouch
    <3>2. Ownership!Manage
      BY <2>1, <2>3, <3>1 DEF Ownership!Manage, Managed
    <3> QED
      BY <2>1, <3>2 DEF Ownership!Next, Ownership!Operator
  <2> QED
    BY <1>3, <2>2, <2>3 DEF ManageFails
<1> QED
  BY <1>1, <1>2, <1>3 DEF Fault

(* A write of anyone else makes no claim and withdraws none, unless it is   *)
(* the last of its GitRepo.                                                 *)
LEMMA EditRefines ==
    ASSUME Before, NEW r \in GitRepos, NEW o \in Object, Edit(r, o),
           o.present, o.url = api[r].url
    PROVE  Ownership!Next
<1> USE DEF Before
<1> DEFINE stored == Settled(o)
<1>1. /\ api' = [api EXCEPT ![r] = stored]
      /\ project' = IF stored.present THEN project ELSE Released(project, r)
      /\ UNCHANGED <<pc, cur, obj, policy>>
  BY DEF Edit, Write
<1>2. /\ ~stored.present => ~stored.url
      /\ stored.present => stored.url = api[r].url
  BY NoObjectType DEF Settled
<1> HIDE DEF stored
<1>3. Claims' = IF stored.url THEN Claims \cup {r} ELSE Claims \ {r}
  BY <1>1 DEF Claims, TypeOK
<1>4. CASE stored.present
  <2>1. Claims' = Claims
    BY <1>2, <1>3, <1>4 DEF Claims
  <2> QED
    BY <1>1, <1>4, <2>1 DEF Claims, Ownership!Next
<1>5. CASE ~stored.present
  <2>1. Ownership!Leave(r)
    BY <1>1, <1>2, <1>3, <1>5 DEF Claims, Ownership!Leave, Released
  <2> QED
    BY <1>1, <2>1 DEF Ownership!Next, Ownership!Others, Ownership!hand, Adopters
<1> QED
  BY <1>4, <1>5

(* Users, templates and GitLab do what ProjectOwnership lets others do.     *)
LEMMA EnvironmentRefines ==
    ASSUME Before, Environment
    PROVE  Ownership!Next
<1> USE DEF Before
<1>1. CASE ForeignCreate
  <2>1. ~project.exists /\ project' = NewProject(Foreign, NoClaimStored)
        /\ UNCHANGED <<api, pc, cur, obj, policy>>
    BY <1>1 DEF ForeignCreate, store, worker
  <2>2. NoClaimStored \in BOOLEAN /\ (NoClaimStored => Claims = {})
    BY DEF NoClaimStored, Claims
  <2>3. Ownership!ForeignMake
    BY <2>1, <2>2, SameProjects DEF Ownership!ForeignMake, Claims
  <2> QED
    BY <2>1, <2>3 DEF Ownership!Next, Ownership!Others, Ownership!hand, Adopters
<1>2. CASE ForeignDelete
  <2>1. project' = NoProject /\ UNCHANGED <<api, pc, cur, obj, policy>>
    BY <1>2 DEF ForeignDelete, store
  <2>2. Ownership!ForeignRemove
    BY <2>1, SameProjects DEF Ownership!ForeignRemove
  <2> QED
    BY <2>1, <2>2 DEF Ownership!Next, Ownership!Others, Ownership!hand, Adopters
<1>3. ASSUME NEW r \in GitRepos,
             \/ CreateObject(r) \/ DeleteObject(r) \/ EditProtection(r)
             \/ EditSpec(r) \/ EditTemplate(r)
      PROVE  Ownership!Next
  <2>a. api[r] \in Object /\ (api[r].url => api[r].present)
    BY DEF TypeOK, OwnedInv, StoreInv
  <2>1. CASE CreateObject(r)
    <3>1. PICK s \in Specs : Edit(r, NewObject(s)) /\ ~api[r].present
      BY <2>1 DEF CreateObject
    <3>2. NewObject(s) \in Object /\ NewObject(s).present /\ ~NewObject(s).url
      BY NewObjectType DEF NewObject
    <3>3. NewObject(s).url = api[r].url
      BY <2>a, <3>1 DEF NewObject, Object
    <3> QED
      BY <3>1, <3>2, <3>3, EditRefines
  <2>2. CASE DeleteObject(r)
    <3>1. [api[r] EXCEPT !.deleting = TRUE] \in Object
      BY <2>a DEF Object
    <3> QED
      BY <2>a, <2>2, <3>1, EditRefines DEF DeleteObject, Object
  <2>3. CASE EditProtection(r)
    <3>1. PICK p \in ProtectionEdits : Edit(r, [api[r] EXCEPT !.protection = p])
      BY <2>3 DEF EditProtection
    <3>2. [api[r] EXCEPT !.protection = p] \in Object
      BY <2>a, OptionAssumption DEF Object, Protections
    <3> QED
      BY <2>a, <2>3, <3>1, <3>2, EditRefines DEF EditProtection, Object
  <2>4. CASE EditSpec(r)
    <3>1. PICK s \in Specs : Edit(r, [api[r] EXCEPT !.spec = s])
      BY <2>4 DEF EditSpec
    <3>2. [api[r] EXCEPT !.spec = s] \in Object
      BY <2>a DEF Object
    <3> QED
      BY <2>a, <2>4, <3>1, <3>2, EditRefines DEF EditSpec, Object
  <2>5. CASE EditTemplate(r)
    BY <2>5, TurnRefines DEF EditTemplate
  <2> QED
    BY <1>3, <2>1, <2>2, <2>3, <2>4, <2>5
<1> QED
  BY <1>1, <1>2, <1>3 DEF Environment

(* Every step is one that ProjectOwnership allows, or none.                 *)
LEMMA NextRefines ==
    ASSUME Before, OwnedStaysClaimed', [Next]_vars
    PROVE  [Ownership!Next /\ ~Ownership!LateContender]_(Ownership!vars)
<1>1. CASE Next
  <2>1. Ownership!Next
    BY <1>1, ReconcileRefines, QueueRefines, FaultRefines, EnvironmentRefines
       DEF Next, Operator
  <2>2. ~Ownership!LateContender
    BY NextContends DEF Before, Ownership!LateContender
  <2> QED
    BY <2>1, <2>2
<1>2. CASE UNCHANGED vars
  BY <1>2 DEF vars, store, informer, worker, Ownership!vars, Ownership!hand,
     Contenders, Adopters
<1> QED
  BY <1>1, <1>2

(* When a creation that fails creates nothing, the controller keeps what    *)
(* ProjectOwnership promises, for any GitRepos, specs and templates.        *)
THEOREM ImplementsOwnership ==
    ASSUME ~PartialCreate
    PROVE  Spec => KeepsOwnership
<1>1. Init => Before /\ Ownership!Init
  BY InitType, InitClaim, InitOwned, InitHandle, InitRefines DEF Before
<1>2. Before /\ [Next]_vars => Before'
  BY NextType, NextClaim, NextOwned, NextHandle DEF Before
<1>3. Before /\ Before' /\ [Next]_vars
          => [Ownership!Next /\ ~Ownership!LateContender]_(Ownership!vars)
  BY NextRefines DEF Before, OwnedInv
<1> QED
  BY <1>1, <1>2, <1>3, PTL DEF Spec, KeepsOwnership, Ownership!Spec
=============================================================================
