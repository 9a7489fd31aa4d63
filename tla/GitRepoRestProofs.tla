------------------------ MODULE GitRepoRestProofs ------------------------
(***************************************************************************)
(* No work is lost in GitRepoLifecycle: a GitRepo that nobody will look at *)
(* again is settled, for every set of GitRepos, specs and templates.       *)
(***************************************************************************)
EXTENDS GitRepoLifecycleProofs

USE DEF Phases, Protections, Steps

-----------------------------------------------------------------------------
(* A copy with the stored resourceVersion is a copy of what is stored.      *)
CopyInv ==
    \A r \in GitRepos :
        /\ Settled(api[r]) = api[r]
        /\ cacheFresh[r] => cache[r] = api[r]

(* The project was managed, or need not be.                                 *)
Done(o) == o.spec.type = "unmanaged" \/ (o.url /\ o.phase = "created")

Prepared(o) == UseDeletionProtection => o.protection # "none"

(* Unless it will be looked at, a GitRepo was left as it should be.         *)
LeftInv ==
    \A r \in GitRepos :
        cur # r /\ r \notin queue /\ cacheFresh[r] /\ cache[r].present
        => /\ ~cache[r].deleting /\ cache[r].finalizer
           /\ Prepared(cache[r]) /\ Done(cache[r])

(* As long as nothing was written, the worker holds what is stored but for  *)
(* its own changes, and as long as nothing will be delivered they are       *)
(* nothing that pipeline.Common would not write.                            *)
WorkInv ==
    /\ pc = "remove" => obj.deleting
    /\ pc = "manage" => ~obj.deleting
    /\ pc \in {"common", "status"} /\ ~obj.deleting => Done(obj)
    /\ cur \notin queue /\ cacheFresh[cur] =>
          /\ objFresh /\ orig = cache[cur] /\ orig.present
          /\ obj.present /\ obj.deleting = orig.deleting
          /\ pc # "status" => /\ obj.finalizer = orig.finalizer
                              /\ obj.protection = orig.protection
          /\ pc = "status" => /\ ~obj.deleting /\ orig.finalizer
                              /\ obj.spec = orig.spec /\ Prepared(orig)

RestInv ==
    /\ CopyInv /\ LeftInv
    /\ pc # "idle" => WorkInv
    /\ pc = "idle" => cur = None

-----------------------------------------------------------------------------
(* A write outdates the cache, unless it changed nothing.                   *)
LEMMA WriteCopy ==
    ASSUME TypeOK, CopyInv, NEW r \in GitRepos, NEW o \in Object, Write(r, o),
           cache' = cache
    PROVE  /\ CopyInv'
           /\ \A q \in GitRepos : cacheFresh'[q] => cacheFresh[q]
           /\ cacheFresh'[r] => api'[r] = api[r] /\ Settled(o) = api[r]
<1>1. Settled(Settled(o)) = Settled(o)
  BY NoObjectSettled DEF Settled
<1>2. /\ api'[r] = Settled(o)
      /\ cacheFresh'[r] = (cacheFresh[r] /\ Settled(o) = api[r])
      /\ \A q \in GitRepos : q # r => api'[q] = api[q] /\ cacheFresh'[q] = cacheFresh[q]
  BY DEF Write, TypeOK
<1> QED
  BY <1>1, <1>2 DEF CopyInv

(* What users and owners store is another version of the object.            *)
LEMMA EditsDiffer ==
    ASSUME TypeOK, NEW r \in GitRepos,
           CreateObject(r) \/ DeleteObject(r) \/ EditProtection(r) \/ EditSpec(r)
    PROVE  \E o \in Object : Edit(r, o) /\ Settled(o) # api[r]
<1>1. /\ [api[r] EXCEPT !.deleting = TRUE] \in Object
      /\ \A p \in ProtectionEdits : [api[r] EXCEPT !.protection = p] \in Object
      /\ \A s \in Specs : [api[r] EXCEPT !.spec = s] \in Object
  <2>1. api[r] \in Object
    BY DEF TypeOK
  <2> QED
    BY <2>1, OptionAssumption DEF Object
<1>2. \A o : Edit(r, o) => o # api[r]
  BY DEF Edit
<1>3. CASE CreateObject(r)
  <2>1. PICK s \in Specs : Edit(r, NewObject(s))
    BY <1>3 DEF CreateObject
  <2>2. NewObject(s) \in Object /\ Settled(NewObject(s)) = NewObject(s)
    BY NewObjectType DEF Settled, NewObject
  <2> QED
    BY <1>2, <2>1, <2>2
<1>4. CASE DeleteObject(r) \/ EditProtection(r) \/ EditSpec(r)
  <2>1. PICK o \in Object : Edit(r, o)
    BY <1>1, <1>4 DEF DeleteObject, EditProtection, EditSpec
  <2>2. api[r].present
    BY <1>4 DEF DeleteObject, EditProtection, EditSpec
  <2> QED
    BY NoObjectType, <1>2, <2>1, <2>2 DEF Settled
<1> QED
  BY <1>3, <1>4

(* Nothing about the other GitRepos changes while the worker goes on.       *)
LEMMA KeepLeft ==
    ASSUME LeftInv, UNCHANGED <<cache, cur, queue>>,
           \A q \in GitRepos : cacheFresh'[q] => cacheFresh[q]
    PROVE  LeftInv'
BY DEF LeftInv

(* A GitRepo whose reconciliation failed will be looked at.                 *)
LEMMA ErrorRest ==
    ASSUME RestInv, EndWithError, cache' = cache, CopyInv',
           \A q \in GitRepos : cacheFresh'[q] => cacheFresh[q]
    PROVE  RestInv'
BY DEF RestInv, LeftInv, EndWithError, Idle

(* One that ended well was written, or is as it should be.                  *)
LEMMA OkRest ==
    ASSUME TypeOK, RestInv, pc # "idle", EndOk, cache' = cache, CopyInv',
           \A q \in GitRepos : cacheFresh'[q] => cacheFresh[q],
           cur \notin queue /\ cacheFresh'[cur] =>
               /\ ~cache[cur].deleting /\ cache[cur].finalizer
               /\ Prepared(cache[cur]) /\ Done(cache[cur])
    PROVE  RestInv'
BY DEF RestInv, LeftInv, EndOk, Idle

(* The steps up to pipeline.Common that neither write nor end.              *)
LEMMA ProjectStepsRest ==
    ASSUME TypeOK, RestInv,
           \/ FindProject \/ RefuseProject \/ MissProject
           \/ CreateProject \/ ProjectNameTaken
           \/ ManageProject \/ ManagedProjectGone \/ RemoveProject
           \/ PrepareFails \/ CreateFails \/ CreatePartially \/ ManageFails
    PROVE  RestInv'
<1> USE DEF store, informer
<1>1. pc # "idle" /\ cur \in GitRepos /\ obj \in Object /\ WorkInv
  BY DEF FindProject, RefuseProject, MissProject, CreateProject, ProjectNameTaken,
         ManageProject, ManagedProjectGone, RemoveProject, PrepareFails, CreateFails,
         CreatePartially, ManageFails, TypeOK, RestInv
<1>2. /\ UNCHANGED <<api, cache, cacheFresh, queue, cur, orig, objFresh>>
      /\ pc' \notin {"idle", "status"} /\ pc # "status"
  BY DEF FindProject, RefuseProject, MissProject, CreateProject, ProjectNameTaken,
         ManageProject, ManagedProjectGone, RemoveProject, PrepareFails, CreateFails,
         CreatePartially, ManageFails, RevertClaim
<1>3. CopyInv' /\ LeftInv'
  BY <1>2, KeepLeft DEF RestInv, CopyInv
<1>4. /\ obj'.present = obj.present /\ obj'.deleting = obj.deleting
      /\ obj'.finalizer = obj.finalizer /\ obj'.protection = obj.protection
  BY <1>1 DEF FindProject, RefuseProject, MissProject, CreateProject, ProjectNameTaken,
         ManageProject, ManagedProjectGone, RemoveProject, PrepareFails, CreateFails,
         CreatePartially, ManageFails, RevertClaim, Object
<1>5. /\ pc' = "remove" => obj'.deleting
      /\ pc' = "manage" => ~obj'.deleting
  BY <1>1, <1>4 DEF FindProject, RefuseProject, MissProject, CreateProject, ProjectNameTaken,
         ManageProject, ManagedProjectGone, RemoveProject, PrepareFails, CreateFails,
         CreatePartially, ManageFails, RevertClaim
<1>6. pc' = "common" /\ ~obj'.deleting => Done(obj')
  <2> SUFFICES ASSUME pc' = "common", ~obj'.deleting PROVE Done(obj')
    OBVIOUS
  <2>1. CASE ManageProject
    BY <1>1, <2>1 DEF ManageProject, Done, Object
  <2> QED
    BY <1>1, <1>4, <2>1 DEF FindProject, RefuseProject, MissProject, CreateProject,
         ProjectNameTaken, ManagedProjectGone, RemoveProject, PrepareFails, CreateFails,
         CreatePartially, ManageFails, RevertClaim, WorkInv
<1>7. WorkInv'
  BY <1>1, <1>2, <1>4, <1>5, <1>6 DEF WorkInv
<1> QED
  BY <1>2, <1>3, <1>7 DEF RestInv

(* The claim: only a write that changes nothing goes unnoticed.             *)
LEMMA ClaimRest ==
    ASSUME TypeOK, RestInv, Claim
    PROVE  RestInv'
<1> DEFINE claimed == [api[cur] EXCEPT !.url = TRUE, !.phase = "creating"]
<1>1. cur \in GitRepos /\ api[cur] \in Object /\ WorkInv
  BY DEF Claim, TypeOK, RestInv
<1>2. /\ Write(cur, claimed) /\ obj' = claimed /\ pc' = "create"
      /\ UNCHANGED <<cache, queue, cur, orig, objFresh>> /\ objFresh
  BY DEF Claim
<1>3. claimed \in Object
  BY <1>1 DEF Object
<1>4. /\ CopyInv' /\ \A q \in GitRepos : cacheFresh'[q] => cacheFresh[q]
  BY <1>1, <1>2, <1>3, WriteCopy DEF RestInv
<1>5. LeftInv'
  BY <1>2, <1>4, KeepLeft DEF RestInv
<1>6. /\ claimed.present = api[cur].present /\ claimed.deleting = api[cur].deleting
      /\ claimed.finalizer = api[cur].finalizer
      /\ claimed.protection = api[cur].protection
  BY <1>1 DEF Object
<1>7. cur \notin queue /\ cacheFresh'[cur] => orig = cache[cur] /\ orig = api[cur]
  BY <1>1, <1>4 DEF WorkInv, RestInv, CopyInv
<1>8. WorkInv'
  BY <1>1, <1>2, <1>4, <1>6, <1>7 DEF WorkInv
<1> QED
  BY <1>2, <1>4, <1>5, <1>8 DEF RestInv

(* updateObject, first half.                                                *)
LEMMA UpdateObjectRest ==
    ASSUME TypeOK, RestInv, UpdateObject
    PROVE  RestInv'
<1> DEFINE o == WithFinalizer(WithDeletionProtection(obj))
           changed == WithSpecAndMeta(orig, o) # orig
<1>1. /\ pc = "common" /\ cur \in GitRepos /\ api[cur] \in Object
      /\ obj \in Object /\ orig \in Object /\ WorkInv
      /\ obj.deleting => ~Protected(obj) /\ obj.finalizer
  BY DEF UpdateObject, TypeOK, RestInv
<1>2. /\ o \in Object /\ WithSpecAndMeta(api[cur], o) \in Object
      /\ WithSpecAndMeta(orig, o) \in Object
  BY <1>1, ObjectTypes
<1>3. /\ o.present = obj.present /\ o.deleting = obj.deleting /\ o.finalizer = ~obj.deleting
      /\ o.spec = obj.spec /\ o.url = obj.url /\ o.phase = obj.phase
      /\ ~o.deleting => Prepared(o)
  BY <1>1 DEF WithFinalizer, WithDeletionProtection, Prepared, Object
<1> HIDE DEF o
<1>4. CASE ~changed
  <2>1. /\ obj' = o /\ pc' = "status"
        /\ UNCHANGED <<api, cache, cacheFresh, queue, cur, orig, objFresh>>
    BY <1>4 DEF UpdateObject, o
  <2>2. /\ orig.deleting = o.deleting /\ orig.finalizer = o.finalizer
        /\ orig.protection = o.protection /\ orig.spec = o.spec
    <3> DEFINE w == [o EXCEPT !.url = orig.url, !.phase = orig.phase]
    <3>1. orig = w
      BY <1>4 DEF WithSpecAndMeta, WithStatus
    <3>2. /\ w.deleting = o.deleting /\ w.finalizer = o.finalizer
          /\ w.protection = o.protection /\ w.spec = o.spec
      BY <1>2 DEF Object
    <3> HIDE DEF w
    <3> QED
      BY <3>1, <3>2
  <2>3. ~o.deleting => Done(o)
    BY <1>1, <1>3 DEF WorkInv, Done
  <2>4. CopyInv' /\ LeftInv'
    BY <2>1, KeepLeft DEF RestInv, CopyInv
  <2>5. cur \notin queue /\ cacheFresh[cur] => ~o.deleting
    BY <1>1, <1>3, <2>2 DEF WorkInv
  <2>6. Prepared(o) => Prepared(orig)
    BY <2>2 DEF Prepared
  <2>7. WorkInv'
    BY <1>1, <1>3, <2>1, <2>2, <2>3, <2>5, <2>6 DEF WorkInv
  <2> QED
    BY <2>1, <2>4, <2>7 DEF RestInv
<1>5. CASE changed /\ objFresh
  <2>1. /\ Write(cur, WithSpecAndMeta(api[cur], o)) /\ obj' = o /\ pc' = "status"
        /\ UNCHANGED <<cache, queue, cur, orig>>
    BY <1>5 DEF UpdateObject, o
  <2>2. /\ CopyInv' /\ \A q \in GitRepos : cacheFresh'[q] => cacheFresh[q]
        /\ cacheFresh'[cur] => Settled(WithSpecAndMeta(api[cur], o)) = api[cur]
    BY <1>1, <1>2, <2>1, WriteCopy DEF RestInv
  <2>3. ~(cur \notin queue /\ cacheFresh'[cur])
    <3> SUFFICES ASSUME cur \notin queue, cacheFresh'[cur] PROVE FALSE
      OBVIOUS
    <3>1. orig = api[cur] /\ api[cur].present
      BY <1>1, <2>2 DEF WorkInv, RestInv, CopyInv
    <3>2. WithSpecAndMeta(api[cur], o) # api[cur]
      BY <1>5, <3>1
    <3> QED
      BY <2>2, <3>1, <3>2, NoObjectType DEF Settled
  <2>4. LeftInv'
    BY <2>1, <2>2, KeepLeft DEF RestInv
  <2>5. ~o.deleting => Done(o)
    BY <1>1, <1>3 DEF WorkInv, Done
  <2>6. WorkInv'
    BY <2>1, <2>3, <2>5 DEF WorkInv
  <2> QED
    BY <2>1, <2>2, <2>4, <2>6 DEF RestInv
<1>6. CASE changed /\ ~objFresh
  <2>1. /\ EndOk \/ EndWithError
        /\ UNCHANGED <<api, cache, cacheFresh>>
    BY <1>6 DEF UpdateObject, o
  <2>2. CopyInv'
    BY <2>1 DEF RestInv, CopyInv
  <2>3. ~(cur \notin queue /\ cacheFresh[cur])
    BY <1>1, <1>6 DEF WorkInv
  <2> QED
    BY <1>1, <2>1, <2>2, <2>3, OkRest, ErrorRest
<1> QED
  BY <1>4, <1>5, <1>6 DEF TypeOK

(* updateObject, second half.                                               *)
LEMMA UpdateStatusRest ==
    ASSUME TypeOK, RestInv, UpdateStatus
    PROVE  RestInv'
<1>1. /\ pc = "status" /\ cur \in GitRepos /\ api[cur] \in Object /\ cache' = cache
      /\ obj \in Object /\ orig \in Object /\ WorkInv
  BY DEF UpdateStatus, TypeOK, RestInv
<1>2. WithStatus(api[cur], obj) \in Object
  BY <1>1, ObjectTypes
<1>3. CASE WithStatus(orig, obj) = orig
  <2>1. EndOk /\ UNCHANGED <<api, cacheFresh>>
    BY <1>3 DEF UpdateStatus
  <2>2. orig.url = obj.url /\ orig.phase = obj.phase
    BY <1>1, <1>3 DEF WithStatus, Object
  <2>3. CopyInv'
    BY <1>1, <2>1 DEF RestInv, CopyInv
  <2>4. cur \notin queue /\ cacheFresh[cur] =>
            /\ ~cache[cur].deleting /\ cache[cur].finalizer
            /\ Prepared(cache[cur]) /\ Done(cache[cur])
    BY <1>1, <2>2 DEF WorkInv, Done
  <2> QED
    BY <1>1, <2>1, <2>3, <2>4, OkRest
<1>4. CASE WithStatus(orig, obj) # orig /\ objFresh
  <2>1. Write(cur, WithStatus(api[cur], obj)) /\ EndOk
    BY <1>4 DEF UpdateStatus
  <2>2. /\ CopyInv' /\ \A q \in GitRepos : cacheFresh'[q] => cacheFresh[q]
        /\ cacheFresh'[cur] => Settled(WithStatus(api[cur], obj)) = api[cur]
    BY <1>1, <1>2, <2>1, WriteCopy DEF RestInv
  <2>3. ~(cur \notin queue /\ cacheFresh'[cur])
    <3> SUFFICES ASSUME cur \notin queue, cacheFresh'[cur] PROVE FALSE
      OBVIOUS
    <3>1. orig = api[cur] /\ api[cur].present
      BY <1>1, <2>2 DEF WorkInv, RestInv, CopyInv
    <3> QED
      BY <1>4, <2>2, <3>1, NoObjectType DEF Settled
  <2> QED
    BY <1>1, <2>1, <2>2, <2>3, OkRest
<1>5. CASE WithStatus(orig, obj) # orig /\ ~objFresh
  <2>1. /\ EndOk \/ EndWithError
        /\ UNCHANGED <<api, cacheFresh>>
    BY <1>5 DEF UpdateStatus
  <2>2. CopyInv'
    BY <1>1, <2>1 DEF RestInv, CopyInv
  <2>3. ~(cur \notin queue /\ cacheFresh[cur])
    BY <1>1, <1>5 DEF WorkInv
  <2> QED
    BY <1>1, <2>1, <2>2, <2>3, OkRest, ErrorRest
<1> QED
  BY <1>3, <1>4, <1>5 DEF TypeOK

(* Reconciliations that fail.                                               *)
LEMMA FailureRest ==
    ASSUME TypeOK, RestInv,
           \/ ClaimConflicts \/ RemovedProjectGone \/ HandleRepoError
           \/ HandleDeletionRefuses \/ CallFails \/ StoreErrorFails
    PROVE  RestInv'
<1>1. CASE HandleRepoError /\ objFresh
  <2> DEFINE o == WithStatus(api[cur], [obj EXCEPT !.phase = "failed"])
  <2>1. Write(cur, o) /\ EndWithError /\ cache' = cache
    BY <1>1 DEF HandleRepoError
  <2>2. /\ cur \in GitRepos /\ api[cur] \in Object /\ obj \in Object
    BY <1>1 DEF HandleRepoError, TypeOK
  <2>3. [obj EXCEPT !.phase = "failed"] \in Object
    BY <2>2 DEF Object
  <2>4. o \in Object
    BY <2>2, <2>3, ObjectTypes
  <2> QED
    BY <2>1, <2>2, <2>4, WriteCopy, ErrorRest DEF RestInv
<1>2. CASE ~(HandleRepoError /\ objFresh)
  <2>1. EndWithError /\ UNCHANGED <<api, cache, cacheFresh>>
    BY <1>2 DEF ClaimConflicts, RemovedProjectGone, HandleRepoError,
                HandleDeletionRefuses, CallFails, StoreErrorFails, store
  <2>2. CopyInv'
    BY <2>1 DEF RestInv, CopyInv
  <2> QED
    BY <2>1, <2>2, ErrorRest
<1> QED
  BY <1>1, <1>2

(* A reconciliation starts with the cached object.                          *)
LEMMA StartRest ==
    ASSUME TypeOK, RestInv, NEW r \in GitRepos, Start(r)
    PROVE  RestInv'
<1>1. /\ cur = None /\ queue' = queue \ {r} /\ UNCHANGED <<api, cache, cacheFresh>>
  BY DEF Start, RestInv, store
<1>2. CopyInv'
  BY <1>1 DEF RestInv, CopyInv
<1>3. CASE ~cache[r].present
  <2>1. UNCHANGED worker
    BY <1>3 DEF Start
  <2> QED
    BY <1>1, <1>2, <1>3, <2>1 DEF worker, RestInv, LeftInv, Start
<1>4. CASE cache[r].present
  <2>1. /\ cur' = r /\ obj' = Fetched(r) /\ orig' = cache[r] /\ objFresh' = cacheFresh[r]
        /\ pc' = IF Fetched(r).spec.type # "unmanaged" THEN "read" ELSE "common"
    BY <1>4 DEF Start
  <2>2. /\ Fetched(r).present = cache[r].present /\ Fetched(r).deleting = cache[r].deleting
        /\ Fetched(r).finalizer = cache[r].finalizer
        /\ Fetched(r).protection = cache[r].protection
    BY DEF Fetched, TypeOK, Object
  <2>3. WorkInv'
    BY <1>1, <1>4, <2>1, <2>2 DEF WorkInv, Done
  <2>4. LeftInv'
    BY <1>1, <2>1, NameAssumption DEF RestInv, LeftInv
  <2> QED
    BY <1>2, <2>1, <2>3, <2>4 DEF RestInv
<1> QED
  BY <1>3, <1>4

(* Users, owners and other tools in GitLab.                                 *)
LEMMA EnvironmentRest ==
    ASSUME TypeOK, RestInv, Environment
    PROVE  RestInv'
<1>1. CASE ForeignCreate \/ ForeignDelete \/ \E r \in GitRepos : EditTemplate(r)
  <2>1. UNCHANGED <<api, cache, cacheFresh, queue, pc, cur, obj, orig, objFresh>>
    BY <1>1 DEF ForeignCreate, ForeignDelete, EditTemplate, store, informer, worker
  <2> QED
    BY <2>1 DEF RestInv, CopyInv, LeftInv, WorkInv
<1>2. ASSUME NEW r \in GitRepos,
             CreateObject(r) \/ DeleteObject(r) \/ EditProtection(r) \/ EditSpec(r)
      PROVE  RestInv'
  <2>1. PICK o \in Object : Edit(r, o) /\ Settled(o) # api[r]
    BY <1>2, EditsDiffer
  <2>2. /\ Write(r, o) /\ objFresh' = (objFresh /\ cur # r)
        /\ UNCHANGED <<cache, queue, pc, cur, obj, orig>>
    BY <2>1 DEF Edit
  <2>3. /\ CopyInv' /\ ~cacheFresh'[r]
        /\ \A q \in GitRepos : cacheFresh'[q] => cacheFresh[q]
    BY <2>1, <2>2, WriteCopy DEF RestInv
  <2>4. LeftInv'
    BY <2>2, <2>3, KeepLeft DEF RestInv
  <2>5. pc # "idle" => WorkInv'
    BY <2>2, <2>3 DEF RestInv, WorkInv, TypeOK
  <2> QED
    BY <2>2, <2>3, <2>4, <2>5 DEF RestInv
<1> QED
  BY <1>1, <1>2 DEF Environment

(* Every step.                                                              *)
LEMMA NextRest ==
    ASSUME TypeOK, RestInv, [Next]_vars
    PROVE  RestInv'
<1>1. CASE Reconcile
  BY <1>1, ProjectStepsRest, ClaimRest, UpdateObjectRest, UpdateStatusRest, FailureRest
  DEF Reconcile
<1>2. ASSUME NEW r \in GitRepos, Start(r)
      PROVE  RestInv'
  BY <1>2, StartRest
<1>3. ASSUME NEW r \in GitRepos, Deliver(r) \/ Resync(r)
      PROVE  RestInv'
  <2>1. /\ queue' = queue \cup {r}
        /\ \A q \in GitRepos : q # r => /\ cache'[q] = cache[q]
                                        /\ cacheFresh'[q] = cacheFresh[q]
        /\ UNCHANGED <<api, pc, cur, obj, orig, objFresh>>
        /\ UNCHANGED <<cache, cacheFresh>> \/ cache'[r] = api[r]
    BY <1>3 DEF Deliver, Resync, TypeOK, store, worker
  <2>2. CopyInv'
    BY <2>1 DEF RestInv, CopyInv
  <2>3. LeftInv'
    BY <2>1 DEF RestInv, LeftInv
  <2>4. pc # "idle" => WorkInv'
    BY <2>1 DEF RestInv, WorkInv, TypeOK
  <2> QED
    BY <2>1, <2>2, <2>3, <2>4 DEF RestInv
<1>4. CASE Fault
  <2>1. CASE Crash
    BY <2>1 DEF Crash, Idle, RestInv, CopyInv, LeftInv, store
  <2> QED
    BY <1>4, <2>1, ProjectStepsRest, FailureRest DEF Fault
<1>5. CASE Environment
  BY <1>5, EnvironmentRest
<1>6. CASE UNCHANGED vars
  BY <1>6 DEF vars, store, informer, worker, RestInv, CopyInv, LeftInv, WorkInv
<1> QED
  BY <1>1, <1>2, <1>3, <1>4, <1>5, <1>6 DEF Next, Operator

(* A GitRepo that nobody will look at before something changes or the timer *)
(* fires is settled: for any number of GitRepos, with templates, outdated   *)
(* caches, swallowed conflicts (updateObject), claims, failures and crashes *)
(* there is always an event or a retry left for what is still to be done.   *)
THEOREM NoWorkIsLost == Spec => []AtRestSettled
<1>1. Init => TypeOK /\ RestInv
  <2>1. Init => RestInv
    BY NoObjectType, NoObjectSettled DEF Init, RestInv, CopyInv, LeftInv
  <2> QED
    BY <2>1, InitType
<1>2. TypeOK /\ RestInv /\ [Next]_vars => (TypeOK /\ RestInv)'
  BY NextType, NextRest
<1>3. RestInv => AtRestSettled
  BY DEF RestInv, CopyInv, LeftInv, AtRestSettled, AtRest, Prepared, Done
<1> QED
  BY <1>1, <1>2, <1>3, PTL DEF Spec
=============================================================================
