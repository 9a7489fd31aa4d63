-------------------------- MODULE RepoSyncProofs --------------------------
(***************************************************************************)
(* Theorems about RepoSync for all sets of variables, keys, tokens and     *)
(* files: its type invariant, that a valid token stays in its secret, that *)
(* what others keep in the project stays, and that no work is lost.        *)
(***************************************************************************)
EXTENDS RepoSync, FiniteSetTheorems, TLAPS

-----------------------------------------------------------------------------
(* Facts about the operators.                                               *)

(* What a behaviour touches is a part of everything.                        *)
LEMMA SpecTypes ==
    ASSUME NEW touched \in SUBSET Everything
    PROVE  GitRepoSpec(touched) \subseteq GitRepoSpec(Everything)
BY DEF GitRepoSpec, Everything

(* There is a spec that asks for nothing, so what stands for no object is   *)
(* well typed.                                                              *)
LEMMA NoObjectTypes ==
    /\ NoKeys \in [GenNames -> Keys]
    /\ \A s \in GitRepoSpec(Everything) : NewGitRepo(s) \in GitRepo
    /\ NoGitRepo \in GitRepo /\ NoHand \in Hand /\ EmptyProject \in Project
<1>1. NoKeys \in [GenNames -> Keys]
  BY DEF NoKeys, Keys
<1>2. \A s \in GitRepoSpec(Everything) : NewGitRepo(s) \in GitRepo
  BY <1>1 DEF NewGitRepo, GitRepo, Status
<1>3. [vars |-> {}, gens |-> {}, keys |-> {}, token |-> FALSE,
       files |-> [f \in Files |-> "absent"]] \in GitRepoSpec({})
  BY DEF GitRepoSpec
<1>4. NoGitRepo \in GitRepo
  BY <1>2, <1>3, SpecTypes DEF NoGitRepo
<1>5. NoHand \in Hand
  BY <1>4 DEF NoHand, Hand
<1>6. EmptyProject \in Project
  BY DEF EmptyProject, Project, Contents
<1> QED
  BY <1>1, <1>2, <1>4, <1>5, <1>6

(* The parts of a stored GitRepo.                                           *)
LEMMA GitRepoParts ==
    ASSUME NEW o \in GitRepo
    PROVE  /\ o.spec \in GitRepoSpec(Everything) /\ o.status \in Status
           /\ o.spec.vars \subseteq SpecVars /\ o.spec.gens \subseteq GenNames
           /\ o.spec.keys \subseteq OwnKeys
           /\ o.spec.files \in [Files -> {"absent", "content", "delete"}]
           /\ o.status.applied \subseteq SpecVars /\ o.status.keys \in [GenNames -> Keys]
BY DEF GitRepo, GitRepoSpec, Status

(* Steps of the reconciliation.                                             *)
StepNames == {"generate", "token", "variables", "files", "deployKeys", "status"}

(* A set of steps that is not empty has a first one.                        *)
LEMMA FirstStep ==
    ASSUME NEW S \in SUBSET (1..6), S # {}
    PROVE  \E n \in S : \A m \in S : n <= m
<1>1. CASE 1 \in S
  BY <1>1
<1>2. CASE 1 \notin S /\ 2 \in S
  BY <1>2
<1>3. CASE {1, 2} \cap S = {} /\ 3 \in S
  BY <1>3
<1>4. CASE {1, 2, 3} \cap S = {} /\ 4 \in S
  BY <1>4
<1>5. CASE {1, 2, 3, 4} \cap S = {} /\ 5 \in S
  BY <1>5
<1>6. CASE {1, 2, 3, 4, 5} \cap S = {}
  <2>1. PICK n \in S : n \in 1..6
    OBVIOUS
  <2>2. \A m \in S : m \in 1..6 /\ m \notin {1, 2, 3, 4, 5}
    BY <1>6
  <2>3. \A m \in S : m = 6
    BY <2>2
  <2> QED
    BY <2>1, <2>3
<1> QED
  BY <1>1, <1>2, <1>3, <1>4, <1>5, <1>6

(* There is always a next step: status at the latest.                       *)
LEMMA FromTypes ==
    ASSUME NEW step \in StepNames
    PROVE  From(step) \in StepNames
<1> DEFINE ahead == {n \in 1..Len(Steps) :
                       /\ \E m \in 1..n : Steps[m] = step
                       /\ n = Len(Steps) \/ WorksOn[Steps[n]] \cap focus # {}}
           n == CHOOSE k \in ahead : \A m \in ahead : k <= m
<1>1. /\ Len(Steps) = 6
      /\ Steps[1] = "generate" /\ Steps[2] = "token" /\ Steps[3] = "variables"
      /\ Steps[4] = "files" /\ Steps[5] = "deployKeys" /\ Steps[6] = "status"
  BY DEF Steps
<1>2. ahead \subseteq 1..6 /\ 6 \in ahead
  <2>1. \E m \in 1..6 : Steps[m] = step
    BY <1>1 DEF StepNames
  <2> QED
    BY <1>1, <2>1
<1>3. \E k \in ahead : \A m \in ahead : k <= m
  <2> HIDE DEF ahead
  <2> QED
    BY <1>2, FirstStep
<1>4. n \in ahead
  BY <1>3
<1>5. n \in 1..6
  BY <1>2, <1>4
<1>6. From(step) = Steps[n]
  BY DEF From
<1> HIDE DEF n, ahead
<1>7. n = 1 \/ n = 2 \/ n = 3 \/ n = 4 \/ n = 5 \/ n = 6
  BY <1>5
<1> QED
  BY <1>1, <1>6, <1>7 DEF StepNames

(* What a reconciliation holds, after the updates that the steps make.      *)
LEMMA HandTypes ==
    ASSUME NEW h \in Hand
    PROVE  /\ h.obj \in GitRepo
           /\ h.todo \subseteq SpecVars \cup Titles \cup Files
           /\ h.minted \in Tokens \cup {None} /\ h.value \in Values \cup {None}
           /\ \A x : /\ [h EXCEPT !.todo = h.todo \ {x}] \in Hand
                     /\ [h EXCEPT !.todo = h.todo \ {x}].obj = h.obj
           /\ \A x : /\ [[h EXCEPT !.todo = h.todo \ {x}] EXCEPT !.failed = TRUE] \in Hand
                     /\ [[h EXCEPT !.todo = h.todo \ {x}] EXCEPT !.failed = TRUE].obj = h.obj
           /\ \A S \in SUBSET (SpecVars \cup Titles \cup Files) :
                 [h EXCEPT !.todo = S] \in Hand /\ [h EXCEPT !.todo = S].obj = h.obj
           /\ \A t \in Tokens :
                 [h EXCEPT !.minted = t] \in Hand /\ [h EXCEPT !.minted = t].obj = h.obj
           /\ \A o \in GitRepo :
                 [h EXCEPT !.obj = o] \in Hand /\ [h EXCEPT !.obj = o].obj = o
BY DEF Hand

(* A step of the worker: where it goes and what it holds of the GitRepo.    *)
PCs == {"idle", "generate", "token", "storeToken", "variables", "removeVars",
        "setVars", "files", "commit", "deployKeys", "removeKeys", "addKeys",
        "repoError", "status"}

Holding == pc' \in PCs /\ hand' \in Hand /\ hand'.obj.spec = hand.obj.spec

LEMMA Holdings ==
    ASSUME TypeOK
    PROVE  /\ hand \in Hand /\ hand.obj \in GitRepo /\ obj = hand.obj
           /\ \A x : hand' \in {Done(x), Failed(x)} =>
                        hand' \in Hand /\ hand'.obj = hand.obj
           /\ \A o \in GitRepo : Hold(o) => hand' \in Hand /\ hand'.obj = o
           /\ RepoError => Holding
           /\ \A step \in StepNames, o \in GitRepo :
                 o.spec = hand.obj.spec =>
                    /\ Continue(step, o) => Holding
                    /\ ContinueUnlessFailed(step, o) => Holding
<1>1. hand \in Hand /\ hand.obj \in GitRepo /\ obj = hand.obj
  BY HandTypes DEF TypeOK, obj
<1>2. \A x : hand' \in {Done(x), Failed(x)} => hand' \in Hand /\ hand'.obj = hand.obj
  <2>1. ASSUME NEW x
        PROVE  /\ Done(x) \in Hand /\ Done(x).obj = hand.obj
               /\ Failed(x) \in Hand /\ Failed(x).obj = hand.obj
    BY <1>1 DEF Done, Failed, Hand
  <2> QED
    BY <2>1
<1>3. \A o \in GitRepo : Hold(o) => hand' \in Hand /\ hand'.obj = o
  <2>1. NoHand \in Hand
    BY NoObjectTypes
  <2>2. \A o \in GitRepo :
           [NoHand EXCEPT !.obj = o] \in Hand /\ [NoHand EXCEPT !.obj = o].obj = o
    BY <2>1, HandTypes
  <2> QED
    BY <2>2 DEF Hold
<1>4. RepoError => Holding
  BY <1>1, <1>3 DEF RepoError, Holding, PCs
<1>5. \A step \in StepNames, o \in GitRepo :
         o.spec = hand.obj.spec => (Continue(step, o) => Holding)
  BY <1>3, FromTypes DEF Continue, Holding, PCs, StepNames
<1> QED
  BY <1>1, <1>2, <1>3, <1>4, <1>5 DEF ContinueUnlessFailed

(* What is put into the project.                                            *)
LEMMA ProjectTypes ==
    ASSUME TypeOK
    PROVE  /\ \A v \in SpecVars \cup ForeignVars, x \in Contents :
                 [project EXCEPT !.vars[v] = x] \in Project
           /\ \A ks \in SUBSET DeployKey : [project EXCEPT !.keys = ks] \in Project
           /\ \A ts \in SUBSET Tokens : [project EXCEPT !.tokens = ts] \in Project
           /\ \A f \in Files, x \in {"none", "ours", "foreign"} :
                 [project EXCEPT !.files[f] = x] \in Project
           /\ \A fs \in [Files -> {"none", "ours", "foreign"}] :
                 [project EXCEPT !.files = fs] \in Project
BY DEF TypeOK, Project

(* The deploy keys of a GitRepo.                                            *)
LEMMA LocalKeyTypes ==
    ASSUME NEW o \in GitRepo
    PROVE  LocalKeys(o) \subseteq DeployKey /\ TitlesOf(LocalKeys(o)) \subseteq OwnTitles
BY GitRepoParts DEF LocalKeys, TitlesOf, DeployKey, OwnTitles, Titles, Keys

-----------------------------------------------------------------------------
(* Type correctness.                                                        *)

LEMMA InitType == Init => TypeOK
<1> SUFFICES ASSUME Init PROVE TypeOK
  OBVIOUS
<1>1. gitRepo \in GitRepo
  BY NoObjectTypes, SpecTypes, SyncAssumption DEF Init
<1>2. /\ keySecret \in [GenNames -> Keys] /\ keyCache \in [GenNames -> Keys]
      /\ generated \in Keys /\ drops \in 0..MaxDrops
  BY NoObjectTypes, SyncAssumption DEF Init, Keys
<1>3. /\ project \in Project /\ hand \in Hand /\ focus \in Focuses /\ cache = gitRepo
  BY NoObjectTypes DEF Init
<1> QED
  BY <1>1, <1>2, <1>3 DEF Init, TypeOK

(* The worker ends.                                                         *)
LEMMA IdleType ==
    ASSUME Idle
    PROVE  pc' = "idle" /\ hand' \in Hand /\ objFresh' = FALSE /\ held' = "stale"
BY NoObjectTypes DEF Idle

(* A step that reads no watch and stores no GitRepo.                        *)
LEMMA UnreadType ==
    ASSUME TypeOK, Unread, Holding,
           keySecret' \in [GenNames -> Keys], generated' \in Keys,
           tokenSecret' \in Tokens \cup {None}, tokenFresh' \in BOOLEAN,
           tokenFresh' => tokenCache = tokenSecret',
           held' \in {"absent", "fresh", "stale"}, project' \in Project
    PROVE  TypeOK'
BY DEF TypeOK, Unread, Holding, PCs

(* A step that only works on the project.                                   *)
LEMMA InProjectType ==
    ASSUME TypeOK, InProject, Holding, project' \in Project
    PROVE  TypeOK'
BY UnreadType DEF InProject, TypeOK

(* The start of a reconciliation.                                           *)
LEMMA StartType == TypeOK /\ Start => TypeOK'
<1> SUFFICES ASSUME TypeOK, Start PROVE TypeOK'
  OBVIOUS
<1> DEFINE todo == NoLongerWanted(cache) \cup cache.spec.gens
<1>1. cache \in GitRepo /\ cache.spec.gens \subseteq GenNames
  BY GitRepoParts DEF TypeOK
<1>2. todo \subseteq SpecVars \cup Titles \cup Files
  BY <1>1 DEF NoLongerWanted, Titles, OwnTitles
<1>3. hand' = [NoHand EXCEPT !.obj = cache, !.todo = todo]
  BY DEF Start
<1> HIDE DEF todo
<1>4. hand' \in Hand /\ hand'.obj = cache
  BY <1>1, <1>2, <1>3, NoObjectTypes DEF Hand
<1>5. pc' \in PCs
  BY FromTypes DEF Start, StepNames, PCs
<1>6. objFresh' \in BOOLEAN /\ (objFresh' => hand'.obj.spec = gitRepo.spec)
  BY <1>4 DEF Start, TypeOK
<1> QED
  BY <1>4, <1>5, <1>6 DEF Start, TypeOK, store, PCs

(* ensureGeneratedDeployKeys keeps the types.                               *)
LEMMA GenerateType ==
    ASSUME TypeOK,
           \/ \E g \in GenNames : DropGeneratedKey(g) \/ EnsureGeneratedKey(g)
           \/ GetGitClient
    PROVE  TypeOK'
<1>1. hand \in Hand /\ hand.obj \in GitRepo /\ obj = hand.obj
  BY Holdings
<1>2. ASSUME NEW g \in GenNames, NEW x, NEW k \in Keys
      PROVE  /\ [Done(x) EXCEPT !.obj.status.keys[g] = k] \in Hand
             /\ [Done(x) EXCEPT !.obj.status.keys[g] = k].obj.spec = hand.obj.spec
  BY <1>1 DEF Done, Hand, GitRepo, Status
<1>3. ASSUME NEW g \in GenNames, DropGeneratedKey(g)
      PROVE  TypeOK'
  <2>1. keySecret' \in [GenNames -> Keys]
    BY <1>3 DEF DropGeneratedKey, TypeOK, Keys
  <2>2. hand' \in Hand /\ hand'.obj.spec = hand.obj.spec
    <3>1. hand' = [Done(g) EXCEPT !.obj.status.keys[g] = 0] \/ hand' = Failed(g)
      BY <1>3 DEF DropGeneratedKey
    <3>2. CASE hand' = [Done(g) EXCEPT !.obj.status.keys[g] = 0]
      BY <1>2, <3>2 DEF Keys
    <3>3. CASE hand' = Failed(g)
      BY <3>3, Holdings
    <3> QED
      BY <3>1, <3>2, <3>3
  <2>3. Holding
    BY <1>3, <2>2 DEF DropGeneratedKey, Holding, PCs
  <2> QED
    BY <1>3, <2>1, <2>3, UnreadType DEF DropGeneratedKey, TypeOK
<1>4. ASSUME NEW g \in GenNames, EnsureGeneratedKey(g)
      PROVE  TypeOK'
  <2>1. generated + 1 \in Keys /\ keyCache[g] \in Keys
    BY DEF TypeOK, Keys
  <2>2. keySecret' \in [GenNames -> Keys] /\ generated' \in Keys
    BY <1>4, <2>1 DEF EnsureGeneratedKey, TypeOK
  <2>3. hand' \in Hand /\ hand'.obj.spec = hand.obj.spec
    <3>1. \/ \E k \in Keys : hand' = [Done(g) EXCEPT !.obj.status.keys[g] = k]
          \/ hand' = Failed(g)
      BY <1>4, <2>1 DEF EnsureGeneratedKey
    <3>2. ASSUME NEW k \in Keys, hand' = [Done(g) EXCEPT !.obj.status.keys[g] = k]
          PROVE  hand' \in Hand /\ hand'.obj.spec = hand.obj.spec
      BY <1>2, <3>2
    <3>3. CASE hand' = Failed(g)
      BY <3>3, Holdings
    <3> QED
      BY <3>1, <3>2, <3>3
  <2>4. Holding
    BY <1>4, <2>3 DEF EnsureGeneratedKey, Holding, PCs
  <2> QED
    BY <1>4, <2>2, <2>4, UnreadType DEF EnsureGeneratedKey, TypeOK
<1>5. CASE GetGitClient
  <2>1. Holding
    BY <1>1, <1>5, Holdings DEF GetGitClient, StepNames
  <2> QED
    BY <1>5, <2>1, InProjectType DEF GetGitClient, TypeOK
<1> QED
  BY <1>3, <1>4, <1>5

(* ensureAccessToken keeps the types.                                       *)
LEMMA TokenType == TypeOK /\ (EnsureAccessToken \/ StoreToken) => TypeOK'
<1> SUFFICES ASSUME TypeOK, EnsureAccessToken \/ StoreToken PROVE TypeOK'
  OBVIOUS
<1>1. hand \in Hand /\ hand.obj \in GitRepo /\ obj = hand.obj
  BY Holdings
<1>2. CASE EnsureAccessToken
  <2>1. CASE Continue("variables", obj) /\ UNCHANGED <<project, held>>
    <3>1. Holding
      BY <1>1, <2>1, Holdings DEF StepNames
    <3> QED
      BY <1>2, <2>1, <3>1, UnreadType DEF EnsureAccessToken, TypeOK
  <2>2. ASSUME NEW t \in Tokens,
               project' = [project EXCEPT !.tokens = project.tokens \cup {t}],
               hand' = [hand EXCEPT !.minted = t],
               held' = IF tokenCache = None THEN "absent"
                       ELSE IF tokenFresh THEN "fresh" ELSE "stale",
               pc' = "storeToken"
        PROVE  TypeOK'
    <3>1. project' \in Project
      BY <2>2, ProjectTypes DEF TypeOK, Project
    <3>2. Holding
      BY <1>1, <2>2, HandTypes DEF Holding, PCs
    <3> QED
      BY <1>2, <2>2, <3>1, <3>2, UnreadType DEF EnsureAccessToken, TypeOK
  <2> QED
    BY <1>2, <2>1, <2>2 DEF EnsureAccessToken
<1>3. CASE StoreToken
  <2>1. Holding
    BY <1>1, <1>3, Holdings DEF StoreToken, StepNames
  <2>2. /\ tokenSecret' \in Tokens \cup {None} /\ tokenFresh' \in BOOLEAN
        /\ tokenFresh' => tokenCache = tokenSecret'
    <3>1. CASE tokenSecret' = hand.minted /\ tokenFresh' = FALSE
      BY <1>1, <3>1, HandTypes
    <3>2. CASE UNCHANGED <<tokenSecret, tokenFresh>>
      BY <3>2 DEF TypeOK
    <3> QED
      BY <1>3, <3>1, <3>2 DEF StoreToken
  <2> QED
    BY <1>3, <2>1, <2>2, UnreadType DEF StoreToken, TypeOK
<1> QED
  BY <1>2, <1>3

(* ensureCIVariables keeps the types.                                       *)
LEMMA VariablesType ==
    ASSUME TypeOK,
           \/ EnsureCIVariables \/ ListVariables \/ RecordApplied
           \/ \E v \in SpecVars : RemoveVariable(v) \/ SetVariable(v)
    PROVE  TypeOK'
<1>1. hand \in Hand /\ hand.obj \in GitRepo /\ obj = hand.obj
  BY Holdings
<1>2. obj.spec.vars \subseteq SpecVars /\ obj.status.applied \subseteq SpecVars
  BY <1>1, GitRepoParts
<1>3. CASE EnsureCIVariables
  <2>1. CASE RepoError
    BY <1>3, <2>1, Holdings, InProjectType DEF EnsureCIVariables, TypeOK
  <2>2. CASE ~RepoError
    <3> DEFINE todo == obj.status.applied \ obj.spec.vars
    <3>1. /\ hand' = [hand EXCEPT !.todo = todo, !.value = varCache]
          /\ pc' = "removeVars"
      BY <1>3, <2>2 DEF EnsureCIVariables
    <3>2. todo \subseteq SpecVars \cup Titles \cup Files /\ varCache \in Values \cup {None}
      BY <1>2 DEF TypeOK
    <3> HIDE DEF todo
    <3>3. hand' \in Hand /\ hand'.obj = hand.obj
      BY <1>1, <3>1, <3>2 DEF Hand
    <3>4. Holding
      BY <3>1, <3>3 DEF Holding, PCs
    <3> QED
      BY <1>3, <3>4, InProjectType DEF EnsureCIVariables, TypeOK
  <2> QED
    BY <2>1, <2>2
<1>4. CASE ListVariables
  <2> DEFINE todo == {v \in obj.spec.vars : project.vars[v] # ValueFor(v, hand.value)}
  <2>1. todo \in SUBSET (SpecVars \cup Titles \cup Files)
    BY <1>2
  <2>2. hand' = [hand EXCEPT !.todo = todo] /\ pc' = "setVars"
    BY <1>4 DEF ListVariables
  <2> HIDE DEF todo
  <2>3. Holding
    BY <1>1, <2>1, <2>2, HandTypes DEF Holding, PCs
  <2> QED
    BY <1>4, <2>3, InProjectType DEF ListVariables, TypeOK
<1>5. CASE RecordApplied
  <2> DEFINE o == [obj EXCEPT !.status.applied = obj.spec.vars]
  <2>1. o \in GitRepo /\ o.spec = hand.obj.spec
    BY <1>1, <1>2 DEF GitRepo, Status
  <2>2. ContinueUnlessFailed("files", o)
    BY <1>5 DEF RecordApplied
  <2> HIDE DEF o
  <2>3. Holding
    BY <2>1, <2>2, Holdings DEF StepNames
  <2> QED
    BY <1>5, <2>3, InProjectType DEF RecordApplied, TypeOK
<1>6. ASSUME NEW v \in SpecVars, RemoveVariable(v) \/ SetVariable(v)
      PROVE  TypeOK'
  <2>1. ValueFor(v, hand.value) \in Contents /\ None \in Contents
    BY <1>1, HandTypes DEF ValueFor, Contents
  <2>2. project' \in Project
    BY <1>6, <2>1, ProjectTypes DEF RemoveVariable, SetVariable
  <2>3. Holding
    BY <1>6, Holdings DEF RemoveVariable, SetVariable, Holding, PCs
  <2> QED
    BY <1>6, <2>2, <2>3, InProjectType DEF RemoveVariable, SetVariable
<1> QED
  BY <1>3, <1>4, <1>5, <1>6

(* CommitTemplateFiles keeps the types.                                     *)
LEMMA FilesType == TypeOK /\ (CompareFiles \/ CreateCommit) => TypeOK'
<1> SUFFICES ASSUME TypeOK, CompareFiles \/ CreateCommit PROVE TypeOK'
  OBVIOUS
<1>1. hand \in Hand /\ hand.obj \in GitRepo /\ obj = hand.obj
  BY Holdings
<1>2. Continue("deployKeys", obj) => Holding
  BY <1>1, Holdings DEF StepNames
<1>3. CASE CompareFiles
  <2> DEFINE pending == {f \in Files : IF f \in Listed THEN obj.spec.files[f] = "delete"
                                                       ELSE obj.spec.files[f] = "content"}
  <2>1. pending \in SUBSET (SpecVars \cup Titles \cup Files)
    OBVIOUS
  <2>2. \/ Continue("deployKeys", obj)
        \/ pc' = "commit" /\ hand' = [hand EXCEPT !.todo = pending]
    BY <1>3 DEF CompareFiles
  <2> HIDE DEF pending
  <2>3. Holding
    <3>1. CASE pc' = "commit" /\ hand' = [hand EXCEPT !.todo = pending]
      BY <1>1, <2>1, <3>1, HandTypes DEF Holding, PCs
    <3> QED
      BY <1>2, <2>2, <3>1
  <2> QED
    BY <1>3, <2>3, InProjectType DEF CompareFiles, TypeOK
<1>4. CASE CreateCommit
  <2> DEFINE fs == [f \in Files |-> IF f \notin hand.todo THEN project.files[f]
                                    ELSE IF obj.spec.files[f] = "delete" THEN "none" ELSE "ours"]
  <2>1. fs \in [Files -> {"none", "ours", "foreign"}]
    BY DEF TypeOK, Project
  <2>2. project' = [project EXCEPT !.files = fs] \/ project' = project
    BY <1>4 DEF CreateCommit
  <2> HIDE DEF fs
  <2>3. project' \in Project
    BY <2>1, <2>2, ProjectTypes DEF TypeOK
  <2>4. Holding
    BY <1>2, <1>4, Holdings DEF CreateCommit
  <2> QED
    BY <1>4, <2>3, <2>4, InProjectType DEF CreateCommit
<1> QED
  BY <1>3, <1>4

(* updateDeployKeys keeps the types.                                        *)
LEMMA DeployKeysType ==
    ASSUME TypeOK,
           \/ CompareKeys \/ SetDeployKeys \/ RepoUpdated
           \/ \E t \in Titles : RemoveDeployKeys(t) \/ AddDeployKey(t)
    PROVE  TypeOK'
<1>1. hand \in Hand /\ hand.obj \in GitRepo /\ obj = hand.obj
  BY Holdings
<1>2. LocalKeys(obj) \subseteq DeployKey /\ TitlesOf(LocalKeys(obj)) \subseteq OwnTitles
  BY <1>1, LocalKeyTypes
<1>3. project \in Project /\ project.keys \subseteq DeployKey
  BY DEF TypeOK, Project
<1>4. CASE CompareKeys
  <2>1. PICK remote \in Seen :
           hand' = [hand EXCEPT !.todo  = TitlesOf(remote \ LocalKeys(obj)),
                                !.delta = TitlesOf(LocalKeys(obj) \ remote)]
    BY <1>4 DEF CompareKeys
  <2> DEFINE todo == TitlesOf(remote \ LocalKeys(obj))
             delta == TitlesOf(LocalKeys(obj) \ remote)
  <2>2. todo \subseteq SpecVars \cup Titles \cup Files
    BY <1>3 DEF Seen, TitlesOf, DeployKey
  <2>3. delta \subseteq OwnTitles
    BY <1>2 DEF TitlesOf
  <2>4. hand' = [hand EXCEPT !.todo = todo, !.delta = delta]
    BY <2>1
  <2> HIDE DEF todo, delta
  <2>5. hand' \in Hand /\ hand'.obj = hand.obj
    BY <1>1, <2>2, <2>3, <2>4 DEF Hand
  <2>6. Holding
    BY <1>4, <2>5 DEF CompareKeys, Holding, PCs
  <2> QED
    BY <1>3, <1>4, <2>6, InProjectType DEF CompareKeys
<1>5. CASE SetDeployKeys
  <2>1. hand.delta \subseteq SpecVars \cup Titles \cup Files
    BY <1>1 DEF Hand, Titles
  <2>2. hand' = [hand EXCEPT !.todo = hand.delta, !.delta = {}] /\ pc' = "addKeys"
    BY <1>5 DEF SetDeployKeys
  <2>3. hand' \in Hand /\ hand'.obj = hand.obj
    BY <1>1, <2>1, <2>2 DEF Hand
  <2>4. Holding
    BY <2>2, <2>3 DEF Holding, PCs
  <2> QED
    BY <1>3, <1>5, <2>4, InProjectType DEF SetDeployKeys
<1>6. CASE RepoUpdated
  <2>1. Holding
    BY <1>1, <1>6, Holdings DEF RepoUpdated, StepNames
  <2> QED
    BY <1>3, <1>6, <2>1, InProjectType DEF RepoUpdated
<1>7. ASSUME NEW t \in Titles, RemoveDeployKeys(t) \/ AddDeployKey(t)
      PROVE  TypeOK'
  <2>1. Holding
    BY <1>7, Holdings DEF RemoveDeployKeys, AddDeployKey, Holding, PCs, TypeOK
  <2>2. \E ks \in SUBSET DeployKey : project' = [project EXCEPT !.keys = ks]
    <3>1. CASE RemoveDeployKeys(t)
      BY <1>3, <3>1 DEF RemoveDeployKeys
    <3>2. CASE AddDeployKey(t)
      <4>1. project' = [project EXCEPT !.keys =
                          project.keys \cup {k \in LocalKeys(obj) : k.title = t}]
        BY <3>2 DEF AddDeployKey
      <4> QED
        BY <1>2, <1>3, <4>1
    <3> QED
      BY <1>7, <3>1, <3>2
  <2>3. project' \in Project
    BY <2>2, ProjectTypes
  <2> QED
    BY <1>7, <2>1, <2>3, InProjectType DEF RemoveDeployKeys, AddDeployKey
<1> QED
  BY <1>4, <1>5, <1>6, <1>7

(* The status is stored, or not, and the worker ends.                       *)
LEMMA StatusType == TypeOK /\ (HandleRepoError \/ UpdateStatus) => TypeOK'
<1> SUFFICES ASSUME TypeOK, HandleRepoError \/ UpdateStatus PROVE TypeOK'
  OBVIOUS
<1>1. /\ gitRepo' \in GitRepo /\ cacheFresh' \in BOOLEAN
      /\ cacheFresh' => cache = gitRepo'
  <2>1. CASE UNCHANGED <<gitRepo, cacheFresh>>
    BY <2>1 DEF TypeOK
  <2>2. CASE gitRepo' = [gitRepo EXCEPT !.status = hand.obj.status] /\ cacheFresh' = FALSE
    <3>1. hand.obj.status \in Status
      BY Holdings, GitRepoParts
    <3> QED
      BY <2>2, <3>1 DEF TypeOK, GitRepo
  <2> QED
    BY <2>1, <2>2 DEF HandleRepoError, UpdateStatus, StoreStatus
<1>2. Idle /\ queued' \in BOOLEAN
  BY DEF HandleRepoError, UpdateStatus, EndOk, EndWithError, TypeOK
<1> QED
  BY <1>1, <1>2, IdleType DEF HandleRepoError, UpdateStatus, TypeOK

(* Watch events and the timer.                                              *)
LEMMA WatchesType == TypeOK /\ (Watches \/ Resync) => TypeOK'
<1> SUFFICES ASSUME TypeOK, Watches \/ Resync PROVE TypeOK'
  OBVIOUS
<1>1. CASE DeliverGitRepo
  BY <1>1 DEF DeliverGitRepo, TypeOK, store, worker
<1>2. CASE DeliverTokenSecret
  BY <1>2 DEF DeliverTokenSecret, TypeOK, store, worker
<1>3. CASE DeliverVarSecret
  <2>1. queued' \in BOOLEAN
    BY <1>3 DEF DeliverVarSecret, TypeOK
  <2> QED
    BY <1>3, <2>1 DEF DeliverVarSecret, TypeOK, store, worker
<1>4. ASSUME NEW g \in GenNames, DeliverKeySecret(g) PROVE TypeOK'
  <2>1. keyCache' \in [GenNames -> Keys]
    BY <1>4 DEF DeliverKeySecret, TypeOK
  <2> QED
    BY <1>4, <2>1 DEF DeliverKeySecret, TypeOK, store, worker
<1>5. CASE Resync
  BY <1>5 DEF Resync, TypeOK, store, worker
<1> QED
  BY <1>1, <1>2, <1>3, <1>4, <1>5 DEF Watches

(* Calls that fail, and restarts.                                           *)
LEMMA FaultType == TypeOK /\ Fault => TypeOK'
<1> SUFFICES ASSUME TypeOK, Fault PROVE TypeOK'
  OBVIOUS
<1>1. project \in Project
  BY DEF TypeOK
<1>2. CASE CallFails
  BY <1>2, IdleType DEF CallFails, EndWithError, TypeOK, store
<1>3. CASE StepFails
  <2>1. Holding
    BY <1>3, Holdings DEF StepFails
  <2> QED
    BY <1>3, <2>1, UnreadType DEF StepFails, TypeOK
<1>4. CASE Crash
  BY <1>4, IdleType DEF Crash, TypeOK, store
<1>5. ASSUME NEW x \in hand.todo, LoopFails(x) PROVE TypeOK'
  <2>1. Holding
    BY <1>5, Holdings DEF LoopFails, Holding, PCs
  <2> QED
    BY <1>1, <1>5, <2>1, InProjectType DEF LoopFails
<1>6. ASSUME NEW t \in hand.todo, DeleteKeyFails(t) PROVE TypeOK'
  <2>1. Holding
    BY <1>6, Holdings DEF DeleteKeyFails, Holding, PCs
  <2>2. PICK ks : project' = [project EXCEPT !.keys = project.keys \ ks]
    BY <1>6 DEF DeleteKeyFails
  <2>3. project.keys \ ks \in SUBSET DeployKey
    BY <1>1 DEF Project
  <2>4. project' \in Project
    BY <2>2, <2>3, ProjectTypes
  <2> QED
    BY <1>6, <2>1, <2>4, InProjectType DEF DeleteKeyFails
<1> QED
  BY <1>2, <1>3, <1>4, <1>5, <1>6 DEF Fault

(* Others change the project.                                               *)
LEMMA ForeignTypes ==
    ASSUME TypeOK,
           ForeignVariable \/ ForeignKey \/ ForeignFile \/ TokenEnds \/ ProjectReplaced
    PROVE  /\ \E p \in Project : ChangeProject(p)
           /\ project'.tokens \subseteq project.tokens \/ pc = "idle"
<1>1. /\ project \in Project /\ project.vars \in [SpecVars \cup ForeignVars -> Contents]
      /\ project.keys \subseteq DeployKey /\ project.tokens \subseteq Tokens
  BY DEF TypeOK, Project
<1>2. CASE ForeignVariable
  <2>1. PICK v \in SpecVars \cup ForeignVars, x \in {None, "foreign"} :
           ChangeProject([project EXCEPT !.vars[v] = x])
    BY <1>1, <1>2 DEF ForeignVariable
  <2>2. [project EXCEPT !.vars[v] = x] \in Project
    BY ProjectTypes DEF Contents
  <2>3. [project EXCEPT !.vars[v] = x].tokens = project.tokens
    BY <1>1 DEF Project
  <2> QED
    BY <2>1, <2>2, <2>3 DEF ChangeProject
<1>3. CASE ForeignKey
  <2>1. PICK ks \in SUBSET DeployKey : ChangeProject([project EXCEPT !.keys = ks])
    <3>1. \A t \in ForeignKeys : [title |-> t, key |-> 0] \in DeployKey
      BY DEF DeployKey, Titles, Keys
    <3> QED
      BY <1>1, <1>3, <3>1 DEF ForeignKey
  <2>2. [project EXCEPT !.keys = ks] \in Project
    BY ProjectTypes
  <2>3. [project EXCEPT !.keys = ks].tokens = project.tokens
    BY <1>1 DEF Project
  <2> QED
    BY <2>1, <2>2, <2>3 DEF ChangeProject
<1>4. CASE ForeignFile
  <2>1. PICK f \in Files, x \in {"none", "foreign"} :
           ChangeProject([project EXCEPT !.files[f] = x])
    BY <1>4 DEF ForeignFile
  <2>2. [project EXCEPT !.files[f] = x] \in Project
    BY ProjectTypes
  <2>3. [project EXCEPT !.files[f] = x].tokens = project.tokens
    BY <1>1 DEF Project
  <2> QED
    BY <2>1, <2>2, <2>3 DEF ChangeProject
<1>5. CASE TokenEnds
  <2>1. PICK t \in project.tokens :
           ChangeProject([project EXCEPT !.tokens = project.tokens \ {t}])
    BY <1>5 DEF TokenEnds
  <2>2. project.tokens \ {t} \in SUBSET Tokens
    BY <1>1
  <2>3. [project EXCEPT !.tokens = project.tokens \ {t}] \in Project
    BY <2>2, ProjectTypes
  <2>4. [project EXCEPT !.tokens = project.tokens \ {t}].tokens \subseteq project.tokens
    BY <1>1 DEF Project
  <2> QED
    BY <2>1, <2>3, <2>4 DEF ChangeProject
<1>6. CASE ProjectReplaced
  BY <1>6, NoObjectTypes DEF ProjectReplaced
<1> QED
  BY <1>2, <1>3, <1>4, <1>5, <1>6

(* Users, and others in GitLab.                                             *)
LEMMA EnvironmentType == TypeOK /\ Environment => TypeOK'
<1> SUFFICES ASSUME TypeOK, Environment PROVE TypeOK'
  OBVIOUS
<1>1. CASE ForeignVariable \/ ForeignKey \/ ForeignFile \/ TokenEnds \/ ProjectReplaced
  <2>1. PICK p \in Project : ChangeProject(p)
    BY <1>1, ForeignTypes
  <2> QED
    BY <2>1 DEF ChangeProject, Outside, TypeOK, store
<1>2. CASE EditSpec
  <2>1. PICK s \in GitRepoSpec(focus) :
           /\ drops' = drops + Cardinality(gitRepo.spec.gens \ s.gens)
           /\ gitRepo' = [gitRepo EXCEPT !.spec = s]
    BY <1>2 DEF EditSpec
  <2>2. s \in GitRepoSpec(Everything)
    BY SpecTypes, SyncAssumption DEF TypeOK
  <2>3. gitRepo' \in GitRepo
    BY <2>1, <2>2 DEF TypeOK, GitRepo
  <2>4. drops' \in 0..MaxDrops
    <3>1. gitRepo.spec.gens \ s.gens \subseteq GenNames
      BY GitRepoParts DEF TypeOK
    <3>2. Cardinality(gitRepo.spec.gens \ s.gens) \in Nat
      BY <3>1, SyncAssumption, FS_Subset, FS_CardinalityType
    <3>3. drops' <= MaxDrops
      BY <1>2 DEF EditSpec
    <3> QED
      BY <2>1, <3>2, <3>3, SyncAssumption DEF TypeOK
  <2> QED
    BY <1>2, <2>3, <2>4 DEF EditSpec, Outside, TypeOK
<1>3. ASSUME NEW g \in GenNames, DeleteKeySecret(g) PROVE TypeOK'
  <2>1. keySecret' \in [GenNames -> Keys]
    BY <1>3 DEF DeleteKeySecret, TypeOK, Keys
  <2>2. drops' \in 0..MaxDrops
    BY <1>3, SyncAssumption DEF DeleteKeySecret, TypeOK
  <2> QED
    BY <1>3, <2>1, <2>2 DEF DeleteKeySecret, Outside, TypeOK
<1>4. CASE EditVarSecret
  BY <1>4 DEF EditVarSecret, Outside, TypeOK
<1>5. CASE DeleteTokenSecret
  <2>1. held' \in {"absent", "fresh", "stale"}
    BY <1>5 DEF DeleteTokenSecret, TypeOK
  <2> QED
    BY <1>5, <2>1 DEF DeleteTokenSecret, Outside, TypeOK
<1> QED
  BY <1>1, <1>2, <1>3, <1>4, <1>5 DEF Environment

(* Every step keeps the types.                                              *)
LEMMA NextType == TypeOK /\ [Next]_vars => TypeOK'
<1> SUFFICES ASSUME TypeOK, [Next]_vars PROVE TypeOK'
  OBVIOUS
<1>1. CASE Start \/ Watches \/ Resync
  BY <1>1, StartType, WatchesType
<1>2. CASE Reconcile
  BY <1>2, GenerateType, TokenType, VariablesType, FilesType, DeployKeysType, StatusType
     DEF Reconcile
<1>3. CASE Fault \/ Environment
  BY <1>3, FaultType, EnvironmentType
<1>4. CASE UNCHANGED vars
  BY <1>4 DEF vars, store, informer, worker, TypeOK
<1> QED
  BY <1>1, <1>2, <1>3, <1>4 DEF Next, Operator

(* Every object, secret, cache and copy in memory has its type, the counted *)
(* drops keep to their bound, and whatever carries the stored               *)
(* resourceVersion has the contents that are stored, until the steps of     *)
(* controllers/gitrepo/steps.go change the copy's status.                   *)
THEOREM SyncTypeCorrect == Spec => []TypeOK
<1>1. Init => TypeOK
  BY InitType
<1>2. TypeOK /\ [Next]_vars => TypeOK'
  BY NextType
<1> QED
  BY <1>1, <1>2, PTL DEF Spec

-----------------------------------------------------------------------------
(* What the worker is about while it is within a step.                      *)

(* It holds the secret as it is stored only when GitLab did not accept the  *)
(* token in it, and a new token is another one.                             *)
HeldInv == pc = "storeToken" /\ held = "fresh" => tokenSecret \notin project.tokens

(* Variables it is to remove are in the status, those it is to set are in   *)
(* the spec, files it is to commit are wanted or listed for deletion.       *)
TodoInv ==
    /\ pc = "removeVars" => hand.todo \subseteq hand.obj.status.applied
    /\ pc = "setVars" => hand.todo \subseteq hand.obj.spec.vars
    /\ pc = "commit" => \A f \in hand.todo \cap Files :
                           hand.obj.spec.files[f] \in {"content", "delete"}

Within == {"storeToken", "removeVars", "setVars", "commit"}

(* A loop goes on, or others act.                                           *)
Goes ==
    /\ pc' = pc /\ hand'.obj = hand.obj /\ hand'.todo \subseteq hand.todo
    /\ tokenSecret' = tokenSecret \/ held' # "fresh"
    /\ pc = "storeToken" =>
          held' \in {held, "stale"} /\ project'.tokens \subseteq project.tokens

(* The steps of a reconciliation after which it is within a step.           *)
LEMMA WithinReconcile ==
    ASSUME TypeOK, Reconcile, pc' \in Within
    PROVE  \/ EnsureAccessToken /\ pc' = "storeToken"
           \/ EnsureCIVariables /\ pc' = "removeVars"
           \/ ListVariables
           \/ CompareFiles /\ pc' = "commit"
           \/ Goes
<1>1. \A o : \A step \in StepNames : ~Continue(step, o) /\ ~ContinueUnlessFailed(step, o)
  BY FromTypes DEF Continue, ContinueUnlessFailed, RepoError, Within, StepNames
<1>2. ~RepoError /\ ~Idle
  BY DEF RepoError, Idle, Within
<1>3. ASSUME NEW g \in GenNames, DropGeneratedKey(g) \/ EnsureGeneratedKey(g) PROVE FALSE
  BY <1>3 DEF DropGeneratedKey, EnsureGeneratedKey, Within
<1>4. ~GetGitClient /\ ~StoreToken /\ ~RecordApplied /\ ~CreateCommit /\ ~RepoUpdated
  BY <1>1, <1>2 DEF GetGitClient, StoreToken, RecordApplied, CreateCommit, RepoUpdated,
                    StepNames
<1>5. CASE EnsureAccessToken
  BY <1>1, <1>5 DEF EnsureAccessToken, StepNames
<1>6. CASE EnsureCIVariables
  BY <1>2, <1>6 DEF EnsureCIVariables
<1>7. CASE CompareFiles
  BY <1>1, <1>7 DEF CompareFiles, StepNames
<1>8. ASSUME NEW v \in SpecVars, RemoveVariable(v) \/ SetVariable(v) PROVE Goes
  <2>1. hand' = Done(v) /\ UNCHANGED <<pc, tokenSecret>> /\ pc # "storeToken"
    BY <1>8 DEF RemoveVariable, SetVariable, InProject
  <2>2. Done(v).obj = hand.obj /\ Done(v).todo \subseteq hand.todo
    BY DEF TypeOK, Hand, Done
  <2> QED
    BY <2>1, <2>2 DEF Goes
<1>9. /\ ~CompareKeys /\ ~SetDeployKeys
      /\ \A t \in Titles : ~RemoveDeployKeys(t) /\ ~AddDeployKey(t)
      /\ ~HandleRepoError /\ ~UpdateStatus
  BY <1>2 DEF CompareKeys, SetDeployKeys, RemoveDeployKeys, AddDeployKey, HandleRepoError,
              UpdateStatus, EndOk, EndWithError, Within
<1>10. \/ EnsureAccessToken \/ EnsureCIVariables \/ ListVariables \/ CompareFiles
       \/ \E v \in SpecVars : RemoveVariable(v) \/ SetVariable(v)
  BY <1>3, <1>4, <1>9 DEF Reconcile
<1> QED
  BY <1>5, <1>6, <1>7, <1>8, <1>10

(* All steps after which it is.                                             *)
LEMMA WithinSteps ==
    ASSUME TypeOK, [Next]_vars, pc' \in Within
    PROVE  \/ EnsureAccessToken /\ pc' = "storeToken"
           \/ EnsureCIVariables /\ pc' = "removeVars"
           \/ ListVariables
           \/ CompareFiles /\ pc' = "commit"
           \/ Goes
<1>1. ~Start /\ ~CallFails /\ ~StepFails /\ ~Crash
  BY FromTypes DEF Start, CallFails, StepFails, Crash, EndWithError, RepoError, Idle,
                   StepNames, Within
<1>2. CASE Reconcile
  BY <1>2, WithinReconcile
<1>3. CASE Watches \/ Resync \/ UNCHANGED vars
  BY <1>3 DEF Watches, DeliverGitRepo, DeliverTokenSecret, DeliverVarSecret,
              DeliverKeySecret, Resync, vars, store, worker, Goes
<1>4. ASSUME NEW x \in hand.todo, LoopFails(x) \/ DeleteKeyFails(x) PROVE Goes
  <2>1. /\ hand' \in {Done(x), Failed(x)} /\ UNCHANGED <<pc, tokenSecret>>
        /\ pc # "storeToken"
    BY <1>4 DEF LoopFails, DeleteKeyFails, InProject
  <2>2. /\ Done(x).obj = hand.obj /\ Done(x).todo \subseteq hand.todo
        /\ Failed(x).obj = hand.obj /\ Failed(x).todo \subseteq hand.todo
    BY DEF TypeOK, Hand, Done, Failed
  <2> QED
    BY <2>1, <2>2 DEF Goes
<1>5. CASE EditSpec \/ EditVarSecret \/ DeleteTokenSecret \/ \E g \in GenNames : DeleteKeySecret(g)
  <2>1. UNCHANGED <<pc, hand, project>>
    BY <1>5 DEF EditSpec, EditVarSecret, DeleteTokenSecret, DeleteKeySecret, Outside
  <2>2. held' \in {held, "stale"} /\ (tokenSecret' = tokenSecret \/ held' # "fresh")
    BY <1>5 DEF EditSpec, EditVarSecret, DeleteTokenSecret, DeleteKeySecret, Outside
  <2> QED
    BY <2>1, <2>2 DEF Goes
<1>6. CASE ForeignVariable \/ ForeignKey \/ ForeignFile \/ TokenEnds \/ ProjectReplaced
  <2>1. PICK p \in Project : ChangeProject(p)
    BY <1>6, ForeignTypes
  <2>2. UNCHANGED <<pc, hand, tokenSecret, held>>
    BY <2>1 DEF ChangeProject, Outside, store
  <2>3. pc = "storeToken" => project'.tokens \subseteq project.tokens
    BY <1>6, ForeignTypes
  <2> QED
    BY <2>2, <2>3 DEF Goes
<1> QED
  BY <1>1, <1>2, <1>3, <1>4, <1>5, <1>6 DEF Next, Operator, Fault, Environment

(* The invariants hold from the start and are kept by every step.           *)
LEMMA WithinInductive ==
    /\ Init => HeldInv /\ TodoInv
    /\ TypeOK /\ HeldInv /\ TodoInv /\ [Next]_vars => HeldInv' /\ TodoInv'
<1>1. Init => HeldInv /\ TodoInv
  BY DEF Init, HeldInv, TodoInv
<1>2. ASSUME TypeOK, HeldInv, TodoInv, [Next]_vars PROVE HeldInv' /\ TodoInv'
  <2>1. CASE pc' \notin Within
    BY <2>1 DEF Within, HeldInv, TodoInv
  <2>2. CASE Goes
    BY <1>2, <2>2 DEF Goes, HeldInv, TodoInv
  <2>3. CASE EnsureAccessToken /\ pc' = "storeToken"
    <3>1. PICK t \in Tokens :
             /\ tokenCache \notin project.tokens /\ t \notin {tokenSecret, tokenCache}
             /\ project' = [project EXCEPT !.tokens = project.tokens \cup {t}]
             /\ held' = "fresh" => tokenFresh
      BY <2>3, FromTypes DEF EnsureAccessToken, Continue, StepNames
    <3>2. tokenSecret' = tokenSecret
      BY <2>3 DEF EnsureAccessToken
    <3>3. project'.tokens = project.tokens \cup {t}
      BY <1>2, <3>1 DEF TypeOK, Project
    <3>4. tokenFresh => tokenCache = tokenSecret
      BY <1>2 DEF TypeOK
    <3> QED
      BY <2>3, <3>1, <3>2, <3>3, <3>4 DEF HeldInv, TodoInv
  <2>4. hand \in Hand
    BY <1>2 DEF TypeOK
  <2>5. CASE EnsureCIVariables /\ pc' = "removeVars"
    <3> DEFINE todo == hand.obj.status.applied \ hand.obj.spec.vars
    <3>1. hand' = [hand EXCEPT !.todo = todo, !.value = varCache]
      BY <2>5 DEF EnsureCIVariables, RepoError, obj
    <3> HIDE DEF todo
    <3>2. hand'.todo = todo /\ hand'.obj = hand.obj
      BY <2>4, <3>1 DEF Hand
    <3> QED
      BY <2>5, <3>2 DEF HeldInv, TodoInv, todo
  <2>6. CASE ListVariables
    <3> DEFINE todo == {v \in hand.obj.spec.vars : project.vars[v] # ValueFor(v, hand.value)}
    <3>1. hand' = [hand EXCEPT !.todo = todo] /\ pc' = "setVars"
      BY <2>6 DEF ListVariables, obj
    <3>2. todo \subseteq hand.obj.spec.vars
      OBVIOUS
    <3> HIDE DEF todo
    <3>3. hand'.todo = todo /\ hand'.obj = hand.obj
      BY <2>4, <3>1 DEF Hand
    <3> QED
      BY <3>1, <3>2, <3>3 DEF HeldInv, TodoInv
  <2>7. CASE CompareFiles /\ pc' = "commit"
    <3> DEFINE pending == {f \in Files : IF f \in Listed THEN hand.obj.spec.files[f] = "delete"
                                         ELSE hand.obj.spec.files[f] = "content"}
    <3>1. hand' = [hand EXCEPT !.todo = pending]
      BY <2>7, FromTypes DEF CompareFiles, Continue, StepNames, obj
    <3>2. \A f \in pending : hand.obj.spec.files[f] \in {"content", "delete"}
      OBVIOUS
    <3> HIDE DEF pending
    <3>3. hand'.todo = pending /\ hand'.obj = hand.obj
      BY <2>4, <3>1 DEF Hand
    <3> QED
      BY <2>7, <3>2, <3>3 DEF HeldInv, TodoInv
  <2> QED
    BY <1>2, <2>1, <2>2, <2>3, <2>5, <2>6, <2>7, WithinSteps
<1> QED
  BY <1>1, <1>2

-----------------------------------------------------------------------------
(* The secret of the access token.                                          *)

(* Only the operator's update and its deletion by others change it.         *)
LEMMA SecretSteps ==
    ASSUME [Next]_vars, tokenSecret' # tokenSecret
    PROVE  StoreToken \/ (DeleteTokenSecret /\ pc' = pc)
<1>1. CASE Reconcile
  BY <1>1 DEF Reconcile, DropGeneratedKey, EnsureGeneratedKey, GetGitClient,
              EnsureAccessToken, EnsureCIVariables, ListVariables, RecordApplied,
              RemoveVariable, SetVariable, CompareFiles, CreateCommit, CompareKeys,
              SetDeployKeys, RepoUpdated, RemoveDeployKeys, AddDeployKey,
              HandleRepoError, UpdateStatus, InProject
<1>2. CASE Start \/ Watches \/ Resync \/ UNCHANGED vars
  BY <1>2 DEF Start, Watches, DeliverGitRepo, DeliverTokenSecret, DeliverVarSecret,
              DeliverKeySecret, Resync, vars, store
<1>3. CASE Fault
  BY <1>3 DEF Fault, CallFails, StepFails, Crash, LoopFails, DeleteKeyFails, InProject,
              store
<1>4. CASE Environment
  BY <1>4 DEF Environment, EditSpec, EditVarSecret, DeleteTokenSecret, DeleteKeySecret,
              ForeignVariable, ForeignKey, ForeignFile, TokenEnds, ProjectReplaced,
              ChangeProject, Outside, store
<1> QED
  BY <1>1, <1>2, <1>3, <1>4 DEF Next, Operator

(* A token that GitLab accepts is never replaced by the operator: a new one *)
(* is issued only when the one in the copy is not accepted, and the copy is *)
(* stored only when it still is what is stored (ensureAccessToken,          *)
(* CreateOrUpdate, EnsureProjectAccessToken).                               *)
THEOREM ValidTokensStay == Spec => ValidTokenStays
<1>1. ASSUME TypeOK, HeldInv, [Next]_vars, pc' # pc, tokenSecret \in project.tokens
      PROVE  tokenSecret' = tokenSecret
  <2>1. tokenSecret # None
    BY <1>1, SyncAssumption DEF TypeOK, Project
  <2>2. CASE StoreToken
    BY <1>1, <2>1, <2>2 DEF StoreToken, HeldInv
  <2> QED
    BY <1>1, <2>2, SecretSteps
<1>2. TypeOK /\ HeldInv /\ [Next]_vars =>
        [pc' # pc /\ tokenSecret \in project.tokens => tokenSecret' = tokenSecret]_vars
  BY <1>1
<1> QED
  BY <1>2, InitType, NextType, WithinInductive, PTL DEF Spec, ValidTokenStays

-----------------------------------------------------------------------------
(* What others keep in the project.                                         *)

(* Foreign variables and files are as they were, or it was for others.      *)
ForeignKept ==
    /\ \A v \in ForeignVars \ (hand.obj.spec.vars \cup hand.obj.status.applied) :
          project'.vars[v] = project.vars[v]
    /\ \A f \in Files :
          project.files[f] = "foreign" /\ hand.obj.spec.files[f] # "delete"
          => project'.files[f] = "foreign"

(* The steps of the worker that change more than tokens and keys.           *)
LEMMA ProjectSteps ==
    ASSUME TypeOK, [Next]_vars, pc' # pc \/ hand' # hand
    PROVE  \/ project'.vars = project.vars /\ project'.files = project.files
           \/ \E v \in SpecVars : RemoveVariable(v) \/ SetVariable(v)
           \/ CreateCommit
<1>1. project \in Project
  BY DEF TypeOK
<1>2. ASSUME NEW x, \/ project' = [project EXCEPT !.tokens = x]
                    \/ project' = [project EXCEPT !.keys = x]
      PROVE  project'.vars = project.vars /\ project'.files = project.files
  BY <1>1, <1>2 DEF Project
<1>3. CASE Reconcile
  <2>1. CASE EnsureAccessToken
    BY <1>2, <2>1 DEF EnsureAccessToken
  <2>2. ASSUME NEW t \in Titles, RemoveDeployKeys(t) \/ AddDeployKey(t)
        PROVE  project'.vars = project.vars /\ project'.files = project.files
    BY <1>2, <2>2 DEF RemoveDeployKeys, AddDeployKey
  <2>3. CASE \/ \E g \in GenNames : DropGeneratedKey(g) \/ EnsureGeneratedKey(g)
             \/ GetGitClient \/ StoreToken \/ EnsureCIVariables \/ ListVariables
             \/ RecordApplied \/ CompareFiles \/ CompareKeys \/ SetDeployKeys
             \/ RepoUpdated \/ HandleRepoError \/ UpdateStatus
    BY <2>3 DEF DropGeneratedKey, EnsureGeneratedKey, GetGitClient, StoreToken,
                EnsureCIVariables, ListVariables, RecordApplied, CompareFiles,
                CompareKeys, SetDeployKeys, RepoUpdated, HandleRepoError, UpdateStatus
  <2> QED
    BY <1>3, <2>1, <2>2, <2>3 DEF Reconcile
<1>4. CASE Start \/ Watches \/ Resync \/ UNCHANGED vars
  BY <1>4 DEF Start, Watches, DeliverGitRepo, DeliverTokenSecret, DeliverVarSecret,
              DeliverKeySecret, Resync, vars
<1>5. CASE Fault
  <2>1. ASSUME NEW x \in hand.todo, DeleteKeyFails(x)
        PROVE  project'.vars = project.vars /\ project'.files = project.files
    BY <1>2, <2>1 DEF DeleteKeyFails
  <2> QED
    BY <1>5, <2>1 DEF Fault, CallFails, StepFails, Crash, LoopFails
<1>6. CASE Environment
  BY <1>6 DEF Environment, EditSpec, EditVarSecret, DeleteTokenSecret, DeleteKeySecret,
              ForeignVariable, ForeignKey, ForeignFile, TokenEnds, ProjectReplaced,
              ChangeProject, Outside
<1> QED
  BY <1>3, <1>4, <1>5, <1>6 DEF Next, Operator

(* The steps that do change them.                                           *)
LEMMA ForeignStep ==
    ASSUME TypeOK, TodoInv, [Next]_vars, pc' # pc \/ hand' # hand
    PROVE  ForeignKept
<1>1. /\ project \in Project /\ hand.todo \subseteq SpecVars \cup Titles \cup Files
      /\ project.vars \in [SpecVars \cup ForeignVars -> Contents]
      /\ project.files \in [Files -> {"none", "ours", "foreign"}]
  BY DEF TypeOK, Project, Hand
<1>2. CASE project'.vars = project.vars /\ project'.files = project.files
  BY <1>2 DEF ForeignKept
<1>3. ASSUME NEW v \in SpecVars, RemoveVariable(v) \/ SetVariable(v) PROVE ForeignKept
  <2>1. v \in hand.obj.spec.vars \cup hand.obj.status.applied
    BY <1>3 DEF RemoveVariable, SetVariable, TodoInv
  <2>2. PICK x : project' = [project EXCEPT !.vars[v] = x]
    BY <1>3 DEF RemoveVariable, SetVariable
  <2>3. /\ project'.files = project.files
        /\ \A w \in SpecVars \cup ForeignVars : w # v => project'.vars[w] = project.vars[w]
    BY <1>1, <2>2 DEF Project
  <2> QED
    BY <2>1, <2>3 DEF ForeignKept
<1>4. CASE CreateCommit
  <2> DEFINE fs == [f \in Files |-> IF f \notin hand.todo THEN project.files[f]
                                    ELSE IF hand.obj.spec.files[f] = "delete" THEN "none"
                                    ELSE "ours"]
  <2>1. \/ project' = project
        \/ /\ project' = [project EXCEPT !.files = fs]
           /\ \A f \in hand.todo : (project.files[f] = "none") = (hand.obj.spec.files[f] = "content")
    BY <1>4 DEF CreateCommit, obj
  <2>2. CASE project' = project
    BY <2>2 DEF ForeignKept
  <2>3. CASE project' # project
    <3>1. ASSUME NEW f \in Files, project.files[f] = "foreign",
                 hand.obj.spec.files[f] # "delete"
          PROVE  fs[f] = "foreign"
      <4>1. f \notin hand.todo
        BY <1>4, <2>1, <2>3, <3>1 DEF CreateCommit, TodoInv
      <4> QED
        BY <3>1, <4>1
    <3>2. project' = [project EXCEPT !.files = fs]
      BY <2>1, <2>3
    <3> HIDE DEF fs
    <3>3. project'.vars = project.vars /\ project'.files = fs
      BY <1>1, <3>2 DEF Project
    <3> QED
      BY <3>1, <3>3 DEF ForeignKept
  <2> QED
    BY <2>2, <2>3
<1> QED
  BY <1>2, <1>3, <1>4, ProjectSteps

(* A step of the operator leaves alone what others keep in the project:     *)
(* variables that neither spec nor status name, and files that are not      *)
(* listed for deletion, also those that come up between its calls           *)
(* (EnsureCIVariables, compareFiles, CommitTemplateFiles).                  *)
THEOREM ForeignContentsStay == Spec => ForeignContentStays
<1>1. TypeOK /\ TodoInv /\ [Next]_vars =>
        [pc' # pc \/ hand' # hand
         => /\ \A v \in ForeignVars \ (obj.spec.vars \cup obj.status.applied) :
                  project'.vars[v] = project.vars[v]
            /\ \A f \in Files : project.files[f] = "foreign" /\ obj.spec.files[f] # "delete"
                                => project'.files[f] = "foreign"]_vars
  BY ForeignStep DEF ForeignKept, obj
<1> QED
  BY <1>1, InitType, NextType, WithinInductive, PTL DEF Spec, ForeignContentStays
-----------------------------------------------------------------------------
(* No work is lost.                                                         *)

(* What a behaviour is not about is neither asked for nor applied, so the   *)
(* steps passed by had nothing to do.                                       *)
InFocus(o) ==
    /\ SpecVars \cap focus = {} => o.spec.vars = {} /\ o.status.applied = {}
    /\ Tokens \cap focus = {} => ~o.spec.token

FocusInv == InFocus(gitRepo) /\ InFocus(cache) /\ InFocus(hand.obj)

(* The variables of o have a value and show no other one in the project.    *)
ValuesSet(o, value, rest) ==
    \A v \in o.spec.vars \ rest :
        /\ v \in Plain \/ value # None
        /\ project.vars[v] \in {ValueFor(v, value), "foreign", None}

(* A token that was just stored is not in the cache yet.                    *)
TokenStored(o) == o.spec.token /\ tokenFresh => tokenCache # None

Setting == {"removeVars", "setVars"}
VarsSet == {"files", "commit", "deployKeys", "removeKeys", "addKeys", "status"}

(* What a reconciliation has done by the value that it read.                *)
StepInv ==
    /\ pc \in Setting => hand.obj.spec.vars \cap FromSecret = {} \/ hand.value # None
    /\ pc = "setVars" /\ ~hand.failed => ValuesSet(hand.obj, hand.value, hand.todo)
    /\ pc \in VarsSet => hand.obj.status.applied = hand.obj.spec.vars

(* As long as nothing is queued and the cached GitRepo is the stored one,   *)
(* the worker holds that one, and what it has done fits the caches.         *)
WorkInv ==
    /\ objFresh /\ hand.obj.spec = cache.spec
    /\ pc \in {"variables"} \cup Setting \cup VarsSet => TokenStored(hand.obj)
    /\ pc \in Setting /\ hand.obj.spec.vars \cap FromSecret # {} => hand.value = varCache
    /\ pc \in VarsSet => ValuesSet(hand.obj, varCache, {})

(* What an ended reconciliation left.                                       *)
LeftInv ==
    /\ cache.status.applied = cache.spec.vars
    /\ ValuesSet(cache, varCache, {}) /\ TokenStored(cache)

Watched ==
    ~queued /\ cacheFresh =>
        /\ pc = "idle" => LeftInv
        /\ pc \notin {"idle", "repoError"} => WorkInv

RestInv == FocusInv /\ StepInv /\ Watched

(* The steps that are passed by are those with nothing in focus.            *)
LEMMA FromSkips ==
    ASSUME NEW step \in StepNames
    PROVE  /\ From(step) \in StepNames
           /\ step # "generate" => From(step) # "generate"
           /\ step \in {"generate", "token"} =>
                 From(step) \in {"generate", "token"} \/ Tokens \cap focus = {}
           /\ step \in {"generate", "token", "variables"} =>
                 From(step) \in {"generate", "token", "variables"} \/ SpecVars \cap focus = {}
           /\ step \notin {"generate", "token"} => From(step) \notin {"generate", "token"}
           /\ step \in {"files", "deployKeys", "status"} =>
                 From(step) \in {"files", "deployKeys", "status"}
<1> DEFINE ahead == {n \in 1..Len(Steps) :
                       /\ \E m \in 1..n : Steps[m] = step
                       /\ n = Len(Steps) \/ WorksOn[Steps[n]] \cap focus # {}}
           n == CHOOSE k \in ahead : \A m \in ahead : k <= m
<1>1. /\ Len(Steps) = 6
      /\ Steps[1] = "generate" /\ Steps[2] = "token" /\ Steps[3] = "variables"
      /\ Steps[4] = "files" /\ Steps[5] = "deployKeys" /\ Steps[6] = "status"
  BY DEF Steps
<1>2. ahead \subseteq 1..6 /\ 6 \in ahead
  <2>1. \E m \in 1..6 : Steps[m] = step
    BY <1>1 DEF StepNames
  <2> QED
    BY <1>1, <2>1
<1>3. \E k \in ahead : \A m \in ahead : k <= m
  <2> HIDE DEF ahead
  <2> QED
    BY <1>2, FirstStep
<1>4. n \in ahead /\ \A m \in ahead : n <= m
  BY <1>3
<1>5. From(step) = Steps[n]
  BY DEF From
<1>6. n \in 1..6 /\ \E m \in 1..n : Steps[m] = step
  BY <1>1, <1>4
<1>7. step \in {"generate", "token"} => n <= 2 \/ Tokens \cap focus = {}
  <2>1. WorksOn["token"] = Tokens
    BY DEF WorksOn
  <2>2. step \in {"generate", "token"} /\ Tokens \cap focus # {} => 2 \in ahead
    BY <1>1, <2>1
  <2> HIDE DEF ahead, n
  <2> QED
    BY <1>4, <2>2
<1>8. step \in {"generate", "token", "variables"} => n <= 3 \/ SpecVars \cap focus = {}
  <2>1. WorksOn["variables"] = SpecVars
    BY DEF WorksOn
  <2>2. step \in {"generate", "token", "variables"} /\ SpecVars \cap focus # {} => 3 \in ahead
    BY <1>1, <2>1
  <2> HIDE DEF ahead, n
  <2> QED
    BY <1>4, <2>2
<1> HIDE DEF n, ahead
<1>9. n = 1 \/ n = 2 \/ n = 3 \/ n = 4 \/ n = 5 \/ n = 6
  BY <1>6
<1>10. /\ step = "token" => n >= 2
       /\ step = "variables" => n >= 3
       /\ step \in {"files", "deployKeys", "status"} => n >= 4
  BY <1>1, <1>6, <1>9
<1> QED
  BY <1>1, <1>5, <1>7, <1>8, <1>9, <1>10 DEF StepNames

(* Arriving at a step, or passing it by, with what was done before it.      *)
LEMMA Arrival ==
    ASSUME FocusInv', focus' = focus, NEW step \in StepNames, pc' = From(step),
           step \in VarsSet => hand'.obj.status.applied = hand'.obj.spec.vars,
           ~queued' /\ cacheFresh' =>
              /\ objFresh' /\ hand'.obj.spec = cache'.spec
              /\ step \in {"variables"} \cup VarsSet => TokenStored(hand.obj)'
              /\ step \in VarsSet => ValuesSet(hand.obj, varCache, {})'
    PROVE  RestInv'
<1>1. /\ pc' \in StepNames /\ pc' \notin Setting /\ pc' \notin {"idle", "repoError"}
      /\ pc' \in {"variables"} \cup VarsSet =>
            step \in {"variables"} \cup VarsSet \/ Tokens \cap focus = {}
      /\ pc' \in VarsSet => step \in VarsSet \/ SpecVars \cap focus = {}
  BY FromSkips DEF StepNames, Setting, VarsSet
<1>2. /\ Tokens \cap focus = {} => ~hand'.obj.spec.token
      /\ SpecVars \cap focus = {} => hand'.obj.spec.vars = {} /\ hand'.obj.status.applied = {}
  BY DEF FocusInv, InFocus
<1>3. StepInv'
  BY <1>1, <1>2 DEF StepInv, Setting
<1>4. Watched'
  BY <1>1, <1>2 DEF Watched, WorkInv, TokenStored, ValuesSet
<1> QED
  BY <1>3, <1>4 DEF RestInv

(* A call that failed: the GitRepo will be looked at again.                 *)
LEMMA ReportRest ==
    ASSUME FocusInv', pc' = "repoError"
    PROVE  RestInv'
BY DEF RestInv, StepInv, Watched, Setting, VarsSet

(* What stands for no object asks for nothing.                              *)
LEMMA NothingAsked ==
    /\ NoGitRepo.spec.vars = {} /\ NoGitRepo.spec.token = FALSE
    /\ NoGitRepo.status.applied = {}
<1>1. [vars |-> {}, gens |-> {}, keys |-> {}, token |-> FALSE,
       files |-> [f \in Files |-> "absent"]] \in GitRepoSpec({})
  BY DEF GitRepoSpec
<1>2. NoGitRepo.spec \in GitRepoSpec({}) /\ NoGitRepo.status.applied = {}
  BY <1>1 DEF NoGitRepo, NewGitRepo
<1> QED
  BY <1>2 DEF GitRepoSpec

(* So it is in focus.                                                       *)
LEMMA NothingInFocus ==
    ASSUME Idle
    PROVE  hand'.obj = NoGitRepo /\ InFocus(NoGitRepo)'
<1>1. hand' = NoHand
  BY DEF Idle
<1> QED
  BY <1>1, NothingAsked DEF NoHand, InFocus

(* Going on to a step with nothing in hand but the object.                  *)
LEMMA ContinueRest ==
    ASSUME TypeOK, RestInv, Unread, pc \notin {"idle", "repoError"},
           NEW step \in StepNames, NEW o \in GitRepo, Continue(step, o),
           o.spec = hand.obj.spec, InFocus(o),
           step \in VarsSet => o.status.applied = o.spec.vars,
           ~queued /\ cacheFresh =>
              /\ step \in {"variables"} \cup VarsSet => TokenStored(o)'
              /\ step \in VarsSet => ValuesSet(o, varCache, {})'
    PROVE  RestInv'
<1>1. hand'.obj = o /\ pc' = From(step)
  BY Holdings DEF Continue
<1>2. FocusInv' /\ focus' = focus
  BY <1>1 DEF Unread, RestInv, FocusInv, InFocus
<1>3. /\ ~queued' /\ cacheFresh' => ~queued /\ cacheFresh /\ objFresh'
      /\ ~queued' /\ cacheFresh' => hand'.obj.spec = cache'.spec
  BY <1>1 DEF Unread, RestInv, Watched, WorkInv
<1>4. ~queued' /\ cacheFresh' =>
         /\ step \in {"variables"} \cup VarsSet => TokenStored(hand.obj)'
         /\ step \in VarsSet => ValuesSet(hand.obj, varCache, {})'
  BY <1>1, <1>3 DEF TokenStored, ValuesSet
<1> QED
  BY <1>1, <1>2, <1>3, <1>4, Arrival

(* Within the steps after the variables nothing changes but their own part. *)
LEMMA VarsSetRest ==
    ASSUME RestInv, InProject, pc \in VarsSet, pc' \in VarsSet,
           hand'.obj = hand.obj, project'.vars = project.vars
    PROVE  RestInv'
<1>1. FocusInv'
  BY DEF RestInv, FocusInv, InFocus, InProject, Unread
<1>2. StepInv'
  BY DEF RestInv, StepInv, Setting, VarsSet
<1>3. /\ pc \notin {"idle", "repoError"} /\ pc' # "idle" /\ pc' \notin Setting
      /\ pc \in {"variables"} \cup Setting \cup VarsSet
  BY DEF VarsSet, Setting
<1>4. Watched'
  BY <1>3 DEF RestInv, Watched, WorkInv, TokenStored, ValuesSet, InProject, Unread
<1> QED
  BY <1>1, <1>2, <1>4 DEF RestInv

(* A reconciliation starts with the cached GitRepo.                         *)
LEMMA StartRest == TypeOK /\ RestInv /\ Start => RestInv'
<1> SUFFICES ASSUME TypeOK, RestInv, Start PROVE RestInv'
  OBVIOUS
<1>1. hand'.obj = cache
  BY NoObjectTypes DEF Start, Hand
<1>2. /\ pc' = From("generate") /\ objFresh' = cacheFresh
      /\ UNCHANGED <<gitRepo, cache, cacheFresh, focus>>
  BY DEF Start, store
<1>3. FocusInv'
  BY <1>1, <1>2 DEF RestInv, FocusInv, InFocus
<1>4. "generate" \in StepNames /\ "generate" \notin {"variables"} \cup VarsSet
  BY DEF StepNames, VarsSet
<1> QED
  BY <1>1, <1>2, <1>3, <1>4, Arrival

(* Generated deploy keys.                                                   *)
LEMMA GenerateRest ==
    ASSUME TypeOK, RestInv,
           \/ \E g \in GenNames : DropGeneratedKey(g) \/ EnsureGeneratedKey(g)
           \/ GetGitClient
           \/ pc = "generate" /\ \E x : LoopFails(x)
    PROVE  RestInv'
<1>1. /\ hand \in Hand /\ hand.obj \in GitRepo /\ pc = "generate" /\ Unread
      /\ hand.obj.status.keys \in [GenNames -> Keys]
  BY Holdings, GitRepoParts
     DEF DropGeneratedKey, EnsureGeneratedKey, GetGitClient, LoopFails, InProject
<1>2. CASE GetGitClient
  <2>1. CASE RepoError
    <3>1. hand'.obj = hand.obj /\ pc' = "repoError"
      BY <1>1, <2>1, Holdings DEF RepoError
    <3> QED
      BY <1>1, <3>1, ReportRest DEF RestInv, FocusInv, InFocus, Unread
  <2>2. CASE Continue("token", hand.obj)
    BY <1>1, <2>2, ContinueRest DEF RestInv, FocusInv, StepNames, VarsSet
  <2> QED
    BY <1>2, <2>1, <2>2 DEF GetGitClient, ContinueUnlessFailed, obj
<1>3. CASE ~GetGitClient
  <2>1. pc' = "generate"
    BY <1>1, <1>3 DEF DropGeneratedKey, EnsureGeneratedKey, LoopFails
  <2>2. hand'.obj.spec = hand.obj.spec /\ hand'.obj.status.applied = hand.obj.status.applied
    <3>0. ASSUME NEW g, NEW k, hand' = [Done(g) EXCEPT !.obj.status.keys[g] = k]
          PROVE  /\ hand'.obj.spec = hand.obj.spec
                 /\ hand'.obj.status.applied = hand.obj.status.applied
      <4>1. PICK d : d = Done(g)
        OBVIOUS
      <4>2. d \in Hand /\ d.obj = hand.obj
        BY <1>1, <4>1 DEF Done, Hand
      <4>3. hand'.obj = [d.obj EXCEPT !.status.keys[g] = k]
        BY <3>0, <4>1, <4>2 DEF Hand
      <4> QED
        BY <1>1, <4>2, <4>3 DEF GitRepo, Status
    <3>1. CASE \E g \in GenNames : DropGeneratedKey(g)
      <4>1. PICK g \in GenNames : \/ hand' = [Done(g) EXCEPT !.obj.status.keys[g] = 0]
                                 \/ hand' = Failed(g)
        BY <3>1 DEF DropGeneratedKey
      <4> QED
        <5>1. CASE hand' = [Done(g) EXCEPT !.obj.status.keys[g] = 0]
          BY <3>0, <5>1, Zenon
        <5>2. CASE hand' = Failed(g)
          BY <5>2, Holdings
        <5> QED
          BY <4>1, <5>1, <5>2
    <3>2. CASE \E g \in GenNames : EnsureGeneratedKey(g)
      <4>1. PICK g \in GenNames : \/ hand' = [Done(g) EXCEPT !.obj.status.keys[g] = keyCache[g]]
                                 \/ hand' = [Done(g) EXCEPT !.obj.status.keys[g] = generated']
                                 \/ hand' = Failed(g)
        BY <3>2 DEF EnsureGeneratedKey
      <4> QED
        <5>1. CASE hand' = [Done(g) EXCEPT !.obj.status.keys[g] = keyCache[g]]
          BY <3>0, <5>1, Zenon
        <5>2. CASE hand' = [Done(g) EXCEPT !.obj.status.keys[g] = generated']
          BY <3>0, <5>2, Zenon
        <5>3. CASE hand' = Failed(g)
          BY <5>3, Holdings
        <5> QED
          BY <4>1, <5>1, <5>2, <5>3
    <3>3. CASE \E x : LoopFails(x)
      BY <3>3, Holdings DEF LoopFails
    <3> QED
      BY <1>3, <3>1, <3>2, <3>3
  <2>3. FocusInv' /\ StepInv'
    BY <1>1, <2>1, <2>2 DEF RestInv, FocusInv, InFocus, StepInv, Setting, VarsSet, Unread
  <2>4. Watched'
    BY <1>1, <2>1, <2>2 DEF RestInv, Watched, WorkInv, Unread, Setting, VarsSet
  <2> QED
    BY <2>3, <2>4 DEF RestInv
<1> QED
  BY <1>2, <1>3

(* The access token.                                                        *)
LEMMA TokenRest == TypeOK /\ RestInv /\ (EnsureAccessToken \/ StoreToken) => RestInv'
<1> SUFFICES ASSUME TypeOK, RestInv, EnsureAccessToken \/ StoreToken PROVE RestInv'
  OBVIOUS
<1>1. /\ hand \in Hand /\ hand.obj \in GitRepo /\ Unread
      /\ pc \in {"token", "storeToken"} /\ InFocus(hand.obj)
  BY Holdings DEF EnsureAccessToken, StoreToken, RestInv, FocusInv
<1>2. ASSUME Continue("variables", hand.obj),
             hand.obj.spec.token /\ tokenFresh' => tokenCache' # None
      PROVE  RestInv'
  <2>1. PICK o \in GitRepo : o = hand.obj
    BY <1>1
  <2>2. Continue("variables", o) /\ TokenStored(o)' /\ o.spec = hand.obj.spec /\ InFocus(o)
    BY <1>1, <1>2, <2>1 DEF TokenStored
  <2>3. "variables" \in StepNames /\ "variables" \notin VarsSet /\ pc \notin {"idle", "repoError"}
    BY <1>1 DEF StepNames, VarsSet
  <2> QED
    BY <1>1, <2>1, <2>2, <2>3, ContinueRest
<1>3. CASE EnsureAccessToken
  <2>1. CASE Continue("variables", hand.obj) /\ (~hand.obj.spec.token \/ tokenCache \in project.tokens)
    <3>2. tokenCache \in project.tokens => tokenCache # None
      BY SyncAssumption DEF TypeOK, Project
    <3> QED
      BY <1>1, <1>2, <2>1, <3>2 DEF Unread
  <2>2. CASE pc' = "storeToken"
    <3>1. hand'.obj = hand.obj
      <4>1. PICK t : hand' = [hand EXCEPT !.minted = t]
        BY <1>3, <2>2, FromTypes DEF EnsureAccessToken, Continue, StepNames
      <4> QED
        BY <1>1, <4>1 DEF Hand
    <3>2. FocusInv' /\ StepInv'
      BY <1>1, <2>2, <3>1 DEF RestInv, FocusInv, InFocus, StepInv, Setting, VarsSet, Unread
    <3>3. Watched'
      BY <1>1, <2>2, <3>1 DEF RestInv, Watched, WorkInv, Unread, Setting, VarsSet
    <3> QED
      BY <3>2, <3>3 DEF RestInv
  <2> QED
    BY <1>3, <2>1, <2>2 DEF EnsureAccessToken, obj
<1>4. CASE StoreToken
  <2>1. CASE RepoError
    <3>1. hand'.obj = hand.obj /\ pc' = "repoError"
      BY <1>1, <2>1, Holdings DEF RepoError
    <3> QED
      BY <1>1, <3>1, ReportRest DEF RestInv, FocusInv, InFocus, Unread
  <2>2. CASE Continue("variables", hand.obj) /\ tokenFresh' = FALSE
    BY <1>2, <2>2
  <2> QED
    BY <1>4, <2>1, <2>2 DEF StoreToken, obj
<1> QED
  BY <1>3, <1>4

(* The variables: a call that fails is remembered until the loops are over. *)
LEMMA VariablesRest ==
    ASSUME TypeOK, RestInv,
           \/ EnsureCIVariables \/ ListVariables \/ RecordApplied
           \/ \E v \in SpecVars : RemoveVariable(v) \/ SetVariable(v)
           \/ pc \in Setting /\ \E x : LoopFails(x)
    PROVE  RestInv'
<1>1. /\ hand \in Hand /\ hand.obj \in GitRepo /\ InFocus(hand.obj) /\ InProject
      /\ pc \in {"variables"} \cup Setting /\ project \in Project
      /\ hand.obj.spec.vars \subseteq SpecVars
  BY Holdings, GitRepoParts
     DEF EnsureCIVariables, ListVariables, RecordApplied, RemoveVariable, SetVariable,
         LoopFails, Setting, RestInv, FocusInv, TypeOK
<1>2. CASE RepoError
  <2>1. hand'.obj = hand.obj /\ pc' = "repoError"
    BY <1>1, <1>2, Holdings DEF RepoError
  <2> QED
    BY <1>1, <2>1, ReportRest DEF RestInv, FocusInv, InFocus, InProject, Unread
<1>3. CASE EnsureCIVariables /\ ~RepoError
  <2>1. PICK todo : hand' = [hand EXCEPT !.todo = todo, !.value = varCache]
    BY <1>3 DEF EnsureCIVariables
  <2>2. /\ hand'.obj = hand.obj /\ hand'.value = varCache /\ pc = "variables"
        /\ pc' = "removeVars" /\ project' = project
        /\ hand.obj.spec.vars \cap FromSecret # {} => varCache # None
    BY <1>1, <1>3, <2>1 DEF EnsureCIVariables, Hand, obj
  <2>3. FocusInv' /\ StepInv'
    BY <1>1, <2>2 DEF RestInv, FocusInv, InFocus, StepInv, Setting, VarsSet, InProject, Unread
  <2>4. Watched'
    BY <1>1, <2>2 DEF RestInv, Watched, WorkInv, TokenStored, InProject, Unread, Setting, VarsSet
  <2> QED
    BY <2>3, <2>4 DEF RestInv
<1>4. CASE ListVariables
  <2> DEFINE todo == {v \in hand.obj.spec.vars : project.vars[v] # ValueFor(v, hand.value)}
  <2>1. /\ hand' = [hand EXCEPT !.todo = todo] /\ project' = project
        /\ pc = "removeVars" /\ pc' = "setVars"
    BY <1>4 DEF ListVariables, obj
  <2>2. \A v \in hand.obj.spec.vars \ todo : project.vars[v] = ValueFor(v, hand.value)
    OBVIOUS
  <2> HIDE DEF todo
  <2>3. hand'.obj = hand.obj /\ hand'.value = hand.value /\ hand'.todo = todo
    BY <1>1, <2>1 DEF Hand
  <2>4. ValuesSet(hand.obj, hand.value, hand.todo)'
    BY <1>1, <2>1, <2>2, <2>3 DEF ValuesSet, ValueFor, RestInv, StepInv, Setting, SpecVars
  <2>5. FocusInv' /\ StepInv'
    BY <1>1, <2>1, <2>3, <2>4 DEF RestInv, FocusInv, InFocus, StepInv, Setting, VarsSet,
                                  InProject, Unread
  <2>6. Watched'
    BY <1>1, <2>1, <2>3 DEF RestInv, Watched, WorkInv, TokenStored, InProject, Unread,
                            Setting, VarsSet
  <2> QED
    BY <2>5, <2>6 DEF RestInv
<1>5. CASE \/ \E v \in SpecVars : RemoveVariable(v) \/ SetVariable(v)
           \/ pc \in Setting /\ \E x : LoopFails(x)
  <2>1. PICK x : \/ x \in SpecVars /\ (RemoveVariable(x) \/ SetVariable(x))
                 \/ pc \in Setting /\ LoopFails(x)
    BY <1>5
  <2>2. /\ pc \in Setting /\ pc' = pc
        /\ hand' = Done(x) \/ (hand' = Failed(x) /\ project' = project)
    BY <2>1 DEF RemoveVariable, SetVariable, LoopFails, Setting
  <2>3. /\ hand'.obj = hand.obj /\ hand'.value = hand.value /\ hand'.todo = hand.todo \ {x}
        /\ hand' = Failed(x) => hand'.failed
        /\ hand' = Done(x) => hand'.failed = hand.failed
    <3>1. /\ Done(x).obj = hand.obj /\ Done(x).value = hand.value
          /\ Done(x).todo = hand.todo \ {x} /\ Done(x).failed = hand.failed
          /\ Failed(x).obj = hand.obj /\ Failed(x).value = hand.value
          /\ Failed(x).todo = hand.todo \ {x} /\ Failed(x).failed = TRUE
      BY <1>1 DEF Done, Failed, Hand
    <3> QED
      BY <2>2, <3>1
  <2>4. pc = "setVars" /\ ~hand'.failed => ValuesSet(hand.obj, hand.value, hand.todo)'
    <3> SUFFICES ASSUME pc = "setVars", ~hand'.failed
                 PROVE  ValuesSet(hand.obj, hand.value, hand.todo)'
      OBVIOUS
    <3>1. /\ hand' = Done(x) /\ ~hand.failed
          /\ x \in SpecVars /\ project' = [project EXCEPT !.vars[x] = ValueFor(x, hand.value)]
      BY <2>1, <2>2, <2>3 DEF RemoveVariable, SetVariable, LoopFails
    <3>2. /\ project'.vars[x] = ValueFor(x, hand.value)
          /\ \A v \in SpecVars : v # x => project'.vars[v] = project.vars[v]
      BY <1>1, <3>1 DEF Project
    <3>3. /\ ValuesSet(hand.obj, hand.value, hand.todo)
          /\ x \in Plain \/ x \notin hand.obj.spec.vars \/ hand.value # None
      BY <3>1 DEF RestInv, StepInv, Setting, SpecVars
    <3> QED
      BY <1>1, <2>3, <3>2, <3>3 DEF ValuesSet
  <2>5. FocusInv' /\ StepInv'
    BY <1>1, <2>2, <2>3, <2>4 DEF RestInv, FocusInv, InFocus, StepInv, Setting, VarsSet,
                                  InProject, Unread
  <2>6. Watched'
    BY <1>1, <2>2, <2>3 DEF RestInv, Watched, WorkInv, TokenStored, InProject, Unread,
                            Setting, VarsSet
  <2> QED
    BY <2>5, <2>6 DEF RestInv
<1>6. CASE RecordApplied /\ ~RepoError
  <2>0. PICK o : o = [hand.obj EXCEPT !.status.applied = hand.obj.spec.vars]
    OBVIOUS
  <2>1. /\ Continue("files", o) /\ ~hand.failed
        /\ pc = "setVars" /\ hand.todo = {} /\ project' = project
    BY <1>6, <2>0 DEF RecordApplied, ContinueUnlessFailed, obj
  <2>2. o \in GitRepo /\ o.spec = hand.obj.spec /\ o.status.applied = hand.obj.spec.vars
    BY <1>1, <2>0 DEF GitRepo, Status
  <2>3. InFocus(o)
    BY <1>1, <2>2 DEF InFocus
  <2>4. ~queued /\ cacheFresh => TokenStored(o)' /\ ValuesSet(o, varCache, {})'
    <3> SUFFICES ASSUME ~queued, cacheFresh
                 PROVE  TokenStored(o)' /\ ValuesSet(o, varCache, {})'
      OBVIOUS
    <3>1. /\ ValuesSet(hand.obj, hand.value, {}) /\ TokenStored(hand.obj)
          /\ hand.obj.spec.vars \cap FromSecret # {} => hand.value = varCache
      BY <2>1 DEF RestInv, StepInv, Watched, WorkInv, Setting, ValuesSet
    <3>2. \A v \in o.spec.vars : v \in Plain \/ hand.value = varCache
      BY <1>1, <2>2, <3>1 DEF SpecVars
    <3>3. UNCHANGED <<tokenCache, tokenFresh, varCache>>
      BY <1>1 DEF InProject, Unread
    <3>4. TokenStored(o)'
      BY <2>2, <3>1, <3>3 DEF TokenStored
    <3>5. ValuesSet(o, varCache, {})
      BY <2>2, <3>1, <3>2 DEF ValuesSet, ValueFor
    <3> QED
      BY <2>1, <3>3, <3>4, <3>5 DEF ValuesSet
  <2> QED
    <3>1. "files" \in StepNames /\ pc \notin {"idle", "repoError"} /\ Unread
      BY <1>1, <2>1 DEF StepNames, InProject
    <3> QED
      BY <2>1, <2>2, <2>3, <2>4, <3>1, ContinueRest
<1> QED
  BY <1>2, <1>3, <1>4, <1>5, <1>6

(* Template files and deploy keys.                                          *)
LEMMA ContentsRest ==
    ASSUME TypeOK, RestInv,
           \/ CompareFiles \/ CreateCommit
           \/ CompareKeys \/ SetDeployKeys \/ RepoUpdated
           \/ \E t \in Titles : RemoveDeployKeys(t) \/ AddDeployKey(t)
           \/ \E x : (pc = "addKeys" /\ LoopFails(x)) \/ DeleteKeyFails(x)
    PROVE  RestInv'
<1>1. /\ hand \in Hand /\ hand.obj \in GitRepo /\ InFocus(hand.obj) /\ InProject
      /\ pc \in VarsSet /\ project \in Project
  BY Holdings
     DEF CompareFiles, CreateCommit, CompareKeys, SetDeployKeys, RepoUpdated,
         RemoveDeployKeys, AddDeployKey, LoopFails, DeleteKeyFails, VarsSet, RestInv,
         FocusInv, TypeOK
<1>2. project'.vars = project.vars
  <2>1. CASE CreateCommit
    <3>1. PICK fs : project' = [project EXCEPT !.files = fs] \/ project' = project
      BY <2>1 DEF CreateCommit
    <3> QED
      BY <1>1, <3>1 DEF Project
  <2>2. CASE \E t \in Titles : RemoveDeployKeys(t) \/ AddDeployKey(t)
    <3>1. PICK t \in Titles :
             \/ project' = [project EXCEPT !.keys = project.keys \ Titled(t)]
             \/ project' = [project EXCEPT !.keys = project.keys
                                                   \cup {k \in LocalKeys(obj) : k.title = t}]
      BY <2>2 DEF RemoveDeployKeys, AddDeployKey
    <3> QED
      BY <1>1, <3>1 DEF Project
  <2>3. CASE \E x : DeleteKeyFails(x)
    <3>1. PICK ks : project' = [project EXCEPT !.keys = project.keys \ ks]
      BY <2>3 DEF DeleteKeyFails
    <3> QED
      BY <1>1, <3>1 DEF Project
  <2>4. CASE CompareFiles \/ CompareKeys \/ SetDeployKeys \/ RepoUpdated \/ \E x : LoopFails(x)
    BY <2>4 DEF CompareFiles, CompareKeys, SetDeployKeys, RepoUpdated, LoopFails
  <2> QED
    BY <2>1, <2>2, <2>3, <2>4
<1>3. CASE RepoError
  <2>1. hand'.obj = hand.obj /\ pc' = "repoError"
    BY <1>1, <1>3, Holdings DEF RepoError
  <2> QED
    BY <1>1, <2>1, ReportRest DEF RestInv, FocusInv, InFocus, InProject, Unread
<1>4. CASE Continue("deployKeys", hand.obj) \/ Continue("status", hand.obj)
  <2>1. hand.obj.status.applied = hand.obj.spec.vars
    BY <1>1 DEF RestInv, StepInv
  <2>2. hand'.obj = hand.obj
    BY <1>1, <1>4, Holdings DEF Continue
  <2>3. PICK o \in GitRepo : o = hand.obj
    BY <1>1
  <2>4. ~queued /\ cacheFresh => TokenStored(o)' /\ ValuesSet(o, varCache, {})'
    BY <1>1, <1>2, <2>3 DEF RestInv, Watched, WorkInv, VarsSet, TokenStored, ValuesSet,
                            InProject, Unread
  <2>5. "deployKeys" \in StepNames /\ "status" \in StepNames /\ pc \notin {"idle", "repoError"}
    BY <1>1 DEF StepNames, VarsSet
  <2> QED
    BY <1>1, <1>4, <2>1, <2>3, <2>4, <2>5, ContinueRest DEF InProject
<1>5. CASE pc' \in VarsSet /\ hand'.obj = hand.obj
  BY <1>1, <1>2, <1>5, VarsSetRest DEF RestInv
<1>6. CASE CompareFiles \/ CreateCommit \/ RepoUpdated
  <2>1. CASE CompareFiles /\ pc' = "commit"
    <3>1. PICK todo : hand' = [hand EXCEPT !.todo = todo]
      BY <2>1, FromSkips DEF CompareFiles, Continue, StepNames
    <3> QED
      BY <1>1, <1>5, <2>1, <3>1 DEF Hand, VarsSet
  <2> QED
    BY <1>3, <1>4, <1>6, <2>1
       DEF CompareFiles, CreateCommit, RepoUpdated, ContinueUnlessFailed, obj
<1>7. CASE \/ CompareKeys \/ SetDeployKeys
           \/ \E t \in Titles : RemoveDeployKeys(t) \/ AddDeployKey(t)
           \/ \E x : (pc = "addKeys" /\ LoopFails(x)) \/ DeleteKeyFails(x)
  <2>1. pc' \in VarsSet
    BY <1>7 DEF CompareKeys, SetDeployKeys, RemoveDeployKeys, AddDeployKey, LoopFails,
                DeleteKeyFails, VarsSet
  <2>2. hand'.obj = hand.obj
    <3>1. CASE CompareKeys \/ SetDeployKeys
      <4>1. PICK a, b : hand' = [hand EXCEPT !.todo = a, !.delta = b]
        BY <3>1 DEF CompareKeys, SetDeployKeys
      <4> QED
        BY <1>1, <4>1 DEF Hand
    <3>2. CASE \/ \E t \in Titles : RemoveDeployKeys(t) \/ AddDeployKey(t)
               \/ \E x : LoopFails(x) \/ DeleteKeyFails(x)
      BY <3>2, Holdings DEF RemoveDeployKeys, AddDeployKey, LoopFails, DeleteKeyFails
    <3> QED
      BY <1>7, <3>1, <3>2
  <2> QED
    BY <1>5, <2>1, <2>2
<1> QED
  BY <1>6, <1>7

(* The ends of a reconciliation: without an error, everything was done, or  *)
(* the status is written, or another version of the GitRepo is stored.      *)
LEMMA EndRest ==
    ASSUME TypeOK, RestInv, HandleRepoError \/ UpdateStatus \/ CallFails \/ Crash
    PROVE  RestInv'
<1>1. /\ hand'.obj = NoGitRepo /\ InFocus(NoGitRepo)' /\ pc' = "idle"
      /\ focus' = focus /\ UNCHANGED <<project, varSecret>>
  <2>1. Idle
    BY DEF HandleRepoError, UpdateStatus, CallFails, Crash, EndOk, EndWithError
  <2> QED
    BY <2>1, NothingInFocus
       DEF Idle, HandleRepoError, UpdateStatus, CallFails, Crash, store
<1>2. StepInv'
  BY <1>1 DEF StepInv, Setting, VarsSet
<1>3. hand.obj \in GitRepo /\ gitRepo \in GitRepo
  BY Holdings DEF TypeOK
<1>4. FocusInv'
  <2>1. UNCHANGED gitRepo \/ gitRepo' = [gitRepo EXCEPT !.status = hand.obj.status]
    BY DEF HandleRepoError, UpdateStatus, CallFails, Crash, StoreStatus, store, obj
  <2>2. /\ [gitRepo EXCEPT !.status = hand.obj.status].spec = gitRepo.spec
        /\ [gitRepo EXCEPT !.status = hand.obj.status].status = hand.obj.status
    BY <1>3 DEF GitRepo
  <2>3. InFocus(gitRepo)'
    BY <1>1, <2>1, <2>2 DEF RestInv, FocusInv, InFocus
  <2>4. UNCHANGED cache \/ cache' = gitRepo
    BY DEF HandleRepoError, UpdateStatus, CallFails, Crash
  <2> QED
    BY <1>1, <2>3, <2>4 DEF RestInv, FocusInv, InFocus
<1>5. Watched'
  <2>1. CASE HandleRepoError \/ CallFails \/ Crash
    BY <2>1 DEF HandleRepoError, CallFails, Crash, EndWithError, Watched
  <2>2. CASE UpdateStatus
    <3>1. /\ pc = "status"
          /\ UNCHANGED <<queued, cache, tokenCache, tokenFresh, varCache, project>>
          /\ cacheFresh' => cacheFresh /\ (objFresh => hand.obj.status = gitRepo.status)
      BY <2>2 DEF UpdateStatus, EndOk, StoreStatus, obj
    <3>2. ~queued' /\ cacheFresh' => LeftInv'
      <4> SUFFICES ASSUME ~queued, cacheFresh' PROVE LeftInv'
        BY <3>1
      <4>1. /\ WorkInv /\ cache = gitRepo /\ hand.obj.status = cache.status
            /\ hand.obj.status.applied = hand.obj.spec.vars
        BY <3>1 DEF RestInv, Watched, WorkInv, StepInv, VarsSet, TypeOK
      <4>2. LeftInv
        BY <3>1, <4>1 DEF WorkInv, LeftInv, VarsSet, TokenStored, ValuesSet
      <4> QED
        BY <3>1, <4>2 DEF LeftInv, TokenStored, ValuesSet
    <3> QED
      BY <1>1, <3>2 DEF Watched
  <2> QED
    BY <2>1, <2>2
<1> QED
  BY <1>2, <1>4, <1>5 DEF RestInv

(* A call outside of the loops fails.                                       *)
LEMMA StepFailsRest == TypeOK /\ RestInv /\ StepFails => RestInv'
<1> SUFFICES ASSUME TypeOK, RestInv, StepFails PROVE RestInv'
  OBVIOUS
<1>1. hand'.obj = hand.obj /\ pc' = "repoError" /\ Unread
  BY Holdings DEF StepFails, RepoError
<1> QED
  BY <1>1, ReportRest DEF RestInv, FocusInv, InFocus, Unread

(* Events.  One about the values is passed on only when the cached spec     *)
(* refers to them; otherwise it makes no difference to what is in the cache.*)
LEMMA WatchesRest == TypeOK /\ RestInv /\ (Watches \/ Resync) => RestInv'
<1> SUFFICES ASSUME TypeOK, RestInv, Watches \/ Resync PROVE RestInv'
  OBVIOUS
<1>1. /\ UNCHANGED <<gitRepo, pc, hand, objFresh, project, focus>>
      /\ cache' \in {cache, gitRepo}
  BY DEF Watches, DeliverGitRepo, DeliverTokenSecret, DeliverVarSecret,
         DeliverKeySecret, Resync, store, worker
<1>2. FocusInv' /\ StepInv'
  BY <1>1 DEF RestInv, FocusInv, InFocus, StepInv, ValuesSet
<1>3. Watched'
  <2>1. CASE queued'
    BY <2>1 DEF Watched
  <2>2. CASE ~queued'
    <3>1. DeliverVarSecret
      BY <2>2 DEF Watches, DeliverGitRepo, DeliverTokenSecret, DeliverKeySecret, Resync
    <3>2. /\ ~queued /\ cache.spec.vars \cap FromSecret = {}
          /\ UNCHANGED <<cache, cacheFresh, tokenCache, tokenFresh>>
      BY <2>2, <3>1 DEF DeliverVarSecret
    <3>3. cache.spec.vars \subseteq Plain
      <4>1. cache.spec.vars \subseteq SpecVars
        BY GitRepoParts DEF TypeOK
      <4> QED
        BY <3>2, <4>1 DEF SpecVars
    <3>4. LeftInv => LeftInv'
      BY <1>1, <3>2, <3>3 DEF LeftInv, ValuesSet, ValueFor, TokenStored
    <3>5. WorkInv => WorkInv'
      BY <1>1, <3>2, <3>3 DEF WorkInv, ValuesSet, ValueFor, TokenStored
    <3> QED
      BY <1>1, <3>2, <3>4, <3>5 DEF RestInv, Watched
  <2> QED
    BY <2>1, <2>2
<1> QED
  BY <1>2, <1>3 DEF RestInv

(* What others do: they store other versions, or set and remove values.     *)
LEMMA EnvironmentRest == TypeOK /\ RestInv /\ Environment => RestInv'
<1> SUFFICES ASSUME TypeOK, RestInv, Environment PROVE RestInv'
  OBVIOUS
<1>1. UNCHANGED <<cache, tokenCache, varCache, queued, pc, hand, focus>>
  BY DEF Environment, EditSpec, EditVarSecret, DeleteTokenSecret, DeleteKeySecret,
         ForeignVariable, ForeignKey, ForeignFile, TokenEnds, ProjectReplaced,
         ChangeProject, Outside
<1>2. \A v \in SpecVars : project'.vars[v] \in {project.vars[v], "foreign", None}
  <2>1. project \in Project
    BY DEF TypeOK
  <2>2. \A v, w \in SpecVars \cup ForeignVars, c \in {"foreign", None} :
           [project EXCEPT !.vars[w] = c].vars[v] \in {project.vars[v], "foreign", None}
    BY <2>1 DEF Project
  <2>3. DOMAIN project.vars = SpecVars \cup ForeignVars
    BY <2>1 DEF Project
  <2>4. CASE ForeignVariable
    BY <2>2, <2>3, <2>4 DEF ForeignVariable, ChangeProject
  <2>5. CASE ForeignKey \/ ForeignFile \/ TokenEnds
    <3>1. PICK x, f : \/ project' = [project EXCEPT !.keys = x]
                      \/ project' = [project EXCEPT !.files[f] = x]
                      \/ project' = [project EXCEPT !.tokens = x]
      <4>1. CASE ForeignKey
        BY <4>1 DEF ForeignKey, ChangeProject
      <4>2. CASE ForeignFile
        BY <4>2 DEF ForeignFile, ChangeProject
      <4>3. CASE TokenEnds
        BY <4>3 DEF TokenEnds, ChangeProject
      <4> QED
        BY <2>5, <4>1, <4>2, <4>3
    <3>2. project'.vars = project.vars
      BY <2>1, <3>1 DEF Project
    <3> QED
      BY <3>2
  <2>6. CASE ProjectReplaced
    BY <2>6 DEF ProjectReplaced, ChangeProject, EmptyProject
  <2>7. CASE EditSpec \/ EditVarSecret \/ DeleteTokenSecret \/ \E g \in GenNames : DeleteKeySecret(g)
    BY <2>7 DEF EditSpec, EditVarSecret, DeleteTokenSecret, DeleteKeySecret
  <2> QED
    BY <2>4, <2>5, <2>6, <2>7 DEF Environment
<1>3. ASSUME NEW o \in GitRepo, NEW value, NEW rest, ValuesSet(o, value, rest)
      PROVE  \A v \in o.spec.vars \ rest :
                /\ v \in Plain \/ value # None
                /\ project'.vars[v] \in {ValueFor(v, value), "foreign", None}
  BY <1>2, <1>3, GitRepoParts DEF ValuesSet
<1>4. hand.obj \in GitRepo /\ cache \in GitRepo
  BY Holdings DEF TypeOK
<1>5. /\ ValuesSet(hand.obj, hand.value, hand.todo) => ValuesSet(hand.obj, hand.value, hand.todo)'
      /\ ValuesSet(hand.obj, varCache, {}) => ValuesSet(hand.obj, varCache, {})'
      /\ ValuesSet(cache, varCache, {}) => ValuesSet(cache, varCache, {})'
  <2>1. ValuesSet(hand.obj, hand.value, hand.todo) => ValuesSet(hand.obj, hand.value, hand.todo)'
    <3> SUFFICES ASSUME ValuesSet(hand.obj, hand.value, hand.todo)
                 PROVE  ValuesSet(hand.obj, hand.value, hand.todo)'
      OBVIOUS
    <3>1. \A v \in hand.obj.spec.vars \ hand.todo :
             /\ v \in Plain \/ hand.value # None
             /\ project'.vars[v] \in {ValueFor(v, hand.value), "foreign", None}
      BY <1>3, <1>4
    <3> QED
      BY <1>1, <3>1 DEF ValuesSet, ValueFor
  <2>2. ValuesSet(hand.obj, varCache, {}) => ValuesSet(hand.obj, varCache, {})'
    <3> SUFFICES ASSUME ValuesSet(hand.obj, varCache, {}) PROVE ValuesSet(hand.obj, varCache, {})'
      OBVIOUS
    <3>1. \A v \in hand.obj.spec.vars \ {} :
             /\ v \in Plain \/ varCache # None
             /\ project'.vars[v] \in {ValueFor(v, varCache), "foreign", None}
      BY <1>3, <1>4
    <3> QED
      BY <1>1, <3>1 DEF ValuesSet, ValueFor
  <2>3. ValuesSet(cache, varCache, {}) => ValuesSet(cache, varCache, {})'
    <3> SUFFICES ASSUME ValuesSet(cache, varCache, {}) PROVE ValuesSet(cache, varCache, {})'
      OBVIOUS
    <3>1. \A v \in cache.spec.vars \ {} :
             /\ v \in Plain \/ varCache # None
             /\ project'.vars[v] \in {ValueFor(v, varCache), "foreign", None}
      BY <1>3, <1>4
    <3> QED
      BY <1>1, <3>1 DEF ValuesSet, ValueFor
  <2> QED
    BY <2>1, <2>2, <2>3
<1>6. StepInv'
  BY <1>1, <1>5 DEF RestInv, StepInv
<1>7. FocusInv'
  <2>1. CASE EditSpec
    <3>1. PICK s \in GitRepoSpec(focus) : gitRepo' = [gitRepo EXCEPT !.spec = s]
      BY <2>1 DEF EditSpec
    <3>2. gitRepo'.spec = s /\ gitRepo'.status = gitRepo.status
      BY <3>1 DEF TypeOK, GitRepo
    <3>3. /\ SpecVars \cap focus = {} => s.vars = {}
          /\ Tokens \cap focus = {} => s.token = FALSE
      BY DEF GitRepoSpec
    <3> QED
      BY <1>1, <3>2, <3>3 DEF RestInv, FocusInv, InFocus
  <2>2. CASE ~EditSpec
    <3>1. UNCHANGED gitRepo
      BY <2>2 DEF Environment, EditVarSecret, DeleteTokenSecret, DeleteKeySecret,
         ForeignVariable, ForeignKey, ForeignFile, TokenEnds, ProjectReplaced,
         ChangeProject, store
    <3> QED
      BY <1>1, <3>1 DEF RestInv, FocusInv, InFocus
  <2> QED
    BY <2>1, <2>2
<1>8. Watched'
  <2>1. /\ cacheFresh' => cacheFresh /\ objFresh' = objFresh
        /\ tokenFresh' => tokenFresh
    BY DEF Environment, EditSpec, EditVarSecret, DeleteTokenSecret, DeleteKeySecret,
         ForeignVariable, ForeignKey, ForeignFile, TokenEnds, ProjectReplaced,
         ChangeProject, store
  <2> QED
    BY <1>1, <1>5, <2>1 DEF RestInv, Watched, LeftInv, WorkInv, TokenStored
<1> QED
  BY <1>6, <1>7, <1>8 DEF RestInv

(* When nothing about them is queued or on its way to the operator, the     *)
(* status names the variables of the spec, the project shows no outdated    *)
(* value, and a token that was asked for is stored: for all variables,      *)
(* values, keys, tokens and files, and whatever each behaviour is about,    *)
(* with outdated caches, swallowed conflicts (updateObject), an index over  *)
(* cached specs (SecretGitRepoCIVariablesMapFunc), failures and crashes.    *)
THEOREM NoWorkIsLost == Spec => []AtRestInStep
<1>1. Init => RestInv
  <2> SUFFICES ASSUME Init PROVE RestInv
    OBVIOUS
  <2>1. PICK s \in GitRepoSpec(focus) : gitRepo = NewGitRepo(s)
    BY DEF Init
  <2>2. InFocus(gitRepo)
    <3>1. /\ SpecVars \cap focus = {} => s.vars = {}
          /\ Tokens \cap focus = {} => s.token = FALSE
      BY DEF GitRepoSpec
    <3> QED
      BY <2>1, <3>1 DEF NewGitRepo, InFocus
  <2>3. InFocus(hand.obj)
    <3>1. NoGitRepo.spec.vars = {} /\ NoGitRepo.spec.token = FALSE
          /\ NoGitRepo.status.applied = {}
      BY NothingAsked
    <3> QED
      BY <3>1 DEF Init, NoHand, InFocus
  <2> QED
    BY <2>2, <2>3 DEF Init, RestInv, FocusInv, StepInv, Watched, Setting, VarsSet
<1>2. ASSUME TypeOK, RestInv, [Next]_vars PROVE RestInv'
  <2>1. CASE Start \/ Watches \/ Resync
    BY <1>2, <2>1, StartRest, WatchesRest
  <2>2. CASE Reconcile
    BY <1>2, <2>2, GenerateRest, TokenRest, VariablesRest, ContentsRest, EndRest DEF Reconcile
  <2>3. CASE Fault
    <3>1. ASSUME NEW x, LoopFails(x) PROVE RestInv'
      BY <1>2, <3>1, GenerateRest, VariablesRest, ContentsRest DEF LoopFails, Setting
    <3> QED
      BY <1>2, <2>3, <3>1, StepFailsRest, EndRest, ContentsRest DEF Fault
  <2>4. CASE Environment
    BY <1>2, <2>4, EnvironmentRest
  <2>5. CASE UNCHANGED vars
    BY <1>2, <2>5 DEF vars, store, informer, worker, RestInv, FocusInv, InFocus, StepInv,
                      Watched, LeftInv, WorkInv, TokenStored, ValuesSet
  <2> QED
    BY <1>2, <2>1, <2>2, <2>3, <2>4, <2>5 DEF Next, Operator
<1>3. TypeOK /\ RestInv => AtRestInStep
  BY DEF TypeOK, RestInv, Watched, LeftInv, ValuesSet, TokenStored, Available,
         AtRestInStep, AtRest
<1> QED
  BY <1>1, <1>2, <1>3, InitType, NextType, PTL DEF Spec
=============================================================================
