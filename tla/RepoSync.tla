------------------------------ MODULE RepoSync ------------------------------
(***************************************************************************)
(* What the GitRepo controller keeps inside a project that exists and that *)
(* the GitRepo manages (GitRepoLifecycle is about the project itself):     *)
(* generated deploy keys with their secrets, the project access token with *)
(* its secret, CI variables, template files, deploy keys.  These are       *)
(* ensureGeneratedDeployKeys to repo.Update in controllers/gitrepo/        *)
(* steps.go with git/gitlab/gitlab.go, in this order.  A behaviour is      *)
(* about some of the content (focus) and passes by the steps of the rest.  *)
(*                                                                         *)
(* GitRepo and secrets are read from informer caches.  Writes of the       *)
(* GitRepo and of the token's secret need the stored resourceVersion       *)
(* (cacheFresh, objFresh, tokenFresh, held); GitLab checks no versions.    *)
(* One action is one call to the API server or GitLab.  A call whose       *)
(* answer is lost is a call that worked with a Crash behind it.            *)
(***************************************************************************)
EXTENDS Naturals, FiniteSets, Sequences

CONSTANTS
    Plain,        \* CI variables with a value
    FromSecret,   \* CI variables with valueFrom, all from one secret
    ForeignVars,  \* CI variables that others set in GitLab, under any name
    Values,       \* contents of that secret
    GenNames,     \* names of spec.generatedDeployKeys
    OwnKeys,      \* names of spec.deployKeys
    ForeignKeys,  \* titles of deploy keys that others add in GitLab
    MaxDrops,     \* bound: how often users drop a generated key or its secret
    Tokens,       \* access tokens that GitLab issues
    Files,        \* names in spec.templateFiles
    NestedFiles,  \* those with a directory in their name
    Focuses,      \* bound: which of all these are touched in one behaviour
    None

SpecVars == Plain \cup FromSecret

OwnTitles == GenNames \cup OwnKeys

Titles == OwnTitles \cup ForeignKeys

Everything == SpecVars \cup ForeignVars \cup Values \cup Titles \cup Tokens \cup Files

ASSUME SyncAssumption ==
    /\ MaxDrops \in Nat /\ IsFiniteSet(GenNames) /\ NestedFiles \subseteq Files
    /\ Focuses \subseteq SUBSET Everything /\ Focuses # {}
    /\ None \notin Tokens \cup Values /\ {"plain", "foreign"} \cap Values = {}

VARIABLES
    gitRepo,      \* the stored objects
    keySecret,
    tokenSecret,
    varSecret,
    generated,    \* counted: keys that were generated, and
    drops,        \* how often users dropped one or its secret
    project,      \* what is in the GitLab project
    cache,        \* the informers' copies
    keyCache,
    tokenCache,
    varCache,
    cacheFresh,   \* does the copy carry the stored resourceVersion
    tokenFresh,
    queued,       \* is the GitRepo in the queue of the controller
    pc,           \* what Reconcile does next
    hand,         \* what it holds
    objFresh,     \* does its copy carry the stored resourceVersion
    held,         \* does its copy of the token's secret
    focus         \* what this behaviour is about

store    == <<gitRepo, keySecret, tokenSecret, varSecret, generated, drops>>
informer == <<cache, keyCache, tokenCache, varCache, cacheFresh, tokenFresh, queued>>
worker   == <<pc, hand, objFresh, held>>
vars     == <<store, project, informer, worker, focus>>

-----------------------------------------------------------------------------
Contents == Values \cup {None, "plain", "foreign"}

(* A generated key is a number; 0 is no key, and the content of the others. *)
Keys == Nat

DeployKey == [title : Titles, key : Keys]

GitRepoSpec(touched) ==
    [vars  : SUBSET (SpecVars \cap touched),
     gens  : SUBSET (GenNames \cap touched),
     keys  : SUBSET (OwnKeys \cap touched),
     token : IF Tokens \cap touched = {} THEN {FALSE} ELSE BOOLEAN,
     files : {fs \in [Files -> {"absent", "content", "delete"}] :
                \A f \in Files \ touched : fs[f] = "absent"}]

(* applied: the names in lastAppliedCIVariables; keys: generatedDeployKeys. *)
Status == [applied : SUBSET SpecVars, keys : [GenNames -> Keys]]

GitRepo == [spec : GitRepoSpec(Everything), status : Status]

Project == [vars : [SpecVars \cup ForeignVars -> Contents], keys : SUBSET DeployKey,
            tokens : SUBSET Tokens,    \* those GitLab accepts
            files : [Files -> {"none", "ours", "foreign"}]]

EmptyProject == [vars |-> [v \in SpecVars \cup ForeignVars |-> None], keys |-> {},
                 tokens |-> {}, files |-> [f \in Files |-> "none"]]

NoKeys == [g \in GenNames |-> 0]

NewGitRepo(s) == [spec |-> s, status |-> [applied |-> {}, keys |-> NoKeys]]

(* todo: what a loop has yet to do; failed: the errors it collected.        *)
Hand == [obj : GitRepo,
         todo : SUBSET (SpecVars \cup Titles \cup Files),
         delta : SUBSET OwnTitles, failed : BOOLEAN,
         minted : Tokens \cup {None}, value : Values \cup {None}]

NoGitRepo == NewGitRepo(CHOOSE s \in GitRepoSpec({}) : TRUE)

NoHand == [obj |-> NoGitRepo, todo |-> {}, delta |-> {}, failed |-> FALSE,
           minted |-> None, value |-> None]

TypeOK ==
    /\ gitRepo \in GitRepo /\ cache \in GitRepo
    /\ keySecret \in [GenNames -> Keys] /\ keyCache \in [GenNames -> Keys]
    /\ {tokenSecret, tokenCache} \subseteq Tokens \cup {None}
    /\ {varSecret, varCache} \subseteq Values \cup {None}
    /\ project \in Project /\ generated \in Keys /\ drops \in 0..MaxDrops /\ focus \in Focuses
    /\ {cacheFresh, tokenFresh, queued, objFresh} \subseteq BOOLEAN
    /\ pc \in {"idle", "generate", "token", "storeToken", "variables", "removeVars",
               "setVars", "files", "commit", "deployKeys", "removeKeys", "addKeys",
               "repoError", "status"}
    /\ hand \in Hand /\ held \in {"absent", "fresh", "stale"}
    \* a copy with the stored resourceVersion is a copy of what is stored
    /\ cacheFresh => cache = gitRepo
    /\ tokenFresh => tokenCache = tokenSecret
    /\ objFresh => hand.obj.spec = gitRepo.spec

(* The GitRepo has its project and starts to use what is in focus.          *)
Init ==
    /\ focus \in Focuses
    /\ \E s \in GitRepoSpec(focus) : gitRepo = NewGitRepo(s)
    /\ keySecret = NoKeys /\ tokenSecret = None /\ varSecret = None
    /\ generated = 0 /\ drops = 0
    /\ project = EmptyProject
    /\ cache = gitRepo /\ keyCache = NoKeys /\ tokenCache = None /\ varCache = None
    /\ cacheFresh = TRUE /\ tokenFresh = TRUE /\ queued = TRUE
    /\ pc = "idle" /\ hand = NoHand /\ objFresh = FALSE /\ held = "stale"

-----------------------------------------------------------------------------
(* The rest of the status (phase, url) may change as well.                  *)
StoreStatus ==
    \/ ~objFresh /\ UNCHANGED <<gitRepo, cacheFresh>>
    \/ objFresh /\ gitRepo' = [gitRepo EXCEPT !.status = hand.obj.status] /\ cacheFresh' = FALSE
    \/ objFresh /\ hand.obj.status = gitRepo.status /\ UNCHANGED <<gitRepo, cacheFresh>>

Idle == pc' = "idle" /\ hand' = NoHand /\ objFresh' = FALSE /\ held' = "stale"

(* No error: RequeueAfter, which is the action Resync.                      *)
EndOk == Idle /\ UNCHANGED queued

EndWithError == Idle /\ queued' = TRUE

Unread == UNCHANGED <<gitRepo, varSecret, cache, keyCache, tokenCache, varCache,
                      cacheFresh, queued, objFresh, drops, focus>>

(* What a step leaves alone that only works on the project.                 *)
InProject == Unread /\ UNCHANGED <<keySecret, tokenSecret, generated, tokenFresh, held>>

obj == hand.obj

Steps == <<"generate", "token", "variables", "files", "deployKeys", "status">>

WorksOn == [generate |-> GenNames, token |-> Tokens, variables |-> SpecVars,
            files |-> Files, deployKeys |-> Titles]

(* The next step that is in focus.                                          *)
From(step) ==
    LET ahead == {n \in 1..Len(Steps) :
                    /\ \E m \in 1..n : Steps[m] = step
                    /\ n = Len(Steps) \/ WorksOn[Steps[n]] \cap focus # {}}
    IN Steps[CHOOSE n \in ahead : \A m \in ahead : n <= m]

Hold(o) == hand' = [NoHand EXCEPT !.obj = o]

(* Continue with nothing in hand but the object, or report an error.        *)
Continue(step, o) == pc' = From(step) /\ Hold(o)

RepoError == pc' = "repoError" /\ Hold(obj)

ContinueUnlessFailed(step, o) == IF hand.failed THEN RepoError ELSE Continue(step, o)

(* One turn of a loop is over.                                              *)
Done(x) == [hand EXCEPT !.todo = @ \ {x}]

Failed(x) == [Done(x) EXCEPT !.failed = TRUE]

-----------------------------------------------------------------------------
(* ensureGeneratedDeployKeys.                                               *)

NoLongerWanted(o) == {g \in GenNames : o.status.keys[g] # 0} \ o.spec.gens

(* Mutant: the copy that was read is taken for the one that is stored.      *)
StartUnchecked ==
    /\ pc = "idle" /\ queued /\ queued' = FALSE
    /\ pc' = From("generate") /\ objFresh' = TRUE
    /\ hand' = [NoHand EXCEPT !.obj = cache,
                              !.todo = NoLongerWanted(cache) \cup cache.spec.gens]
    /\ UNCHANGED <<store, project, cache, keyCache, tokenCache, varCache,
                   cacheFresh, tokenFresh, held, focus>>

Start ==
    /\ pc = "idle" /\ queued /\ queued' = FALSE
    /\ pc' = From("generate") /\ objFresh' = cacheFresh
    /\ hand' = [NoHand EXCEPT !.obj = cache,
                              !.todo = NoLongerWanted(cache) \cup cache.spec.gens]
    /\ UNCHANGED <<store, project, cache, keyCache, tokenCache, varCache,
                   cacheFresh, tokenFresh, held, focus>>

(* A secret that is not found is an error, and the key stays in the status. *)
DropGeneratedKey(g) ==
    /\ pc = "generate" /\ g \in hand.todo \ obj.spec.gens
    /\ IF keyCache[g] # 0 /\ keySecret[g] # 0
       THEN /\ keySecret' = [keySecret EXCEPT ![g] = 0]
            /\ hand' = [Done(g) EXCEPT !.obj.status.keys[g] = 0]
       ELSE hand' = Failed(g) /\ UNCHANGED keySecret
    /\ Unread /\ UNCHANGED <<tokenSecret, generated, project, tokenFresh, pc, held>>

(* Mutant: the key in the status is kept once there is one.                 *)
EnsureGeneratedKeyOnce(g) ==
    /\ pc = "generate" /\ g \in hand.todo /\ hand.todo \subseteq obj.spec.gens
    /\ \/ /\ keyCache[g] # 0
          /\ hand' = [Done(g) EXCEPT !.obj.status.keys[g] = IF @ = 0 THEN keyCache[g] ELSE @]
          /\ UNCHANGED <<keySecret, generated>>
       \/ /\ keyCache[g] = 0 /\ keySecret[g] = 0
          /\ generated' = generated + 1
          /\ keySecret' = [keySecret EXCEPT ![g] = generated']
          /\ hand' = [Done(g) EXCEPT !.obj.status.keys[g] = IF @ = 0 THEN generated' ELSE @]
       \/ /\ keyCache[g] = 0 /\ keySecret[g] # 0
          /\ hand' = Failed(g) /\ UNCHANGED <<keySecret, generated>>
    /\ Unread /\ UNCHANGED <<tokenSecret, project, tokenFresh, pc, held>>

(* A key is generated when the cache has no secret; Create fails when there *)
(* is one.                                                                  *)
EnsureGeneratedKey(g) ==
    /\ pc = "generate" /\ g \in hand.todo /\ hand.todo \subseteq obj.spec.gens
    /\ \/ /\ keyCache[g] # 0
          /\ hand' = [Done(g) EXCEPT !.obj.status.keys[g] = keyCache[g]]
          /\ UNCHANGED <<keySecret, generated>>
       \/ /\ keyCache[g] = 0 /\ keySecret[g] = 0
          /\ generated' = generated + 1
          /\ keySecret' = [keySecret EXCEPT ![g] = generated']
          /\ hand' = [Done(g) EXCEPT !.obj.status.keys[g] = generated']
       \/ /\ keyCache[g] = 0 /\ keySecret[g] # 0
          /\ hand' = Failed(g) /\ UNCHANGED <<keySecret, generated>>
    /\ Unread /\ UNCHANGED <<tokenSecret, project, tokenFresh, pc, held>>

(* Both loops are over; with the client the set of deploy keys is fixed.    *)
GetGitClient ==
    /\ pc = "generate" /\ hand.todo = {}
    /\ ContinueUnlessFailed("token", obj)
    /\ InProject /\ UNCHANGED project

(* Status and spec; under one title the key of the spec counts.             *)
LocalKeys(o) ==
    {[title |-> g, key |-> o.status.keys[g]] :
        g \in {h \in GenNames \ o.spec.keys : o.status.keys[h] # 0}}
    \cup {[title |-> k, key |-> 0] : k \in o.spec.keys}

-----------------------------------------------------------------------------
(* ensureAccessToken, by CreateOrUpdate.                                    *)

(* Mutant: a token that the secret names is trusted.                        *)
EnsureAccessTokenOnce ==
    /\ pc = "token"
    /\ \/ /\ ~obj.spec.token \/ tokenCache # None
          /\ Continue("variables", obj) /\ UNCHANGED <<project, held>>
       \/ /\ obj.spec.token /\ tokenCache = None
          /\ \E t \in (Tokens \cap focus) \ {tokenSecret, tokenCache} :
                /\ project' = [project EXCEPT !.tokens = @ \cup {t}]
                /\ hand' = [hand EXCEPT !.minted = t]
          /\ held' = "absent" /\ pc' = "storeToken"
    /\ Unread /\ UNCHANGED <<keySecret, tokenSecret, generated, tokenFresh>>

(* EnsureProjectAccessToken: the token of the annotation if GitLab still    *)
(* accepts it, or a new one, whose name no copy holds.                      *)
EnsureAccessToken ==
    /\ pc = "token"
    /\ \/ /\ ~obj.spec.token \/ tokenCache \in project.tokens
          /\ Continue("variables", obj) /\ UNCHANGED <<project, held>>
       \/ /\ obj.spec.token /\ tokenCache \notin project.tokens
          /\ \E t \in (Tokens \cap focus) \ {tokenSecret, tokenCache} :
                /\ project' = [project EXCEPT !.tokens = @ \cup {t}]
                /\ hand' = [hand EXCEPT !.minted = t]
          /\ held' = IF tokenCache = None THEN "absent"
                     ELSE IF tokenFresh THEN "fresh" ELSE "stale"
          /\ pc' = "storeToken"
    /\ Unread /\ UNCHANGED <<keySecret, tokenSecret, generated, tokenFresh>>

(* Mutant: the secret is patched, whatever version is stored.               *)
StoreTokenBlindly ==
    /\ pc = "storeToken" /\ held' = "stale"
    /\ tokenSecret' = hand.minted /\ tokenFresh' = FALSE
    /\ Continue("variables", obj)
    /\ Unread /\ UNCHANGED <<keySecret, generated, project>>

(* Create, or Update of the version that was read before.                   *)
StoreToken ==
    /\ pc = "storeToken" /\ held' = "stale"
    /\ LET allowed == held = "fresh" \/ (held = "absent" /\ tokenSecret = None) IN
       \/ /\ allowed
          /\ tokenSecret' = hand.minted /\ tokenFresh' = FALSE
          /\ Continue("variables", obj)
       \/ /\ ~allowed
          /\ RepoError /\ UNCHANGED <<tokenSecret, tokenFresh>>
    /\ Unread /\ UNCHANGED <<keySecret, generated, project>>

-----------------------------------------------------------------------------
(* ensureCIVariables.                                                       *)

(* Nothing is set when one value is missing.                                *)
EnsureCIVariables ==
    /\ pc = "variables"
    /\ IF obj.spec.vars \cap FromSecret # {} /\ varCache = None
       THEN RepoError
       ELSE /\ pc' = "removeVars"
            /\ hand' = [hand EXCEPT !.todo = obj.status.applied \ obj.spec.vars,
                                    !.value = varCache]
    /\ InProject /\ UNCHANGED project

ValueFor(v, secret) == IF v \in Plain THEN "plain" ELSE secret

RemoveVariable(v) ==
    /\ pc = "removeVars" /\ v \in hand.todo
    /\ project' = [project EXCEPT !.vars[v] = None]
    /\ hand' = Done(v)
    /\ InProject /\ UNCHANGED pc

(* Mutant: what is not in the spec is taken for managed.                    *)
ListVariablesAndTidy ==
    /\ pc = "removeVars" /\ hand.todo = {} /\ pc' = "setVars"
    /\ project' = [project EXCEPT !.vars = [v \in DOMAIN @ |->
                      IF v \in obj.spec.vars THEN @[v] ELSE None]]
    /\ hand' = [hand EXCEPT !.todo =
                   {v \in obj.spec.vars : project.vars[v] # ValueFor(v, hand.value)}]
    /\ InProject

(* Mutant: a variable that exists is left as it is.                         *)
ListVariablesNew ==
    /\ pc = "removeVars" /\ hand.todo = {} /\ pc' = "setVars"
    /\ hand' = [hand EXCEPT !.todo = {v \in obj.spec.vars : project.vars[v] = None}]
    /\ InProject /\ UNCHANGED project

(* varNeedsUpdate.                                                          *)
ListVariables ==
    /\ pc = "removeVars" /\ hand.todo = {} /\ pc' = "setVars"
    /\ hand' = [hand EXCEPT !.todo =
                   {v \in obj.spec.vars : project.vars[v] # ValueFor(v, hand.value)}]
    /\ InProject /\ UNCHANGED project

(* updateOrCreateCIVariable: update, or create when there is none.          *)
SetVariable(v) ==
    /\ pc = "setVars" /\ v \in hand.todo
    /\ project' = [project EXCEPT !.vars[v] = ValueFor(v, hand.value)]
    /\ hand' = Done(v)
    /\ InProject /\ UNCHANGED pc

(* Mutant: what was applied before is forgotten although a call failed.     *)
RecordAppliedAnyway ==
    /\ pc = "setVars" /\ hand.todo = {}
    /\ LET recorded == [obj EXCEPT !.status.applied = obj.spec.vars] IN
       IF hand.failed THEN pc' = "repoError" /\ Hold(recorded)
                      ELSE Continue("files", recorded)
    /\ InProject /\ UNCHANGED project

RecordApplied ==
    /\ pc = "setVars" /\ hand.todo = {}
    /\ ContinueUnlessFailed("files", [obj EXCEPT !.status.applied = obj.spec.vars])
    /\ InProject /\ UNCHANGED project

-----------------------------------------------------------------------------
(* CommitTemplateFiles.                                                     *)

(* ListTree is not recursive.                                               *)
Listed == {f \in Files \ NestedFiles : project.files[f] # "none"}

(* Mutant: files are compared by the ones that are asked for only.          *)
CompareFilesWanted ==
    /\ pc = "files"
    /\ LET pending == {f \in Files \ Listed : obj.spec.files[f] = "content"} IN
       IF pending = {} THEN Continue("deployKeys", obj)
       ELSE pc' = "commit" /\ hand' = [hand EXCEPT !.todo = pending]
    /\ InProject /\ UNCHANGED project

CompareFiles ==
    /\ pc = "files"
    /\ LET pending == {f \in Files : IF f \in Listed THEN obj.spec.files[f] = "delete"
                                                     ELSE obj.spec.files[f] = "content"} IN
       IF pending = {} THEN Continue("deployKeys", obj)
       ELSE pc' = "commit" /\ hand' = [hand EXCEPT !.todo = pending]
    /\ InProject /\ UNCHANGED project

(* One commit, which creates files that must not exist and deletes files    *)
(* that must.                                                               *)
CreateCommit ==
    /\ pc = "commit"
    /\ IF \A f \in hand.todo : (project.files[f] = "none") = (obj.spec.files[f] = "content")
       THEN /\ project' = [project EXCEPT !.files = [f \in Files |->
                  IF f \notin hand.todo THEN @[f]
                  ELSE IF obj.spec.files[f] = "delete" THEN "none" ELSE "ours"]]
            /\ Continue("deployKeys", obj)
       ELSE RepoError /\ UNCHANGED project
    /\ InProject

-----------------------------------------------------------------------------
(* updateDeployKeys.                                                        *)

TitlesOf(ks) == {k.title : k \in ks}

Titled(t) == {k \in project.keys : k.title = t}

(* getDeployKeys, a map: of several keys with one title one is seen.        *)
Seen == {ks \in SUBSET project.keys :
           /\ TitlesOf(ks) = TitlesOf(project.keys)
           /\ \A k, l \in ks : k.title = l.title => k = l}

(* CompareKeys both ways.                                                   *)
CompareKeys ==
    /\ pc = "deployKeys" /\ pc' = "removeKeys"
    /\ \E remote \in Seen :
          hand' = [hand EXCEPT !.todo  = TitlesOf(remote \ LocalKeys(obj)),
                               !.delta = TitlesOf(LocalKeys(obj) \ remote)]
    /\ InProject /\ UNCHANGED project

RemoveDeployKeys(t) ==
    /\ pc = "removeKeys" /\ t \in hand.todo
    /\ project' = [project EXCEPT !.keys = @ \ Titled(t)]
    /\ hand' = Done(t)
    /\ InProject /\ UNCHANGED pc

SetDeployKeys ==
    /\ pc = "removeKeys" /\ hand.todo = {} /\ pc' = "addKeys"
    /\ hand' = [hand EXCEPT !.todo = hand.delta, !.delta = {}]
    /\ InProject /\ UNCHANGED project

AddDeployKey(t) ==
    /\ pc = "addKeys" /\ t \in hand.todo
    /\ project' = [project EXCEPT !.keys = @ \cup {k \in LocalKeys(obj) : k.title = t}]
    /\ hand' = Done(t)
    /\ InProject /\ UNCHANGED pc

(* The end of steps.                                                        *)
RepoUpdated ==
    /\ pc = "addKeys" /\ hand.todo = {}
    /\ ContinueUnlessFailed("status", obj)
    /\ InProject /\ UNCHANGED project

-----------------------------------------------------------------------------
(* handleRepoError, and the status update of pipeline.Common, whose         *)
(* conflict is swallowed, and which is left out when the status is the one  *)
(* that was read.  Finalizer and annotation are there already.              *)

HandleRepoError ==
    /\ pc = "repoError"
    /\ StoreStatus /\ EndWithError
    /\ UNCHANGED <<keySecret, tokenSecret, varSecret, generated, drops, project, cache,
                   keyCache, tokenCache, varCache, tokenFresh, focus>>

UpdateStatus ==
    /\ pc = "status"
    /\ StoreStatus /\ EndOk
    /\ UNCHANGED <<keySecret, tokenSecret, varSecret, generated, drops, project, cache,
                   keyCache, tokenCache, varCache, tokenFresh, focus>>

-----------------------------------------------------------------------------
(* The watches of SetupWithManager, and the timer of RequeueAfter.          *)

DeliverGitRepo ==
    /\ ~cacheFresh
    /\ cache' = gitRepo /\ cacheFresh' = TRUE /\ queued' = TRUE
    /\ UNCHANGED <<store, project, keyCache, tokenCache, varCache, tokenFresh,
                   worker, focus>>

DeliverKeySecret(g) ==
    /\ keyCache[g] # keySecret[g]
    /\ keyCache' = [keyCache EXCEPT ![g] = keySecret[g]] /\ queued' = TRUE
    /\ UNCHANGED <<store, project, cache, tokenCache, varCache, cacheFresh, tokenFresh,
                   worker, focus>>

DeliverTokenSecret ==
    /\ ~tokenFresh
    /\ tokenCache' = tokenSecret /\ tokenFresh' = TRUE /\ queued' = TRUE
    /\ UNCHANGED <<store, project, cache, keyCache, varCache, cacheFresh, worker, focus>>

(* Mutant: only a secret that is new is told of.                            *)
DeliverVarSecretOnCreate ==
    /\ varCache # varSecret
    /\ varCache' = varSecret
    /\ queued' = (queued \/ (varCache = None /\ cache.spec.vars \cap FromSecret # {}))
    /\ UNCHANGED <<store, project, cache, keyCache, tokenCache, cacheFresh, tokenFresh,
                   worker, focus>>

(* Only a GitRepo that, by the index over the cache, refers to the secret.  *)
DeliverVarSecret ==
    /\ varCache # varSecret
    /\ varCache' = varSecret
    /\ queued' = (queued \/ cache.spec.vars \cap FromSecret # {})
    /\ UNCHANGED <<store, project, cache, keyCache, tokenCache, cacheFresh, tokenFresh,
                   worker, focus>>

(* During a reconciliation it would do what it does right after.            *)
Resync ==
    /\ pc = "idle" /\ ~queued /\ queued' = TRUE
    /\ UNCHANGED <<store, project, cache, keyCache, tokenCache, varCache, cacheFresh,
                   tokenFresh, worker, focus>>

-----------------------------------------------------------------------------
(* Failures.                                                                *)

(* No client, GitLab does not answer Read, or the status is not stored.     *)
CallFails ==
    /\ pc \in {"token", "repoError", "status"}
    /\ EndWithError
    /\ UNCHANGED <<store, project, cache, keyCache, tokenCache, varCache, cacheFresh,
                   tokenFresh, focus>>

(* A call outside of the loops fails, with "status" standing for the steps  *)
(* passed by and for updateDisplayName: the error is stored in the status.  *)
StepFails ==
    /\ \/ pc \in {"token", "storeToken", "files", "commit", "deployKeys", "status"}
       \/ pc = "removeVars" /\ hand.todo = {}
    /\ RepoError /\ held' = "stale"
    /\ Unread /\ UNCHANGED <<keySecret, tokenSecret, generated, project, tokenFresh>>

(* A call in a loop fails: the loops go on and report it at the end.        *)
LoopFails(x) ==
    /\ pc \in {"generate", "removeVars", "setVars", "addKeys"} /\ x \in hand.todo
    /\ hand' = Failed(x)
    /\ InProject /\ UNCHANGED <<project, pc>>

(* deleteKey only logs that it failed.                                      *)
DeleteKeyFails(t) ==
    /\ pc = "removeKeys" /\ t \in hand.todo
    /\ \E ks \in SUBSET Titled(t) \ {Titled(t)} :
          project' = [project EXCEPT !.keys = @ \ ks]
    /\ hand' = Done(t)
    /\ InProject /\ UNCHANGED pc

(* The operator stops and starts again with synchronised caches.            *)
Crash ==
    /\ Idle /\ queued' = TRUE
    /\ cache' = gitRepo /\ keyCache' = keySecret /\ tokenCache' = tokenSecret
    /\ varCache' = varSecret /\ cacheFresh' = TRUE /\ tokenFresh' = TRUE
    /\ UNCHANGED <<store, project, focus>>

-----------------------------------------------------------------------------
(* Users, the owner of the GitRepo, and others in GitLab.                   *)

Outside == UNCHANGED <<generated, cache, keyCache, tokenCache, varCache, queued,
                       pc, hand, focus>>

EditSpec ==
    /\ \E s \in GitRepoSpec(focus) \ {gitRepo.spec} :
          /\ drops' = drops + Cardinality(gitRepo.spec.gens \ s.gens)
          /\ gitRepo' = [gitRepo EXCEPT !.spec = s]
    /\ drops' <= MaxDrops /\ cacheFresh' = FALSE /\ objFresh' = FALSE
    /\ Outside /\ UNCHANGED <<keySecret, tokenSecret, varSecret, project,
                              tokenFresh, held>>

DeleteKeySecret(g) ==
    /\ keySecret[g] # 0 /\ drops < MaxDrops /\ drops' = drops + 1
    /\ keySecret' = [keySecret EXCEPT ![g] = 0]
    /\ Outside /\ UNCHANGED <<gitRepo, tokenSecret, varSecret, project,
                              cacheFresh, tokenFresh, objFresh, held>>

DeleteTokenSecret ==
    /\ tokenSecret # None
    /\ tokenSecret' = None /\ tokenFresh' = FALSE
    /\ held' = IF held = "fresh" THEN "stale" ELSE held
    /\ Outside /\ UNCHANGED <<gitRepo, keySecret, varSecret, drops, project,
                              cacheFresh, objFresh>>

EditVarSecret ==
    /\ varSecret' \in ((Values \cap focus) \cup {None}) \ {varSecret}
    /\ Outside /\ UNCHANGED <<gitRepo, keySecret, tokenSecret, drops, project,
                              cacheFresh, tokenFresh, objFresh, held>>

ChangeProject(p) ==
    /\ p # project /\ project' = p
    /\ Outside /\ UNCHANGED <<store, cacheFresh, tokenFresh, objFresh, held>>

ForeignVariable ==
    \/ \E v \in ForeignVars \cap focus :
          ChangeProject([project EXCEPT !.vars[v] = "foreign"])
    \/ \E v \in DOMAIN project.vars : ChangeProject([project EXCEPT !.vars[v] = None])

ForeignKey ==
    \/ \E t \in ForeignKeys \cap focus :
          ChangeProject([project EXCEPT !.keys = @ \cup {[title |-> t, key |-> 0]}])
    \/ \E k \in project.keys : ChangeProject([project EXCEPT !.keys = @ \ {k}])

ForeignFile ==
    \E f \in Files \cap focus, x \in {"none", "foreign"} :
        ChangeProject([project EXCEPT !.files[f] = x])

(* A token expires or is revoked.                                           *)
TokenEnds ==
    \E t \in project.tokens : ChangeProject([project EXCEPT !.tokens = @ \ {t}])

(* The project was deleted, and created again by GitRepoLifecycle's steps.  *)
ProjectReplaced == pc = "idle" /\ ChangeProject(EmptyProject)

-----------------------------------------------------------------------------
Reconcile ==
    \/ \E g \in GenNames : DropGeneratedKey(g) \/ EnsureGeneratedKey(g)
    \/ GetGitClient \/ EnsureAccessToken \/ StoreToken
    \/ EnsureCIVariables \/ ListVariables \/ RecordApplied
    \/ \E v \in SpecVars : RemoveVariable(v) \/ SetVariable(v)
    \/ CompareFiles \/ CreateCommit
    \/ CompareKeys \/ SetDeployKeys \/ RepoUpdated
    \/ \E t \in Titles : RemoveDeployKeys(t) \/ AddDeployKey(t)
    \/ HandleRepoError \/ UpdateStatus

Watches ==
    \/ DeliverGitRepo \/ DeliverTokenSecret \/ DeliverVarSecret
    \/ \E g \in GenNames : DeliverKeySecret(g)

Operator == Start \/ Reconcile \/ Watches \/ Resync

Fault ==
    \/ CallFails \/ StepFails \/ Crash
    \/ \E x \in hand.todo : LoopFails(x) \/ DeleteKeyFails(x)

Environment ==
    \/ EditSpec \/ EditVarSecret \/ DeleteTokenSecret
    \/ \E g \in GenNames : DeleteKeySecret(g)
    \/ ForeignVariable \/ ForeignKey \/ ForeignFile \/ TokenEnds \/ ProjectReplaced

Next == Operator \/ Fault \/ Environment

Spec == Init /\ [][Next]_vars

(* The worker goes on, and every watch delivers.                            *)
FairSpec ==
    /\ Spec
    /\ WF_vars(Start) /\ WF_vars(Reconcile)
    /\ WF_vars(DeliverGitRepo) /\ WF_vars(DeliverTokenSecret) /\ WF_vars(DeliverVarSecret)
    /\ \A g \in GenNames : WF_vars(DeliverKeySecret(g))

(* The timer of RequeueAfter fires as well.                                 *)
TimerFires == WF_vars(Resync)

-----------------------------------------------------------------------------
(* Safety.                                                                  *)

(* A token that GitLab accepts stays in its secret as long as nobody else   *)
(* touches it, although a new one is issued on the word of an outdated copy *)
(* (ensureAccessToken: the mutate function calls GitLab between the read    *)
(* and the write of the secret).                                            *)
ValidTokenStays ==
    [][pc' # pc /\ tokenSecret \in project.tokens => tokenSecret' = tokenSecret]_vars

(* The operator leaves alone what others keep in the project: variables     *)
(* that neither spec nor status name, and files, unless they are listed for *)
(* deletion (EnsureCIVariables, compareFiles), also when they come up       *)
(* between its calls.                                                       *)
ForeignContentStays ==
    [][pc' # pc \/ hand' # hand
       => /\ \A v \in ForeignVars \ (obj.spec.vars \cup obj.status.applied) :
                project'.vars[v] = project.vars[v]
          /\ \A f \in Files : project.files[f] = "foreign" /\ obj.spec.files[f] # "delete"
                              => project'.files[f] = "foreign"]_vars

(* A variable has a value to set.                                           *)
Available(v) == v \in Plain \/ varSecret # None

(* Nothing about the spec, the variables or the token is queued, or on its  *)
(* way to the operator.                                                     *)
AtRest == pc = "idle" /\ ~queued /\ cacheFresh /\ tokenFresh /\ varCache = varSecret

(* No work is ever lost on the side of Kubernetes: at rest, and with no     *)
(* timer, the status names the variables of the spec, none lacks a value    *)
(* and the project shows no outdated value of any, and a token that was     *)
(* asked for is stored, although GitRepos are found by an index over cached *)
(* specs (SecretGitRepoCIVariablesMapFunc), the conflict of the status      *)
(* update is swallowed, and values are read from the secret before the      *)
(* calls that set them (ensureCIVariables).                                 *)
AtRestInStep ==
    AtRest =>
        /\ gitRepo.status.applied = gitRepo.spec.vars
        /\ \A v \in gitRepo.spec.vars :
              /\ Available(v)
              /\ project.vars[v] \in {ValueFor(v, varSecret), "foreign", None}
        /\ gitRepo.spec.token => tokenSecret # None

-----------------------------------------------------------------------------
(* Liveness: once users, GitLab and the network leave it alone.             *)

Quiet == <>[][Operator]_vars

(* A value that was put into the project and changed in the secret is       *)
(* replaced, by watch events alone: the index that finds the GitRepos of a  *)
(* secret is over cached specs (SecretGitRepoCIVariablesMapFunc).           *)
RotatedValueArrives ==
    Quiet => <>[](\A v \in gitRepo.spec.vars \cap FromSecret :
                     varSecret # None /\ project.vars[v] \in Values
                     => project.vars[v] = varSecret)

(* With the timer, variables come to be what the spec says, whoever sets    *)
(* them in GitLab and whatever failed, unless a value is missing            *)
(* (ensureCIVariables, EnsureCIVariables).                                  *)
VariablesGetInStep ==
    TimerFires /\ Quiet =>
        <>[]((\A v \in gitRepo.spec.vars : Available(v))
             => \A v \in gitRepo.spec.vars : project.vars[v] = ValueFor(v, varSecret))

(* With the timer, the value of a variable that the status once named is    *)
(* taken out when the spec drops it, although the call may fail and the     *)
(* status be stored or lost in between, unless a value is missing           *)
(* (lastAppliedCIVariables).                                                *)
AppliedVariablesGo ==
    TimerFires /\ Quiet =>
        \A v \in SpecVars :
            v \in gitRepo.status.applied ~>
                \/ v \in gitRepo.spec.vars \/ project.vars[v] \in {None, "foreign"}
                \/ \E w \in gitRepo.spec.vars : ~Available(w)

(* With the timer, a token that was asked for and ended is replaced by one  *)
(* that GitLab accepts (ensureAccessToken).                                 *)
AccessTokenRenewed ==
    TimerFires /\ Quiet => <>[](gitRepo.spec.token => tokenSecret \in project.tokens)

(* A generated key was dropped, its secret is gone, the status names it.    *)
Stuck == \E g \in NoLongerWanted(gitRepo) : keySecret[g] = 0

Generated == {[title |-> g, key |-> keySecret[g]] : g \in gitRepo.spec.gens}

Wanted == Generated \cup {[title |-> k, key |-> 0] : k \in gitRepo.spec.keys}

(* With the timer, unless it is stuck: the project has the key of each      *)
(* generated secret and each key of the spec, and no key under another      *)
(* title, whatever failed between secret, status and project                *)
(* (ensureGeneratedDeployKeys, updateDeployKeys).                           *)
KeysGetInStep ==
    TimerFires /\ Quiet =>
        <>[](~Stuck => Wanted \subseteq project.keys /\ TitlesOf(project.keys) = TitlesOf(Wanted))

(* With the timer, files that are asked for are there and files listed for  *)
(* deletion are gone, whoever writes to the project between list and commit *)
(* (compareFiles, CommitTemplateFiles).  A file in a directory, which       *)
(* ListTree does not show, makes each commit but the first fail.            *)
TemplateFilesGetInStep ==
    TimerFires /\ Quiet =>
        <>[]((\A f \in NestedFiles : gitRepo.spec.files[f] # "content")
             => \A f \in Files \ NestedFiles :
                   CASE gitRepo.spec.files[f] = "content" -> project.files[f] # "none"
                     [] gitRepo.spec.files[f] = "delete"  -> project.files[f] = "none"
                     [] OTHER -> TRUE)
=============================================================================
