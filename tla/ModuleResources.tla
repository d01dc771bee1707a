-------------------------- MODULE ModuleResources --------------------------
(***************************************************************************)
(* Applying the module's resources (internal/manager/moduleresource/       *)
(* manager.go), its network policies (internal/k8s/networkpolicy/          *)
(* manager.go) and the order in which the provisioning handler             *)
(* (internal/provisioning/handler.go, reconcileResources) calls them.      *)
(*                                                                         *)
(* A pass of the reconcile worker deletes what is outdated, adds or cleans *)
(* up the policies, applies every resource and waits for all of them with  *)
(* one goroutine per resource. Only the Deployment and the policies are    *)
(* watched; the timer restores the others. A resource is the version of    *)
(* the manifest it was applied from, 0 when it does not exist. Secrets and *)
(* certificates are in CredentialsDrift and WebhookCertificates.           *)
(***************************************************************************)
EXTENDS Naturals, Sequences, SequencesExt

CONSTANTS
  Manifests,  \* module-resources/apply, in order: the unwatched resources
  Policies,   \* manager-resources/network-policies, in order
  MaxEdits,   \* bound: changes by users
  MaxFails,   \* bound: requests and rollouts that fail
  MaxUpgrades \* bound: restarts of the manager with newer manifests

ASSUME ResourcesAssumption ==
  /\ Manifests \in Seq(ToSet(Manifests)) /\ Policies \in Seq(ToSet(Policies))
  /\ "deployment" \notin ToSet(Manifests) \cup ToSet(Policies)
  /\ ToSet(Manifests) \cap ToSet(Policies) = {}
  /\ MaxEdits \in Nat /\ MaxFails \in Nat /\ MaxUpgrades \in Nat

VARIABLES
  \* ---- the API server
  obj,        \* the version of every resource, 0 if it does not exist
  outdated,   \* objects of former releases that still exist
  labelled,   \* policies that carry the label managed-by: btp-manager
  annotation, \* disable-network-policies on the CR: "true" or "none"
  state,      \* the state in the CR's status
  conditions, \* of the Deployment: statuses of Available and Progressing
  rolled,     \* the version the Deployment's Pods run
  \* ---- the manager
  want,       \* the version of the manifests in the manager's image
  cannotation,\* the annotation in the informer cache
  pend,       \* watched objects with an event that is not delivered yet
  queue, pc,  \* the work queue and the worker's next step
  mine,       \* the annotation of the CR as this pass read it
  todo,       \* resources still to apply
  applying,   \* all resources of this pass
  running,    \* goroutines that wait for a resource
  errChan,    \* their results not received yet
  left,       \* how many results are still to be received
  firstErr,   \* an error was received
  \* ---- bounds
  edits, fails

cluster == <<obj, outdated, labelled, annotation, state, conditions, rolled>>
waiters == <<running, errChan, left, firstErr>>
worker  == <<mine, todo, applying, waiters>>
vars    == <<cluster, want, cannotation, pend, queue, pc, worker, edits, fails>>

Apply == <<"deployment">> \o Manifests
Resources == ToSet(Apply) \cup ToSet(Policies)
Watched == {"cr", "deployment"} \cup ToSet(Policies)
ToDelete == {"oldRole", "oldService"} \* module-resources/delete
OldObjects == ToDelete \cup {"oldWebhookPolicy"}
NoConditions == [available |-> "none", progressing |-> "none"]

TypeOK ==
  /\ obj \in [Resources -> 0 .. 1 + MaxUpgrades] /\ outdated \subseteq OldObjects
  /\ labelled \subseteq ToSet(Policies)
  /\ {annotation, cannotation, mine} \subseteq {"true", "none"}
  /\ state \in {"Processing", "Ready", "Error"}
  /\ conditions \in [available : {"none", "True", "False"}, progressing : {"none", "True", "False"}]
  /\ rolled \in 0 .. 1 + MaxUpgrades /\ want \in 1 .. 1 + MaxUpgrades
  /\ pend \subseteq Watched /\ queue \subseteq {"cr"}
  /\ pc \in {"idle", "policies", "oldPolicy", "apply", "wait"}
  /\ ToSet(todo) \subseteq applying /\ applying \subseteq Resources
  /\ running \subseteq Resources /\ errChan \subseteq Resources \X {"nil", "error"}
  /\ left \in Nat /\ firstErr \in BOOLEAN /\ edits \in 0 .. MaxEdits /\ fails \in 0 .. MaxFails

\* A new CR in a cluster where an older release left objects behind.
Init ==
  /\ obj = [r \in Resources |-> 0] /\ outdated \in SUBSET OldObjects /\ labelled = {}
  /\ annotation \in {"true", "none"} /\ cannotation = annotation
  /\ state = "Processing" /\ conditions = NoConditions /\ rolled = 0 /\ want = 1
  /\ pend = {} /\ queue = {"cr"} /\ pc = "idle"
  /\ mine = "none" /\ todo = <<>> /\ applying = {}
  /\ running = {} /\ errChan = {} /\ left = 0 /\ firstErr = FALSE
  /\ edits = 0 /\ fails = 0
-----------------------------------------------------------------------------
(* How a pass ends. Its goroutines do not end with it.                      *)
Reset == mine' = "none" /\ todo' = <<>> /\ applying' = {} /\ left' = 0 /\ firstErr' = FALSE

\* The CR gets state Error, an event its predicate drops: nothing is queued,
\* the RequeueAfter is all that is left.
ReturnError == pc' = "idle" /\ state' = "Error" /\ Reset
\* The CR gets or keeps state Ready; the status update wakes the reconciler.
ReturnReady ==
  /\ pc' = "idle" /\ state' = "Ready" /\ Reset
  /\ pend' = IF state = "Ready" THEN pend ELSE pend \cup {"cr"}
Fail ==
  /\ fails < MaxFails /\ fails' = fails + 1
  /\ ReturnError /\ UNCHANGED <<pend, running, errChan>>
Goto(next) == pc' = next /\ UNCHANGED <<state, fails>>
Own == UNCHANGED <<annotation, rolled, want, cannotation, edits>>

(* In the state Error a pass only goes back to Processing; that event       *)
(* brings the next one.                                                     *)
HandleErrorState ==
  /\ pc = "idle" /\ queue # {} /\ state = "Error"
  /\ state' = "Processing" /\ queue' = {} /\ pend' = pend \cup {"cr"}
  /\ UNCHANGED <<obj, outdated, labelled, conditions, pc, worker, fails>> /\ Own
-----------------------------------------------------------------------------
(* The pass starts by deleting outdated resources. A failed deletion does   *)
(* not stop the others, but it stops the pass.                              *)
DeleteOutdatedResources ==
  /\ pc = "idle" /\ queue # {} /\ state # "Error" /\ queue' = {}
  /\ \/ /\ outdated' = outdated \ ToDelete /\ mine' = cannotation /\ Goto("policies")
        /\ UNCHANGED <<pend, todo, applying, waiters>>
     \/ Fail /\ \E S \in SUBSET ToDelete : S # ToDelete /\ outdated' = outdated \ S
  /\ UNCHANGED <<obj, labelled, conditions>> /\ Own

\* All policies with the label are deleted by one request.
CleanupNetworkPolicies ==
  /\ obj' = [r \in Resources |-> IF r \in labelled THEN 0 ELSE obj[r]]
  /\ pend' = pend \cup labelled /\ labelled' = {}

\* A request that fails half way deleted only some of them.
CleanupPartly ==
  \E S \in SUBSET labelled :
    /\ obj' = [r \in Resources |-> IF r \in S THEN 0 ELSE obj[r]]
    /\ pend' = pend \cup S /\ labelled' = labelled \ S
    /\ fails < MaxFails /\ fails' = fails + 1 /\ ReturnError /\ UNCHANGED <<running, errChan>>

\* Mutant: the policies are appended to a copy of the list.
LoadUntracked == todo' = Apply \o Policies /\ applying' = ToSet(Apply)
\* The policies are appended to the resources of this pass.
LoadNetworkPolicies == todo' = Apply \o Policies /\ applying' = Resources

(* Policies are cleaned up, or added to the resources, as the annotation of *)
(* the CR that this pass read says.                                         *)
AddOrCleanupPolicies ==
  /\ pc = "policies"
  /\ \/ /\ mine = "true" /\ CleanupNetworkPolicies /\ Goto("oldPolicy")
        /\ todo' = Apply /\ applying' = ToSet(Apply) /\ UNCHANGED <<mine, waiters>>
     \/ mine = "true" /\ CleanupPartly
     \/ /\ mine = "none" /\ UNCHANGED <<obj, pend, labelled>> /\ Goto("oldPolicy")
        /\ LoadNetworkPolicies /\ UNCHANGED <<mine, waiters>>
  /\ UNCHANGED <<outdated, conditions, queue>> /\ Own

DeleteOldWebhookNetworkPolicy ==
  /\ pc = "oldPolicy"
  /\ \/ outdated' = outdated \ {"oldWebhookPolicy"} /\ Goto("apply") /\ UNCHANGED <<pend, worker>>
     \/ Fail /\ UNCHANGED outdated
  /\ UNCHANGED <<obj, labelled, conditions, queue>> /\ Own

\* Everything that is applied carries the labels of the manager.
AddLabels(r) == labelled' = labelled \cup ({r} \cap ToSet(Policies))
\* Mutant: a resource that exists is left alone.
applyMissingResource(r) ==
  /\ obj' = [obj EXCEPT ![r] = IF @ = 0 THEN want ELSE @] /\ AddLabels(r)
  /\ pend' = IF obj[r] = 0 THEN pend \cup ({r} \cap Watched) ELSE pend
\* A write that changes a watched object sends an event; of the Deployment
\* only its creation counts.
applyOrUpdateResource(r) ==
  /\ obj' = [obj EXCEPT ![r] = want] /\ AddLabels(r)
  /\ pend' = IF \/ r = "deployment" /\ obj[r] = 0
                \/ r \in ToSet(Policies) /\ (obj[r] # want \/ r \notin labelled)
             THEN pend \cup {r} ELSE pend

\* A channel, a goroutine for each resource, and as many results to come.
StartWaiting == errChan' = {} /\ running' = applying /\ left' = Cardinality(applying)

(* One resource after the other. An error (a conflict with a user's change, *)
(* say) ends the pass with the rest not applied.                            *)
ApplyOrUpdateResources ==
  /\ pc = "apply"
  /\ \/ /\ todo # <<>> /\ applyOrUpdateResource(Head(todo)) /\ todo' = Tail(todo)
        /\ Goto("apply") /\ UNCHANGED <<mine, applying, waiters>>
     \/ todo # <<>> /\ Fail /\ UNCHANGED <<obj, labelled>>
     \/ /\ todo = <<>> /\ Goto("wait") /\ StartWaiting
        /\ UNCHANGED <<obj, labelled, pend, mine, todo, applying, firstErr>>
  /\ UNCHANGED <<outdated, conditions, queue>> /\ Own
-----------------------------------------------------------------------------
(* WaitForResourcesReadiness: the goroutines and the worker that receives.  *)
isDeploymentReady == conditions.available = "True" /\ conditions.progressing = "True"
isResourceReady(r) == obj[r] # 0 /\ (r = "deployment" => isDeploymentReady)

\* A goroutine ends when its resource is ready, when ReadyTimeout is over
\* before that, or when a request fails.
waitForResource(r) ==
  /\ r \in running /\ running' = running \ {r}
  /\ \/ isResourceReady(r) /\ errChan' = errChan \cup {<<r, "nil">>} /\ UNCHANGED fails
     \/ ~isResourceReady(r) /\ errChan' = errChan \cup {<<r, "error">>} /\ UNCHANGED fails
     \/ fails < MaxFails /\ fails' = fails + 1 /\ errChan' = errChan \cup {<<r, "error">>}
  /\ UNCHANGED <<cluster, want, cannotation, pend, queue, pc, mine, todo, applying, left,
                 firstErr, edits>>

\* Mutant: the first error is returned at once.
ReceiveUntilError ==
  /\ pc = "wait"
  /\ \/ /\ left > 0 /\ left' = left - 1
        /\ \E e \in errChan : e[2] = "nil" /\ errChan' = errChan \ {e}
        /\ UNCHANGED <<state, pend, pc, mine, todo, applying, running, firstErr>>
     \/ /\ left > 0 /\ \E e \in errChan : e[2] = "error" /\ errChan' = errChan \ {e}
        /\ ReturnError /\ UNCHANGED <<pend, running>>
     \/ left = 0 /\ ReturnReady /\ UNCHANGED <<running, errChan>>
  /\ UNCHANGED <<obj, outdated, labelled, conditions, queue, fails>> /\ Own
\* The worker receives as many results as there are resources, in the order
\* in which the goroutines end, and then returns the first error, if any.
WaitForResourcesReadiness ==
  /\ pc = "wait"
  /\ \/ /\ left > 0 /\ left' = left - 1
        /\ \E e \in errChan :
             errChan' = errChan \ {e} /\ firstErr' = (firstErr \/ e[2] = "error")
        /\ UNCHANGED <<state, pend, pc, mine, todo, applying, running>>
     \/ left = 0 /\ ~firstErr /\ ReturnReady /\ UNCHANGED <<running, errChan>>
     \/ left = 0 /\ firstErr /\ ReturnError /\ UNCHANGED <<pend, running, errChan>>
  /\ UNCHANGED <<obj, outdated, labelled, conditions, queue, fails>> /\ Own
-----------------------------------------------------------------------------
(* Kubernetes and its users.                                                *)
Manager == UNCHANGED <<want, cannotation, queue, pc, worker>>

\* Mutant: the predicate looks at the condition Available only.
SetConditionsAvailable(c) ==
  /\ conditions' = c
  /\ pend' = (IF c.available # conditions.available THEN pend \cup {"deployment"} ELSE pend)
\* Only a changed status of a condition passes the Deployment's predicate.
SetConditions(c) ==
  /\ conditions' = c
  /\ pend' = IF c # conditions THEN pend \cup {"deployment"} ELSE pend

\* The Deployment controller replaces the Pods, or gives up: then the old
\* ones, if there are any, go on.
Rollout ==
  /\ obj["deployment"] # 0 /\ rolled # obj["deployment"] /\ rolled' = obj["deployment"]
  /\ SetConditions([available |-> "True", progressing |-> "True"])
  /\ UNCHANGED <<obj, outdated, labelled, annotation, state, edits, fails>> /\ Manager
RolloutFails ==
  /\ obj["deployment"] # 0 /\ rolled # obj["deployment"] /\ fails < MaxFails /\ fails' = fails + 1
  /\ SetConditions([available |-> IF rolled = 0 THEN "False" ELSE conditions.available,
                    progressing |-> "False"])
  /\ UNCHANGED <<obj, outdated, labelled, annotation, state, rolled, edits>> /\ Manager

Edit == edits < MaxEdits /\ edits' = edits + 1 /\ UNCHANGED <<outdated, state, fails>> /\ Manager
UserDeletes(r) ==
  /\ Edit /\ obj[r] # 0 /\ obj' = [obj EXCEPT ![r] = 0] /\ labelled' = labelled \ {r}
  /\ pend' = pend \cup ({r} \cap Watched)
  /\ IF r = "deployment" THEN rolled' = 0 /\ conditions' = NoConditions
                         ELSE UNCHANGED <<rolled, conditions>>
  /\ UNCHANGED annotation
UserUnlabels(p) ==
  /\ Edit /\ p \in labelled /\ labelled' = labelled \ {p} /\ pend' = pend \cup {p}
  /\ UNCHANGED <<obj, annotation, conditions, rolled>>
\* In Error and Warning, updates of the CR do not pass its predicate.
UserAnnotates(a) ==
  /\ Edit /\ annotation' = a /\ a # annotation /\ pend' = pend \cup {"cr"}
  /\ UNCHANGED <<obj, labelled, conditions, rolled>>

\* An informer delivers: the cache is up to date and the predicates decide
\* whether the reconciler is woken.
Deliver(o) ==
  /\ o \in pend /\ pend' = pend \ {o}
  /\ queue' = (IF o = "cr" /\ state = "Error" THEN queue ELSE {"cr"})
  /\ cannotation' = (IF o = "cr" THEN annotation ELSE cannotation)
  /\ UNCHANGED <<cluster, want, pc, worker, edits, fails>>

\* The RequeueAfter of the last pass.
Timer ==
  /\ pc = "idle" /\ queue = {} /\ queue' = {"cr"}
  /\ UNCHANGED <<cluster, want, cannotation, pend, pc, worker, edits, fails>>

\* The manager is replaced by one with newer manifests, at any point of a pass.
Upgrade ==
  /\ want <= MaxUpgrades /\ want' = want + 1 /\ pc' = "idle" /\ Reset
  /\ running' = {} /\ errChan' = {}
  /\ queue' = {"cr"} /\ pend' = {} /\ cannotation' = annotation
  /\ UNCHANGED <<cluster, edits, fails>>

Worker ==
  \/ HandleErrorState
  \/ DeleteOutdatedResources \/ AddOrCleanupPolicies \/ DeleteOldWebhookNetworkPolicy
  \/ ApplyOrUpdateResources \/ WaitForResourcesReadiness
Next ==
  \/ Worker \/ (\E r \in Resources : waitForResource(r) \/ UserDeletes(r))
  \/ Rollout \/ RolloutFails \/ (\E p \in ToSet(Policies) : UserUnlabels(p))
  \/ (\E a \in {"true", "none"} : UserAnnotates(a))
  \/ (\E o \in Watched : Deliver(o)) \/ Timer \/ Upgrade
Spec == Init /\ [][Next]_vars
\* The worker and its goroutines run, informers deliver, the timer fires and
\* Kubernetes rolls out what it is given.
FairSpec ==
  /\ Spec /\ WF_vars(Worker) /\ WF_vars(Timer) /\ WF_vars(Rollout)
  /\ \A r \in Resources : WF_vars(waitForResource(r))
  /\ \A o \in Watched : WF_vars(Deliver(o))
-----------------------------------------------------------------------------
Present == {p \in ToSet(Policies) : obj[p] # 0}
Quiet == pc = "idle" /\ queue = {} /\ pend = {} /\ state = "Ready"

(* When no event is on its way and nothing is queued, a CR that is Ready    *)
(* has a Deployment whose conditions say so, although readiness may have    *)
(* been judged by conditions of an older rollout; its policies are those    *)
(* the annotation asks for, save the ones that lost their label.            *)
ReadyWhenQuiet ==
  Quiet => /\ isDeploymentReady
           /\ annotation = "none" => Present = ToSet(Policies) /\ labelled = ToSet(Policies)
           /\ annotation = "true" => labelled = {}

(* No goroutine that waits for a resource outlives the pass that started    *)
(* it, after errors and timeouts too: receiving one result per resource is  *)
(* enough for all of them to have ended.                                    *)
NoWaiterLeft == pc # "wait" => running = {}

(* The CR becomes Ready only when nothing of a former release is left and   *)
(* every resource of the pass, whatever failures, upgrades and unfinished   *)
(* passes came before, is at the version of the manager's manifests. Only   *)
(* a user can have deleted one again since it was applied.                  *)
ReadyMeansApplied ==
  [][state # "Ready" /\ state' = "Ready" =>
       /\ outdated = {} /\ ToSet(Apply) \subseteq applying
       /\ \A r \in applying : obj[r] = want \/ (obj[r] = 0 /\ edits > 0)]_vars

(* In the end the CR is Ready and everything the manager owns is at the     *)
(* version of its manifests: what is not watched is restored, what is       *)
(* outdated is gone, after failures, upgrades and changes by users.         *)
Installed ==
  <>[](/\ state = "Ready" /\ outdated = {} /\ rolled = want
       /\ \A r \in ToSet(Apply) : obj[r] = want
       /\ annotation = "none" => \A p \in ToSet(Policies) : obj[p] = want)
=============================================================================
