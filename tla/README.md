# BTP Manager in TLA+

BTP Manager is a Kubernetes operator (Go, controller-runtime). It installs,
keeps and removes the SAP BTP service operator (the *operand*) for one
`BtpOperator` custom resource (the *CR*). This directory holds TLA+ modules
translated from its source, TLC configurations that check them on small
instances, and TLAPS proofs of the main safety properties for every instance.

## The system

| Part | Source | State | What it does |
|---|---|---|---|
| Reconciler | `controllers/btpoperator_controller.go` | CR status, work queue, informer cache | state machine over `""`, Processing, Ready, Warning, Error, Deleting; status updates; watch predicates |
| Deprovisioning | `internal/deprovisioning/handler.go` | instances, bindings, CRDs, module resources, goroutines | blocking count, hard delete in a goroutine, soft delete, removal, restore, finalizer |
| Provisioning | `internal/provisioning/handler.go` | module resources | required Secret, drift checks, apply, wait, remove what changed |
| Credentials drift | `internal/credentials/drift/detector.go`, `internal/configurator/configurator.go` | detector fields, annotations of the required Secret | change of credentials namespace and of cluster ID |
| Module resources | `internal/manager/moduleresource/manager.go`, `internal/manifest`, `internal/ymlutils` | applied objects | render, apply and wait |
| Webhook certificates | `internal/webhook/certificate/manager.go`, `internal/certs/certs.go` | CA and server certificate Secrets, CA bundles | create, verify, regenerate, inject |
| Network policies | `internal/k8s/networkpolicy` | policies | load, clean up |
| Configuration | `controllers/config/handler.go` | package globals | overrides read from a ConfigMap |
| SI/SB controllers | `controllers/instance_binding_controller_manager.go`, `controllers/serviceinstance_controller.go` | a second manager and its goroutine | meant to wake the CR when objects disappear |
| CA bundle probe | `controllers/probe_runner.go`, `tests/probe/main.go` | Job, gauge, annotations of the CR | probe the mounted CA bundle periodically, restart the operand after a rotation |
| Metrics, autodoc, chart tools | `internal/metrics`, `cmd/autodoc`, `hack` | none of interest | out of scope |

How they interact: one reconcile worker (controller-runtime's default) runs
every handler; it reads the CR from an informer cache that lags the API server,
and writes with optimistic concurrency. It is woken by its own watch of the CR
(filtered by a predicate), by watches of module resources and Secrets, by
`RequeueAfter` timers and by the retry of a failed reconcile. Users and the
operand change the cluster meanwhile, and each deprovisioning pass starts a
goroutine that may outlive the pass.

What makes it hard: counts and lists that are stale when used; a goroutine
racing its timeout; requests that fail between two others; restarts; a cache
that still shows a deleted CR; wake-ups that depend on a predicate or a timer.
`PROJECT.json` lists these hazards line by line.

## Modules

| Module | Models | Extends |
|---|---|---|
| `Deprovisioning` | deprovisioning handler, restore, goroutines, users, operand; instantiates `BtpOperatorLifecycle` | |
| `MCDeprovisioning` | constants for TLC | `Deprovisioning` |
| `DeprovisioningProofs` | types; the safety properties; the deletion follows the life cycle | `Deprovisioning`, `TLAPS` |
| `BtpOperatorReconciler` | reconcile loop, status updates, predicate, queue, informer, restarts | |
| `BtpOperatorLifecycle` | abstract: what a user of the CR may rely on | |
| `MCBtpOperatorReconciler` | constants for TLC | `BtpOperatorReconciler` |
| `BtpOperatorReconcilerProofs` | types; the status table; a CR is not forgotten; a Ready CR has its module; the reconciler implements the life cycle | `BtpOperatorReconciler`, `TLAPS` |
| `CredentialsDrift` | detector, configurator, changed resources, start of the operand | |
| `CredentialsDriftProofs` | types; credentials in use are kept; Ready means configured | `CredentialsDrift`, `TLAPS` |
| `WebhookCertificates` | certificate Secrets, CA bundles, their watches | |
| `WebhookCertificatesProofs` | types; agreement at rest; regenerations and their causes | `WebhookCertificates`, `TLAPS` |
| `ModuleResources` | outdated resources, policies, apply, readiness | |
| `ModuleResourcesProofs` | types; a wait ends with its goroutines; Ready is true at rest and set only when all is applied | `ModuleResources`, `TLAPS` |
| `SisbManager` | the nested manager and its goroutines | |
| `SisbManagerProofs` | types; one manager at most | `SisbManager`, `TLAPS` |
| `ConfigHandler` | settings, ConfigMap events, start-up | |
| `ConfigHandlerProofs` | types; settings agree at rest and are in force from the start | `ConfigHandler`, `TLAPS` |
| `ProbeRunner` | the probe's cycle, its Job, restarts, metric | |
| `ProbeRunnerProofs` | types; restart before record; restarts and their causes | `ProbeRunner`, `TLAPS` |

Each of the last six components has an `MC...` module with its constants for
TLC.

### Deprovisioning

The worker's `pc` names the next API request; one action is one request with
the control flow up to the next one. `g` holds the hard-delete goroutines,
with the namespaces they were given, the CRDs they found, an error or stop
mark, and the answer channel. `objs` gives each service instance and binding
its life cycle absent / active / deleting; every object carries the operand's
finalizer. `mod` is the set of installed resource groups in manifest order;
network policies and certificate Secrets are part of `other`. `Fail` marks a
request the API server refuses and is bounded by `MaxFails`.

The CR and the list of namespaces come from informer caches (`cached`,
`cforce`, `cnss`); instances and bindings are unstructured lists, which
controller-runtime does not cache. `bsec` are the bindings whose Secret exists.
`softDelete` deletes a Secret by the name of the binding, while
`spec.secretName` may give it another: such bindings are the constant
`Renamed`. It strips a binding (`SoftItem`) and deletes the Secret
(`SoftSecret`) in two requests; `lost` remembers the bindings for which the
second failed or was cut off by a restart, for no later pass will see them.

Abstracted: the status update loop appears as its callers see it (written, CR
gone, or given up); the CRDs of both kinds come and go together, and
`crdExists` sees them as they are although it reads a cache; the status a pass
starts from is the current one (its lag is in `BtpOperatorReconciler`); labels
and messages are reduced to what the code tests; `DisableSISBController`
changes nothing this module tracks; outdated resources are not tracked.

### BtpOperatorReconciler

`cr` is the CR in the API server: state, reason of its condition, and a set of
marks (our finalizer, somebody else's finalizer, a deletionTimestamp). Every
write appends the new version to `stream`; `InformerDelivers` moves the head of
`stream` to `cache` and applies `watchBtpOperatorUpdatePredicate` (`Wakes`) to
the pair of versions. `queued` and `timer` are the work queue and a pending
`RequeueAfter`. A pass copies the cached CR to `mine`; `fresh` says whether its
resourceVersion is still the current one, which decides whether a write is
accepted.

`UpdateBtpOperatorStatus` is `GetStatus` / `SendStatus` in a loop that
`StatusUpdateTimeout` may leave after at least one request, with the error of
the last request. `after` is what the caller does next. `Reconcile` is the
switch over the cached state; `Provision`, `CheckReady` and the deprovisioning
actions appear by their outcomes and by the status updates they make.

Abstracted: messages of conditions (two updates with the same state and reason
are the same); CRs of another name or namespace; a failing read of the cache;
`StatusUpdateTimeout` is assumed long enough for one request; resources that
others delete from the module only wake the reconciler (`ModuleEvent`). The
empty initial state is written `"initial"`, for the SMT backend cannot read the
empty string.

`BtpOperatorLifecycle` has four variables and nine actions. The reconciler
implements it with `phase <- cr.st`, `deleted <- "del" \in cr.marks` and
`held <- "fin" \in cr.marks`; `doomed` is a history variable of the reconciler.
`Deprovisioning` is compared with the same life cycle: there the state follows
from the reason of the condition (`StateOf`), the CR is deleted and held while
it exists, and it is doomed once the deletion has written a status. That module
begins with a CR that is already deleted, a reachable state of the life cycle
and not an initial one, so the comparison is of steps (`FollowsLifecycle`).

### The parts of a provisioning pass

A pass of `Provision` or `ReconcileReady` walks through three modules. Each
keeps the requests of its own part one by one and leaves out those of the other
two, which touch none of its objects and whose failure it has as a failure of
its own.

**`CredentialsDrift`.** `sec` is the required Secret with the two annotations
the detector writes; `creds` and `idSecrets` are the credentials and cluster-ID
Secrets by namespace, `cm` the operand's ConfigMap, `pod` its Pod with the
configuration it started with. The six fields of `DriftDetector` are variables
that survive from pass to pass, for the code never resets all of them. The
required Secret, the list of credentials Secrets and the ConfigMap come from
the cache (`csec`, `ccreds`, `ccm`), the rest from the API server. `fresh` says
whether the Secret read by the pass is the current version and decides whether
the annotation is accepted. `PodStarts` is external: how the operand reads the
ConfigMap and refuses a foreign cluster ID.

**`WebhookCertificates`.** A CA is a number, a certificate names its signer, a
key is good, junk or empty, an age is valid or expiring. `seen` is the CA
Secret a pass read and `newCa`, `newWh`, `bundle` what it writes, object by
object. `pend` holds objects whose event has not been delivered; a pass may
start before that, and `stale` counts the passes that do. `state` is the one of
the CR: a pass that fails sets Error (`GiveUp`), whose event the predicate
drops, so that nothing is queued; the `RequeueAfter` leads to
`HandleErrorState`, whose Processing brings the next pass.

**`ModuleResources`.** An object is the manifest version it was applied from,
so that an upgrade of the manager (`Upgrade`) shows. `waitForResource` is one
goroutine per resource, `errChan` the channel of the call, `left` the number of
results the worker still has to receive; a pass that ends does nothing to
goroutines. `mine` is the annotation of the CR the pass began with. A failed
pass goes through Error and Processing as above. `conditions`
follow the Deployment's rollout with a delay, as nothing in the code looks at
`observedGeneration`.

### SisbManager

Managers, contexts and goroutines carry the number of the `Enable` that made
them. The goroutine starts the manager that the field `mgr` holds when it gets
to run, which may be a newer one.

### ConfigHandler

`g` are the package variables. Four keys stand for the kinds there are: the
name of the ConfigMap itself, a string, a duration that passes read, and the
duration that is read once. `Assign` is one turn of the loop over the
ConfigMap's data, so passes read between two assignments. controller-runtime
maps the old and then the new object of an update and queues the request once,
when the first has been mapped: a pass may run while the old values are in
force again, and only the timer brings the next. A deletion maps the deleted
object, which assigns its values once more. Only ConfigMaps with the
`managed-by` label reach the cache; the model has such ConfigMaps. Another
ConfigMap that a change of `ConfigName` points at is not loaded until it
changes.

### ProbeRunner

`ann` are the four annotations of the CR, `state`, `sawBundle` and `sawTls` the
progress of the Job's Pod and of one Pod that a deleted Job left behind
(deletion in the background does not wait for Pods). Time stamps count up to
four and start over, `0` is the empty one; two writes within one second, which
RFC 3339 stamps would not tell apart, are left out. Bundles are numbered and a
rotation never brings back an earlier one. The runner gets the manager's client
(`main.go:181`), so Jobs and the CR are read from caches (`cjob`, `cann`);
`lags` counts reads that did not give what the server had. The list of Pods is
taken as it is, though cached too. The operand's Pods restart only through the
runner.

## What TLC checks

| Run | Shows |
|---|---|
| `deprovisioning_safety` | objects that exist before a pass block it without the label (`BlockedByDefault`); resources go only when those objects are gone (`ModuleRemovedOnlyWhenDrained`; after a forced hard delete in the namespaces the pass has listed, otherwise everywhere); bindings go before instances; the finalizer goes last (`CrOutlivesModule`) |
| `deprovisioning_liveness` | every request of a deletion is a step of the life cycle or invisible to it (`FollowsLifecycle`); no Secret of a binding is left behind but one whose deletion failed (`SecretsGoWithBindings`); an unblocked deletion finishes; a blocked one leaves the module installed |
| `reconciler_loop` | state and reason belong together; the CR is never left without a wake-up (`NoLostWakeup`); Ready is never claimed for a module that is not installed; refinement of the life cycle (`LifecycleSpec`); a CR whose Secret stays valid becomes Ready; a deleted CR goes away unless blocked |
| `drift_takeover` | the credentials Secret that the ConfigMap names or a ready Pod uses is never deleted; Ready is set only for an operand configured as its required Secret asks (`ReadyMeansConfigured`); a changed namespace takes over after failures and a restart (one Secret, in that namespace; an operand that once agreed ends up agreeing); a changed cluster ID reaches the Pod when nothing fails |
| `certs_settle` | while the CR is Ready and nothing is on its way, CA, certificate and bundles agree; every regeneration has a cause (`EachRegenerationHasACause`: a change, a fault, or a pass on a cache that is behind); in the end nothing is about to expire |
| `resources_pass` | at rest, Ready means a ready Deployment and the requested policies; a wait returns only when all its goroutines have ended (`NoWaiterLeft`); Ready is set only when everything has been applied and nothing outdated is left (`ReadyMeansApplied`); everything ends up at the version of the manifests |
| `sisb_lifecycle` | at most one manager is left running, none that was disabled |
| `config_effect` | when the watch is idle, settings and metric agree with the stored ConfigMap (`SettledWhenQuiet`); settings stored before the start are in force before the first pass and the probe (`InForceFromTheStart`); valid values of the ConfigMap end up in force and in a pass, whatever else happens; a ConfigMap that stays is reported as applied; a stored interval is in force before the probe reads it |
| `probe_cycle` | no restart of the operand without a rotation, a fault or a read of a cache that is behind; all Pods get the mounted bundle while TLS is healthy; the metric tells in the end whether the bundle is trusted |
| `probe_order` | a hash is recorded only after all Pods have the bundle |
| `deprovisioning_finalizer`, `drift_failedrestart` | violations, see *Findings* |

Bounds. Deprovisioning: one binding and one instance, in two namespaces of
which the second appears during the pass (safety) or in one (liveness), one
goroutine, one creation or edit by users, one failing request (liveness), one
restart (safety). One object of each kind is enough because the code treats
objects of a kind alike and independently; two namespaces are needed for the
stale list. `Renamed` is empty in the runs; a renamed Secret is the case of
`Deprovisioning_bindingsecret.cfg`. One goroutine at a time is a restriction of
these runs only (a pass that finds it still running waits); the proofs cover
any number. Reconciler: one creation of the CR, one edit, one failure, one
restart, an informer at most two events behind: a stale read, a conflict, and
an event that arrives during a pass all occur. Every bound is a `Max...`
constant.

Drift: two namespaces and two IDs, which is what the code compares, one change,
two failures and one restart. A pass starts with caught-up caches
(`PromptCaches`): with lagging ones a Ready pass that does not see the
ConfigMap applies a new ID without restarting the Pod. A first installation
that fails before the credentials Secret exists forgets the namespace for the
Pod, so `NamespaceTakesOver` speaks of an operand that has agreed once. Both
take-over properties are about one change and fail with two: a namespace that
is changed and changed back around an unfinished pass leaves a Secret behind
(`CredentialsDrift_orphan.cfg`), and an ID that changes while the ConfigMap is
deleted is applied by a Ready pass, which restarts nothing. Certificates: two
edits or expiries, one failure or restart, one pass on a cache that is behind,
and up to eight regenerations, more than can happen. Resources: one more
release, one policy, one unwatched resource, two edits, one failure. Nested
managers: three `Enable`s, after which the run stops. Settings: two ConfigMaps,
two edits, one failed read, one restart. Probe: two Pods, two rotations, two
changes of TLS (none in `probe_order`, whose property speaks of healthy TLS);
failing calls, crashes and reads of a cache that is behind share a bound, one
in `probe_cycle` and three in `probe_order`. That the last are finitely many
matters for the liveness properties: a cycle whose first look for its Job comes
before the cache holds it ends without a result (`ProbeRunner_lag.cfg`), and if
every cycle did, neither property would hold. Two rotations are needed for one
that comes while the Pods are restarted for the other.

Two more configurations are kept for lagging caches, where the proofs say the
same for every bound: `CredentialsDrift_safety.cfg` (2.2 million states) and
`WebhookCertificates_safety.cfg` (1.2 million states), both without an error.
They also check the type invariants of these two modules, which the runs leave
to the theorems.

Fairness. Weak fairness of the worker (controller-runtime runs queued requests;
a request to the API server that hangs for good is not modelled), of the
goroutines, of the informers (of the namespaces, too) and of timers, of the
garbage collector for finalizers of foreground deletion, and of the API
server's clean-up of CRDs. None is assumed of users, of restarts, of the
operand, or of events of module resources. Failures are bounded, so the retry
of a failed pass eventually meets a working API server.

`CredentialsDrift` adds weak fairness of the Pod's start, `ModuleResources` of
the rollout, `SisbManager` of goroutines that are told to stop, `ConfigHandler`
of the runnables, `ProbeRunner` of the ticker, of the Job's Pod and of the
caches. The timer
of a Ready CR is needed: without it `TakesEffect`, `Settles` and `Installed`
fail, as a value, an expiry or an unwatched object sends no event that would be
enough.

Deadlock is checked except in `sisb_lifecycle`, which ends at a bound
(`WebhookCertificates_safety.cfg` and `SisbManager_never.cfg` do, too).

## What is proved

All theorems hold for every value of the constants that satisfies the `ASSUME`
of the module.

* A theorem `TypeCorrect` in every `...Proofs` module.
* `DeprovisioningProofs`: `ExistingObjectsBlock`, `DrainedBeforeRemoval`,
  `BindingsDrainFirst`, `CrLast`, `NoSecretLeftBehind`. The invariants are not
  inductive by themselves: what a request found must be carried to the step
  that relies on it. `IInv` says, step by step of the worker and of each
  goroutine, which objects from before the pass can still exist (`Draining`)
  and which groups of resources can still be installed (`Removing`). For the
  hard delete this is about the namespaces the goroutine was given, and extends
  to all objects only when the pass skipped it because both counts were zero.
  `SecretsBound` adds that a Secret outlives its binding only while
  `softDelete` is about to delete it, or if it is renamed or lost.
* `DeprovisioningProofs!DeletionFollowsLifecycle`: each step, request by
  request, maps to a step of `BtpOperatorLifecycle` or to a stutter. A status
  is written from the step a pass has reached, so `Doomed` (a part of `IInv`)
  relates the two: past its first status update a pass works on a CR whose
  deletion has been shown, and the steps that remove the finalizer are reached
  only from Deleting or Warning.
* `BtpOperatorReconcilerProofs!StatusIsConsistent`. Its inductive form adds
  that the status an update is about to write is in the table, too.
* `BtpOperatorReconcilerProofs!NeverForgotten`: `NoLostWakeup` for a CR created
  at most once. `WakeUps` adds: the stream ends with the current version and
  holds no deletion of an existing CR; what a version says about deletion and
  our finalizer stays true of the CR (`Settled`); a CR without our finalizer
  has no state; a deprovisioning pass runs only for a CR that is being deleted;
  a pass that only sets the status asks for Processing or Deleting, so the
  event of its own update passes the predicate. For a CR that is created again
  this is false, and so is `NoLostWakeup`: see
  `BtpOperatorReconciler_stuck.cfg`.
* `BtpOperatorReconcilerProofs!ReadyIsInstalled`: `ReadyMeansInstalled` for a
  CR created at most once. The danger is a pass that works from an old version:
  it could report Ready over a Deleting the cache does not show yet, and the
  next pass would remove the module of a Ready CR. `ReadyInv` excludes this. A
  status of deprovisioning is written only when the cache already shows the
  deletion (`VersionOrder`), so a pass that starts to provision has none ahead
  of it, and a pass that deprovisions works on a CR that is not Ready
  (`PassOrder`). For a CR that is created again it is false (`MaxCreates = 2`):
  the Deleting that lands on the new CR has no deletion before it.
* `BtpOperatorReconcilerProofs!ImplementsLifecycle`: the refinement of
  `BtpOperatorLifecycle` for a CR created at most once. Every step of the
  reconciler maps to a step of the life cycle or to a stutter, which needs
  `LifeInv`: what each version in the window says about the finalizer and the
  state holds of the CR until deprovisioning reaches it (`Tells`), a
  provisioning pass never runs on a CR that has been Deleting, and a
  deprovisioning pass whose copy of the CR is current sees it Deleting or in
  Warning (`PassTells`). For a CR that is created again it is false, for the
  reason above.
* `CredentialsDriftProofs!CredentialsInUseAreKept`. The deletion acts on fields
  that were set many requests before. The inductive invariant `IInv` carries to
  it, step by step (`PassKnows`): the ConfigMap names the new namespace (or was
  deleted by a user), and the Pod has been deleted, so that whatever starts
  meanwhile starts from the new ConfigMap.
* `CredentialsDriftProofs!ReadyIsConfigured`: `ReadyMeansConfigured` with
  caches that lag without bound. The pass that sets Ready works from a copy of
  the required Secret. To `IInv` the proof adds that a copy which is not
  outdated is the Secret (`Copies`), that the detector's fields are those of
  the copy while the pass runs (`Reads`), and that from the wait on the
  credentials Secret is in place and, after the deletion of the Pod, a ready
  Pod has the requested ID (`Applied`). Without a detected change the Pod is
  not restarted and nothing is claimed of it.
* `WebhookCertificatesProofs!QuietCertificatesAgree`. `IInv` says what a pass
  knows at each step (`PassKnows`), that a cached Secret differs from the
  stored one only while its event is pending (`Cached`), and that a
  disagreement always has a pending event, a queued request, a running pass
  that will repair it, or a CR that is not Ready. The last is needed: after a
  pass that failed before its first write a disagreement waits for the
  `RequeueAfter`.
* `ProbeRunnerProofs!RestartComesFirst`, under `Healthy` (TLS is ok and the
  bundle stays mounted). `Order` bounds the hash in the annotations, in the
  runner and in both Pods of Jobs by the mounted bundle, and says which Pods of
  the operand have been restarted at each step of a cycle. Without `Healthy`
  the statement is false: see `ProbeRunner_alert.cfg`.
* `WebhookCertificatesProofs!RegeneratedForACause`, with caches that lag
  without bound. The bound is not inductive: it must count what the present
  state is going to cost. `Owed` is 0 for two valid Secrets that agree and 1
  otherwise; `OwedInPass` is what a pass between its two reads may still spend,
  once for what it reads next and once more if the CA Secret changed after it
  was read. `AllPaid` says that the regenerations so far and the ones owed
  never exceed the causes. A pass on a cache that is behind may regenerate for
  nothing and leave a disagreement behind, hence two for each (`stale`).
* `ProbeRunnerProofs!RestartedForACause`, with lagging caches. `Way` counts the
  steps from the recorded hash over the one the cycle is about to read to the
  mounted bundle, `Late` two for each Pod of a Job that outlives its cycle: it
  may write an old hash at any time and bring the runner there and back. `Paid`
  says that restarts and what is still due never exceed the causes;
  `JobOfCycle` ties the state of the Job to the step of the cycle.
* `ModuleResourcesProofs`: `AllWaitersEnd`, `ReadyIsTrue`. `Counted` says that
  the results still to receive are the goroutines that run plus the results in
  the channel, so the loop that receives one result per resource ends exactly
  when no goroutine is left. A pass leaves Ready behind only after it saw the
  Deployment ready and the policies as the cached annotation asks; what changes
  during or after that is watched, so its event is pending or has queued
  another pass (`Sound`). It needs that the cached annotation is old only while
  the CR's event is pending (`CacheFresh`), that a pass began with it
  (`PassFresh`) and that a pass that waits has applied everything it loaded
  (`Loading`). `ReadyIsApplied` is about the moment Ready is set. `Done` says,
  at each step of a pass, which outdated objects are gone (`Cleaned`) and which
  resources are at the manager's version, or deleted by a user since
  (`Applied`); nothing of it has to survive the pass, so failures and upgrades
  in earlier passes do no harm. The assumption on the constants is that
  manifests and policies are two disjoint finite sequences.
* `ConfigHandlerProofs`: `SettingsSettle` and `SettingsFromTheStart`, for
  contents that leave `ConfigName` alone (`OneConfigMap`; the handler does not
  load another ConfigMap when it is pointed at one, so both are false without).
  Events, the objects of an event and the keys of an object are handled one
  after the other, and in between older values are in force. `Settling` follows
  the last of each: the last event to come has the stored ConfigMap as its new
  object; when none is to come, the last object is the stored one, and each key
  is in force or still to be assigned. `Early` adds that before the first edit
  nothing else is listed. `TypeCorrect` needs no such assumption. Both rest on
  a lemma about `SetToSeqs`, which gives the order of the informer's first
  list.
* `SisbManagerProofs!OneManager`. `r.stopper` cancels only the context of the
  last `Enable`; `Owned` says that no other manager is left to cancel.

TLC has checked every inductive invariant above on a small instance, too. With
these theorems every state invariant and every safety action property of the
passing runs is proved. Only model-checked are the liveness properties, as
fairness and ENABLED are beyond the prover: `DeletionCompletes`,
`ModuleRestoredWhileBlocked`, `BecomesReady`, `DeletionFinishes`,
`NamespaceTakesOver`, `ClusterIdTakesOver`, `Settles`, `Installed`,
`DisabledStops`, `TakesEffect`, `RotationRestarts` and `MetricFollows`.

## Findings

Where a document or a comment says something the code does not do, the module
states it as a property of its own, and a configuration lets TLC find the
counterexample. The first two are runs; the others can be repeated with
`tlc -config <file> MC<module>`.

| Configuration | Property | What the code does |
|---|---|---|
| `Deprovisioning_finalizer` | `FinalizerAfterCleanup` | a blocked pass whose recount finds nothing drops the finalizer with the module installed |
| `CredentialsDrift_failedrestart` | `ClusterIdOverridden` | a Pod whose deletion fails after the cluster-ID Secret's keeps the old ID for ever |
| `Deprovisioning_credentials` | `CleanupIsComplete` | a credentials Secret outside the chart namespace survives the removal |
| `Deprovisioning_unforced` | `ManagerDeletesOnlyIfForced` | objects created between count and hard delete are deleted without the label |
| `Deprovisioning_bindingsecret` | `BindingSecretsGoToo` | a binding's Secret with a name of its own (`spec.secretName`) is not deleted; nor is, ever again, one whose deletion failed |
| `Deprovisioning_removalerror` | `RemovalErrorReported` | a removal that fails in soft-delete mode leaves the CR in Deleting |
| `Deprovisioning_resurrected` | `NoModuleWithoutCr` | a pass from a stale cache can install the module after the CR is gone |
| `BtpOperatorReconciler_recreated` | `DeletingMeansDeleted` | the status update addresses the CR by name, so Deleting lands on a CR created again |
| `BtpOperatorReconciler_stuck` | `ErrorIsRetried` | the event of an added finalizer is dropped for a CR in Error; nothing retries |
| `CredentialsDrift_orphan` | `DefaultNamespaceIsCleared` | a move to the default namespace that fails and is taken back leaves a Secret there |
| `WebhookCertificates_key` | `RenewedInAdvance` | a changed CA key is noticed only when the next signature fails, and then every pass fails |
| `SisbManager_never` | `RunsController` | the nested manager never gets its controller |
| `ConfigHandler_metric` | `MetricTellsTruth` | the metric says "not applied" while the deleted ConfigMap's values are in force |
| `ConfigHandler_probe` | `ProbeCanBeDisabled` | the probe's interval is read once and cannot be set to 0 at runtime |
| `ProbeRunner_alert` | `RestartsWhenHealthy` | a rotation seen during an alert never leads to a restart |
| `ProbeRunner_lag` | `WaitsForTheJob` | a cached read right after the Job's creation does not find it and ends the wait |
| `ProbeRunner_silent` | `SilentExitKeepsMetric` | a silent Job resets the metric |

The lines they contradict:

* `docs/contributor/02-10-operations.md`, lines 67 to 86, for deprovisioning;
  `api/v1alpha1/btpoperator_types.go`, lines 66 to 70, for the states of the CR.
* `docs/user/03-33-migrate-instances-and-bindings.md:65` and
  `docs/user/03-11-customize_secret.md:31` for the credentials;
  `docs/contributor/06-10-certs.md:5` for the certificates.
* `docs/user/resources/02-30-service-binding-cr.md:40` for the names of Secrets;
  the comment at `controllers/probe_runner.go:306` for the wait.
* the comment at `controllers/instance_binding_controller_manager.go:15`;
  `docs/contributor/08-10-metrics.md:11` for the metric of the ConfigMap.
* `docs/contributor/09-10-ca-bundle-probe.md`, lines 17, 20, 74 and 84, for the
  probe.

## Not modelled

* Text processing (`internal/manifest`, `internal/ymlutils`), X.509, hashing and
  TLS themselves: pure functions of the data the models abstract.
* `controllers/serviceinstance_controller.go`: it is never registered
  (`SisbManager_never.cfg`), so no behaviour of the program depends on it.
* `internal/k8s/secrets`, `internal/k8s/generic`, `internal/gvksutils`: one
  request each, present as the requests of the modules above.
* Wiring in `main.go` (clients, schemes, health checks, leader election).
* `cmd/autodoc` and the test servers do not run with the manager.
* A composition of all parts: the reconciler has the outcomes of `Provision`,
  and the modules of a pass have its start and its end. Their product is out of
  TLC's reach, and what they share, the order of requests within a pass, is in
  the source's order in each.
