----------------------- MODULE BtpOperatorReconciler -----------------------
(***************************************************************************)
(* The reconciler of the BtpOperator CR                                    *)
(* (controllers/btpoperator_controller.go): its state machine, the loop    *)
(* that updates the status, the predicate on the CR's own events, and the  *)
(* ways a reconcile is asked for. One worker runs every pass. It reads the *)
(* CR from an informer cache that lags the API server and writes with the  *)
(* resourceVersion it read.                                                *)
(*                                                                         *)
(* The handlers of the single states (provisioning, the check of a Ready   *)
(* module, deprovisioning) appear by their outcomes; deprovisioning keeps  *)
(* its status updates. Module Deprovisioning has its requests.             *)
(***************************************************************************)
EXTENDS Naturals, Sequences, FiniteSets

CONSTANTS
  FailureReasons, \* reasons with which a failing Provision is reported
  MaxCreates,     \* bound: creations of the CR
  MaxEdits,       \* bound: changes made by users to the Secret, the CR's
                  \*   metadata, and the set of instances and bindings
  MaxFails,       \* bound: handlers or requests that fail
  MaxCrashes,     \* bound: restarts of the manager
  MaxLag          \* bound: CR events the informer has not delivered

\* conditions.Reasons: the state that goes with each reason.
ReadyReasons == {"ReconcileSucceeded", "UpdateDone", "UpdateCheckSucceeded"}
ProcessingReasons ==
  {"Updated", "Initialized", "Processing", "UpdateCheck",
   "CredentialsNamespaceChanged", "ClusterIdChanged"}
DeletingReasons == {"HardDeleting", "SoftDeleting"}
WarningReasons ==
  {"WrongNamespaceOrName", "MissingSecret", "ServiceInstancesAndBindingsNotCleaned"}
ErrorReasons ==
  {"ReconcileFailed", "ChartInstallFailed", "ConsistencyCheckFailed", "InvalidSecret",
   "ResourceRemovalFailed", "InconsistentChart", "PreparingInstallInfoFailed",
   "ChartPathEmpty", "DeletionOfOrphanedResourcesFailed", "StoringChartDetailsFailed",
   "GettingConfigMapFailed", "ProvisioningFailed", "GettingDefaultCredentialsSecretFailed",
   "AnnotatingSecretFailed", "GettingSapBtpServiceOperatorConfigMapFailed",
   "GettingSapBtpServiceOperatorClusterIdSecretFailed"}

Reasons == ReadyReasons \cup ProcessingReasons \cup DeletingReasons
             \cup WarningReasons \cup ErrorReasons
Statuses ==
  {<<"absent", "none">>, <<"initial", "none">>}
    \cup ({"Ready"} \X ReadyReasons) \cup ({"Processing"} \X ProcessingReasons)
    \cup ({"Deleting"} \X DeletingReasons) \cup ({"Warning"} \X WarningReasons)
    \cup ({"Error"} \X ErrorReasons)

ASSUME ConstantsAssumption ==
  /\ FailureReasons \subseteq ErrorReasons
  /\ MaxCreates \in Nat /\ MaxEdits \in Nat /\ MaxFails \in Nat
  /\ MaxCrashes \in Nat /\ MaxLag \in Nat \ {0}

NotCleaned == "ServiceInstancesAndBindingsNotCleaned"

\* A version of the CR: state, reason of its condition, and what its metadata
\* says: our finalizer, another finalizer, a deletionTimestamp.
\* A CR nobody has handled yet has the empty state, here "initial".
Gone == [st |-> "absent", rs |-> "none", marks |-> {}]
New  == [st |-> "initial", rs |-> "none", marks |-> {}]

VARIABLES
  \* ---- the API server
  cr,        \* the CR
  secret,    \* the required Secret
  drift,     \* why the installed module no longer fits the required Secret
  blocked,   \* instances or bindings exist and nothing forces their deletion
  installed, \* the module is installed completely
  \* ---- the manager process
  stream,    \* versions of the CR the informer has yet to deliver
  cache,     \* the CR in the informer cache
  queued,    \* a reconcile request is in the work queue
  timer,     \* a RequeueAfter is pending
  pc,        \* the worker's next step
  job,       \* the handler this pass runs
  mine,      \* the worker's in-memory CR
  fresh,     \* the in-memory CR has the current resourceVersion
  goal,      \* the status an update is to bring about
  after,     \* what follows the status update
  sent,      \* outcome of the last request of the update loop
  \* ---- history and bounds
  doomed,    \* the CR has been in the state Deleting
  creates, edits, fails, crashes

world  == <<secret, drift, blocked, installed>>
loop   == <<goal, after, sent>>
bounds == <<creates, edits, crashes>>
vars   == <<cr, world, stream, cache, queued, timer, pc, job, mine, fresh, loop, doomed,
            bounds, fails>>

Init ==
  /\ cr = Gone /\ stream = <<>> /\ cache = Gone
  /\ secret = "valid" /\ drift = "none" /\ blocked = FALSE /\ installed = FALSE
  /\ queued = FALSE /\ timer = FALSE
  /\ pc = "idle" /\ job = "status" /\ mine = Gone /\ fresh = FALSE
  /\ goal = <<"Processing", "Initialized">> /\ after = "return" /\ sent = "nothing"
  /\ doomed = FALSE /\ creates = 0 /\ edits = 0 /\ fails = 0 /\ crashes = 0

Ok == UNCHANGED fails
Fail == fails < MaxFails /\ fails' = fails + 1
-----------------------------------------------------------------------------
(* The API server stores a new version of the CR and sends it to the        *)
(* informer; a deleted CR without finalizers is dropped.                    *)
Kept(new) == IF "del" \in new.marks /\ {"fin", "foreign"} \cap new.marks = {} THEN Gone ELSE new
Store(new) ==
  /\ Len(stream) < MaxLag
  /\ cr' = Kept(new) /\ stream' = Append(stream, Kept(new))
  /\ doomed' = (cr' # Gone /\ (doomed \/ new.st = "Deleting"))

\* A write of the in-memory CR is accepted only with the current version.
Current == cr # Gone /\ fresh

\* Mutant: Processing does not requeue, as if its status event would do.
RequeueReadyOnly(rs) == job = "ready" \/ (job = "deprovision" /\ rs = NotCleaned)
\* Handlers whose result carries a RequeueAfter, given the in-memory reason.
Requeue(rs) == job \in {"provision", "ready"} \/ (job = "deprovision" /\ rs = NotCleaned)

Return(rs) == pc' = "idle" /\ timer' = (timer \/ Requeue(rs)) /\ UNCHANGED <<queued, installed>>

\* A reconcile that returns an error is put back into the queue.
ReturnError == pc' = "idle" /\ queued' = TRUE /\ UNCHANGED timer

\* reconcileResources, which may fail at any of its requests.
TryInstall == installed' = installed \/ (secret = "valid" /\ installed' = TRUE)

\* ReconcileResourcesWithoutStatusChange: what goes wrong is only logged.
Restore == TryInstall

RestoreAndFail == ReturnError /\ Restore

\* The same after module resources have been deleted.
RestoreRemoved == installed' = FALSE \/ (secret = "valid" /\ installed' = TRUE)

\* handleDeprovisioning returned nil: the in-memory reason tells a blocked
\* pass from a finished one.
AfterHandled(rs) ==
  /\ IF rs = NotCleaned THEN pc' = "recount" /\ Restore
                        ELSE pc' = "removeFinalizer" /\ UNCHANGED installed
  /\ UNCHANGED <<queued, timer>>

Update(st, rs, next) ==
  /\ pc' = "get" /\ goal' = <<st, rs>> /\ after' = next /\ sent' = "nothing"
-----------------------------------------------------------------------------
(* UpdateBtpOperatorStatus: get the CR from the cache, stop if it is gone   *)
(* or shows the new status, else send the new status and look again, until  *)
(* StatusUpdateTimeout; then the last request's error is the result.        *)
UpdateReturns ==
  \/ after = "return" /\ Return(mine'.rs)
  \/ after = "blocked" /\ AfterHandled(mine'.rs)
  \/ after = "hard" /\ pc' = "hardDelete" /\ UNCHANGED <<queued, timer, installed>>
  \/ after = "soft" /\ pc' = "softDelete" /\ UNCHANGED <<queued, timer, installed>>
  \/ after = "error" /\ RestoreAndFail

UpdateFails ==
  \/ after = "return" /\ ReturnError /\ UNCHANGED installed
  \/ after # "return" /\ RestoreAndFail

GetStatus ==
  /\ pc = "get"
  /\ \/ cache = Gone /\ UNCHANGED <<mine, fresh>> /\ UpdateReturns
     \/ /\ cache # Gone /\ <<cache.st, cache.rs>> = goal
        /\ mine' = cache /\ fresh' = (stream = <<>>) /\ UpdateReturns
     \/ /\ cache # Gone /\ <<cache.st, cache.rs>> # goal
        /\ mine' = [cache EXCEPT !.st = goal[1], !.rs = goal[2]] /\ fresh' = (stream = <<>>)
        /\ pc' = "send" /\ UNCHANGED <<queued, timer, installed>>
  /\ UNCHANGED <<cr, secret, drift, blocked, stream, cache, job, loop, doomed, bounds, fails>>

SendStatus ==
  /\ pc = "send" /\ pc' = "get"
  /\ \/ /\ Ok /\ Current /\ sent' = "accepted"
        /\ Store([cr EXCEPT !.st = goal[1], !.rs = goal[2]])
     \/ Ok /\ ~Current /\ sent' = "refused" /\ UNCHANGED <<cr, stream, doomed>>
     \/ Fail /\ sent' = "refused" /\ UNCHANGED <<cr, stream, doomed>>
  /\ UNCHANGED <<world, cache, queued, timer, job, mine, fresh, goal, after, bounds>>

StatusUpdateTimeout ==
  /\ pc = "get" /\ sent # "nothing"
  /\ UNCHANGED mine
  /\ IF sent = "accepted" THEN UpdateReturns ELSE UpdateFails
  /\ UNCHANGED <<cr, secret, drift, blocked, stream, cache, job, fresh, loop, doomed, bounds, fails>>
-----------------------------------------------------------------------------
\* A deletionTimestamp that the status does not show yet.
DeletionDetected(c) == "del" \in c.marks /\ c.st # "Deleting" /\ c.rs # NotCleaned

Run(handler) == job' = handler /\ pc' = handler /\ UNCHANGED loop
SetStatus(st, rs) == job' = "status" /\ Update(st, rs, "return")

\* Mutant: a blocked deletion is treated like any other warning.
HandleWarningStateAlike == SetStatus("Processing", "Updated")
HandleWarningState ==
  \/ cache.rs = NotCleaned /\ Run("deprovision")
  \/ cache.rs # NotCleaned /\ SetStatus("Processing", "Updated")

\* Mutant: Error shares the handler of Ready.
DispatchErrorAsReady ==
  \/ cache.st = "initial" /\ SetStatus("Processing", "Initialized")
  \/ cache.st = "Processing" /\ Run("provision")
  \/ cache.st = "Warning" /\ HandleWarningState
  \/ cache.st = "Deleting" /\ Run("deprovision")
  \/ cache.st \in {"Error", "Ready"} /\ Run("ready")
\* The switch over the state of the CR in the cache.
Dispatch ==
  \/ cache.st = "initial" /\ SetStatus("Processing", "Initialized")
  \/ cache.st = "Processing" /\ Run("provision")
  \/ cache.st = "Warning" /\ HandleWarningState
  \/ cache.st = "Error" /\ SetStatus("Processing", "Updated")
  \/ cache.st = "Deleting" /\ Run("deprovision")
  \/ cache.st = "Ready" /\ Run("ready")

Reconcile ==
  /\ pc = "idle" /\ queued
  /\ queued' = FALSE
  /\ mine' = cache /\ fresh' = (stream = <<>>)
  /\ \/ cache = Gone /\ UNCHANGED <<pc, job, loop>>
     \/ cache # Gone /\ "fin" \notin cache.marks /\ Run("addFinalizer")
     \/ "fin" \in cache.marks /\ DeletionDetected(cache) /\ SetStatus("Deleting", "HardDeleting")
     \/ "fin" \in cache.marks /\ ~DeletionDetected(cache) /\ Dispatch
  /\ UNCHANGED <<cr, world, stream, cache, timer, doomed, bounds, fails>>

\* The API server refuses a new finalizer on a CR that is being deleted.
AddFinalizer ==
  /\ pc = "addFinalizer"
  /\ \/ /\ Ok /\ Current /\ "del" \notin cr.marks
        /\ Store([cr EXCEPT !.marks = @ \cup {"fin"}])
        /\ pc' = "idle" /\ UNCHANGED <<queued, timer>>
     \/ Ok /\ ~(Current /\ "del" \notin cr.marks) /\ ReturnError /\ UNCHANGED <<cr, stream, doomed>>
     \/ Fail /\ ReturnError /\ UNCHANGED <<cr, stream, doomed>>
  /\ UNCHANGED <<world, cache, job, mine, fresh, loop, bounds>>

\* Mutant: an unreadable or incomplete Secret is reported as a warning.
SecretProblemWarned == IF secret = "missing" THEN <<"Warning", "MissingSecret">>
                                             ELSE <<"Warning", "InvalidSecret">>
\* The status for a required Secret that cannot be used.
SecretProblem == IF secret = "missing" THEN <<"Warning", "MissingSecret">>
                                       ELSE <<"Error", "InvalidSecret">>

\* Mutant: a new reason that nobody added to the map conditions.Reasons.
ProvisionFailureUnlisted == {<<"Error", "ReadinessTimedOut">>}
\* Mutant: a failed installation counts as a success.
ProvisionFailureIgnored == {<<"Ready", "ReconcileSucceeded">>}
ProvisionFailure == {"Error"} \X FailureReasons

\* HandleProcessingState
Provision ==
  /\ pc = "provision"
  /\ \/ /\ Ok /\ secret # "valid"
        /\ Update(SecretProblem[1], SecretProblem[2], "return")
        /\ UNCHANGED <<installed, drift>>
     \/ /\ Ok /\ secret = "valid"
        /\ installed' = TRUE /\ drift' = "none"
        /\ Update("Ready", "ReconcileSucceeded", "return")
     \/ /\ Fail /\ TryInstall /\ (drift' = drift \/ drift' = "none")
        /\ \E s \in ProvisionFailure : Update(s[1], s[2], "return")
  /\ UNCHANGED <<cr, secret, blocked, stream, cache, queued, timer, job, mine, fresh, doomed, bounds>>

\* HandleReadyState
CheckReady ==
  /\ pc = "ready"
  /\ \/ /\ Ok /\ secret # "valid" /\ UNCHANGED <<installed, timer>>
        /\ Update(SecretProblem[1], SecretProblem[2], "return")
     \/ /\ Ok /\ secret = "valid" /\ drift # "none" /\ UNCHANGED <<installed, timer>>
        /\ Update("Processing", drift, "return")
     \/ /\ Ok /\ secret = "valid" /\ drift = "none" /\ installed' = TRUE
        /\ pc' = "idle" /\ timer' = (timer \/ Requeue(mine.rs)) /\ UNCHANGED loop
     \/ /\ Fail /\ TryInstall /\ UNCHANGED timer
        /\ \E r \in {"InvalidSecret", "GettingDefaultCredentialsSecretFailed", "ReconcileFailed",
                     "GettingSapBtpServiceOperatorConfigMapFailed"} : Update("Error", r, "return")
  /\ UNCHANGED <<cr, secret, drift, blocked, stream, cache, queued, job, mine, fresh, doomed, bounds>>
-----------------------------------------------------------------------------
(* Deprovision, by the status updates it makes.                             *)
Deprovision ==
  /\ pc = "deprovision"
  /\ \/ /\ Ok /\ blocked /\ mine.rs = NotCleaned /\ mine.st = "Warning"
        /\ AfterHandled(mine.rs) /\ UNCHANGED loop
     \/ /\ Ok /\ blocked /\ ~(mine.rs = NotCleaned /\ mine.st = "Warning")
        /\ Update("Warning", NotCleaned, "blocked") /\ UNCHANGED <<queued, timer, installed>>
     \/ /\ Ok /\ ~blocked /\ mine.rs = NotCleaned
        /\ Update("Deleting", "HardDeleting", "hard") /\ UNCHANGED <<queued, timer, installed>>
     \/ /\ Ok /\ ~blocked /\ mine.rs # NotCleaned
        /\ pc' = "hardDelete" /\ UNCHANGED <<queued, timer, installed, loop>>
     \/ Fail /\ RestoreAndFail /\ UNCHANGED loop
  /\ UNCHANGED <<cr, secret, drift, blocked, stream, cache, job, mine, fresh, doomed, bounds>>

\* Mutant: after a timeout the hard deletion is tried again.
HardDeleteAgain ==
  /\ pc = "hardDelete" /\ Ok
  /\ \/ pc' = "removeResources" /\ blocked' = FALSE /\ UNCHANGED loop
     \/ Update("Deleting", "HardDeleting", "error") /\ UNCHANGED blocked
  /\ UNCHANGED <<cr, secret, drift, installed, stream, cache, queued, timer, job, mine, fresh,
                 doomed, bounds>>
\* The goroutine's answer: nothing is left; or an error or the timeout.
HardDelete ==
  /\ pc = "hardDelete" /\ Ok
  /\ \/ pc' = "removeResources" /\ blocked' = FALSE /\ UNCHANGED loop
     \/ Update("Deleting", "SoftDeleting", "soft") /\ UNCHANGED blocked
  /\ UNCHANGED <<cr, secret, drift, installed, stream, cache, queued, timer, job, mine, fresh,
                 doomed, bounds>>

RemoveResources ==
  /\ pc = "removeResources"
  /\ \/ /\ Ok /\ blocked' = FALSE
        /\ IF mine.rs = NotCleaned THEN pc' = "recount" /\ RestoreRemoved
                                   ELSE pc' = "removeFinalizer" /\ installed' = FALSE
        /\ UNCHANGED loop
     \/ /\ Fail /\ UNCHANGED blocked
        /\ installed' = installed \/ installed' = FALSE
        /\ Update("Error", "ResourceRemovalFailed", "error")
  /\ UNCHANGED <<cr, secret, drift, stream, cache, queued, timer, job, mine, fresh, doomed, bounds>>

SoftDelete ==
  /\ pc = "softDelete"
  /\ \/ /\ Ok /\ blocked' = FALSE
        /\ IF mine.rs = NotCleaned THEN pc' = "recount" /\ RestoreRemoved
                                   ELSE pc' = "removeFinalizer" /\ installed' = FALSE
        /\ UNCHANGED <<queued, timer>>
     \/ Fail /\ ReturnError /\ (RestoreRemoved \/ UNCHANGED installed) /\ UNCHANGED blocked
  /\ UNCHANGED <<cr, secret, drift, stream, cache, job, mine, fresh, loop, doomed, bounds>>

\* After a restore a blocked pass counts again.
Recount ==
  /\ pc = "recount"
  /\ \/ Ok /\ blocked /\ Return(mine.rs)
     \/ Ok /\ ~blocked /\ pc' = "removeFinalizer" /\ UNCHANGED <<queued, timer, installed>>
     \/ Fail /\ ReturnError /\ UNCHANGED installed
  /\ UNCHANGED <<cr, secret, drift, blocked, stream, cache, job, mine, fresh, loop, doomed, bounds>>

RemoveFinalizer ==
  /\ pc = "removeFinalizer"
  /\ \/ /\ Ok /\ Current /\ Store([cr EXCEPT !.marks = @ \ {"fin"}])
        /\ Return(mine.rs)
     \/ Ok /\ ~Current /\ ReturnError /\ UNCHANGED <<cr, stream, doomed, installed>>
     \/ Fail /\ ReturnError /\ UNCHANGED <<cr, stream, doomed, installed>>
  /\ UNCHANGED <<secret, drift, blocked, cache, job, mine, fresh, loop, bounds>>
-----------------------------------------------------------------------------
(* Users and the cluster                                                    *)
process == <<cache, timer, pc, job, mine, loop>>
Edit == edits < MaxEdits /\ edits' = edits + 1 /\ UNCHANGED <<creates, crashes, fails>>

UserCreatesCr ==
  /\ creates < MaxCreates /\ creates' = creates + 1
  /\ cr = Gone /\ Store(New) /\ fresh' = FALSE
  /\ UNCHANGED <<world, queued, process, edits, crashes, fails>>

\* Foreground deletion adds a finalizer that the garbage collector removes.
UserDeletesCr ==
  /\ cr # Gone /\ "del" \notin cr.marks /\ fresh' = FALSE
  /\ \E m \in {{"del"}, {"del", "foreign"}} : Store([cr EXCEPT !.marks = @ \cup m])
  /\ UNCHANGED <<world, queued, process, bounds, fails>>

UserEditsCr ==
  /\ Edit /\ cr # Gone /\ Store(cr) /\ fresh' = FALSE
  /\ UNCHANGED <<world, queued, process>>

\* An edit of the required Secret is an event of its watch.
UserEditsSecret ==
  /\ Edit
  /\ \/ secret' \in {"invalid", "missing"} \ {secret} /\ UNCHANGED drift
     \/ /\ secret' = "valid"
        /\ drift' \in {"none", "CredentialsNamespaceChanged", "ClusterIdChanged"}
  /\ queued' = TRUE
  /\ UNCHANGED <<cr, blocked, installed, stream, process, fresh, doomed>>

\* Instances and bindings come and go, or the force-delete label does.
UserBlocks ==
  /\ Edit /\ installed
  /\ blocked' = ~blocked
  /\ UNCHANGED <<cr, secret, drift, installed, stream, queued, process, fresh, doomed>>

GarbageCollect ==
  /\ cr # Gone /\ "foreign" \in cr.marks /\ fresh' = FALSE
  /\ Store([cr EXCEPT !.marks = @ \ {"foreign"}])
  /\ UNCHANGED <<world, queued, process, bounds, fails>>

\* A watched module resource changes.
ModuleEvent ==
  /\ ~queued /\ queued' = TRUE
  /\ UNCHANGED <<cr, world, stream, process, fresh, doomed, bounds, fails>>

\* watchBtpOperatorUpdatePredicate: creations and deletions pass; an update
\* does not if the CR is in trouble and not being deleted.
Wakes(old, new) ==
  old = Gone \/ new = Gone \/ new.st \notin {"Error", "Warning"} \/ "del" \in new.marks

InformerDelivers ==
  /\ stream # <<>>
  /\ cache' = Head(stream) /\ stream' = Tail(stream)
  /\ queued' = (queued \/ Wakes(cache, Head(stream)))
  /\ UNCHANGED <<cr, world, timer, pc, job, mine, fresh, loop, doomed, bounds, fails>>

TimerFires ==
  /\ timer /\ timer' = FALSE /\ queued' = TRUE
  /\ UNCHANGED <<cr, world, stream, cache, pc, job, mine, fresh, loop, doomed, bounds, fails>>

\* The manager restarts; its informer lists the CR and reports it as new.
Crash ==
  /\ crashes < MaxCrashes /\ crashes' = crashes + 1
  /\ pc' = "idle" /\ timer' = FALSE
  /\ cache' = cr /\ stream' = <<>> /\ queued' = (cr # Gone) /\ fresh' = FALSE
  /\ UNCHANGED <<cr, world, job, mine, loop, doomed, creates, edits, fails>>
-----------------------------------------------------------------------------
StatusUpdate == GetStatus \/ SendStatus \/ StatusUpdateTimeout

Handler ==
  \/ AddFinalizer \/ Provision \/ CheckReady \/ Deprovision \/ HardDelete
  \/ RemoveResources \/ SoftDelete \/ Recount \/ RemoveFinalizer

Worker == Reconcile \/ StatusUpdate \/ Handler

Users == UserCreatesCr \/ UserDeletesCr \/ UserEditsCr \/ UserEditsSecret \/ UserBlocks

Next ==
  \/ Worker \/ Users \/ GarbageCollect \/ ModuleEvent
  \/ InformerDelivers \/ TimerFires \/ Crash

Spec == Init /\ [][Next]_vars

\* The worker runs, the informer delivers, timers fire, and the garbage
\* collector removes its finalizer. Users and crashes are not fair, and no
\* event of a module resource is counted on.
Fairness ==
  WF_vars(Worker) /\ WF_vars(InformerDelivers) /\ WF_vars(TimerFires) /\ WF_vars(GarbageCollect)

FairSpec == Spec /\ Fairness
-----------------------------------------------------------------------------
(* Properties                                                              *)
States == {"absent", "initial", "Processing", "Ready", "Warning", "Error", "Deleting"}
Versions ==
  [st : States, rs : Reasons \cup {"none"}, marks : SUBSET {"fin", "foreign", "del"}]

\* What UpdateBtpOperatorStatus may be asked for, right or wrong.
Goals == (States \ {"absent", "initial"}) \X Reasons

Flags ==
  /\ blocked \in BOOLEAN /\ installed \in BOOLEAN /\ queued \in BOOLEAN
  /\ timer \in BOOLEAN /\ fresh \in BOOLEAN /\ doomed \in BOOLEAN

Shapes ==
  /\ cr \in Versions /\ cache \in Versions /\ mine \in Versions
  /\ stream \in Seq(Versions) /\ Len(stream) <= MaxLag
  /\ secret \in {"valid", "invalid", "missing"}
  /\ drift \in {"none", "CredentialsNamespaceChanged", "ClusterIdChanged"}
  /\ pc \in {"idle", "addFinalizer", "get", "send", "provision", "ready", "deprovision",
             "hardDelete", "removeResources", "softDelete", "recount", "removeFinalizer"}
  /\ job \in {"status", "addFinalizer", "provision", "ready", "deprovision"}
  /\ goal \in Goals
  /\ after \in {"return", "blocked", "hard", "soft", "error"}
  /\ sent \in {"nothing", "accepted", "refused"}
  /\ creates \in 0..MaxCreates /\ edits \in 0..MaxEdits
  /\ fails \in 0..MaxFails /\ crashes \in 0..MaxCrashes

\* The values every variable takes; a status update is asked only for reasons
\* that conditions.Reasons lists, since for another one UpdateBtpOperatorStatus
\* writes the state and keeps the condition of the status before.
TypeOK == Flags /\ Shapes

\* The state of the CR is the one its condition's reason stands for, in the
\* table of conditions.Reasons and of the documentation.
StatusConsistent == <<cr.st, cr.rs>> \in Statuses

\* An undelivered event that will wake the reconciler.
WakeUpComing ==
  \E i \in 1..Len(stream) : Wakes(IF i = 1 THEN cache ELSE stream[i-1], stream[i])

\* A CR is never forgotten: whenever the worker rests while the CR exists,
\* something will make it run again.
NoLostWakeup == pc = "idle" /\ cr # Gone => queued \/ timer \/ WakeUpComing

\* A CR reports Ready only after the manager has installed the module, and no
\* longer once it has begun to remove it.
ReadyMeansInstalled == cr.st = "Ready" => installed

\* A CR the user does not delete becomes Ready once the required Secret stays
\* valid, whatever failed before.
BecomesReady ==
  <>[](cr # Gone /\ "del" \notin cr.marks /\ secret = "valid") => []<>(cr.st = "Ready")

\* A deleted CR goes away unless instances or bindings keep blocking it.
DeletionFinishes ==
  [](cr # Gone /\ "del" \in cr.marks => <>(cr = Gone \/ blocked))

\* The reconciler implements the life cycle promised to users.
Lifecycle ==
  INSTANCE BtpOperatorLifecycle
    WITH phase <- cr.st, deleted <- "del" \in cr.marks, held <- "fin" \in cr.marks
LifecycleSpec == Lifecycle!Spec
-----------------------------------------------------------------------------
\* The inductive form of StatusConsistent: what is about to be written is
\* paired, too.
StatusSound == StatusConsistent /\ (pc \in {"get", "send"} => goal \in Statuses)

(* The inductive invariant behind NoLostWakeup, for a CR that is created    *)
(* once.                                                                    *)
Dying == cr = Gone \/ "del" \in cr.marks

\* What a version of the CR, current or not, says about the CR: deletion and
\* our finalizer are noticed late but not forgotten.
Settled(v) ==
  /\ "del" \in v.marks \/ v.st = "Deleting" \/ v.rs = NotCleaned => Dying
  /\ "fin" \in v.marks => Dying \/ "fin" \in cr.marks

\* The CR has no status before it has our finalizer.
Untouched == cr # Gone /\ "fin" \notin cr.marks /\ "del" \notin cr.marks => cr.st = "initial"

\* The stream leads from the cached version to the current one, and no
\* version of an existing CR is behind a deletion.
LastVersion == IF stream = <<>> THEN cache ELSE stream[Len(stream)]
StreamSound ==
  /\ LastVersion = cr
  /\ \A i \in 1..Len(stream) : Settled(stream[i]) /\ (cr # Gone => stream[i] # Gone)
  /\ Settled(cache) /\ Settled(cr)
  /\ Untouched

\* Before the CR is created there is nothing to do.
NothingYet == creates = 0 => cr = Gone /\ cache = Gone /\ stream = <<>> /\ pc = "idle"

PassSound ==
  /\ pc = "addFinalizer" /\ fresh => "fin" \notin cr.marks
  /\ pc \notin {"idle", "addFinalizer"} => Dying \/ "fin" \in cr.marks
  /\ pc = "provision" => job = "provision"
  /\ pc = "ready" => job = "ready"
  /\ pc \in {"deprovision", "hardDelete", "removeResources", "softDelete", "recount",
            "removeFinalizer"} => job = "deprovision"
  /\ pc = "recount" => mine.rs = NotCleaned
  /\ pc # "idle" /\ job = "deprovision" => Dying
  /\ pc \in {"get", "send"} =>
       /\ goal[1] = "Deleting" \/ goal[2] = NotCleaned => Dying
       /\ job # "addFinalizer"
       /\ job = "deprovision" <=> after # "return"

\* A pass that only sets the status counts on the event of its own update.
StatusEventComing ==
  pc \in {"get", "send"} /\ job = "status" =>
    /\ goal[1] \in {"Processing", "Deleting"}
    /\ <<cache.st, cache.rs>> = goal => queued
    /\ sent = "accepted" => queued \/ WakeUpComing

WakeUps == StreamSound /\ NothingYet /\ PassSound /\ StatusEventComing /\ NoLostWakeup
IInv == TypeOK /\ WakeUps

(* What keeps Ready true to the cluster, for a CR that is created once.     *)
\* A version that makes a pass deprovision, and one that is deleted.
Ending(v) == v.st = "Deleting" \/ v.rs = NotCleaned
Deleted(v) == v = Gone \/ "del" \in v.marks

NoneEnding == ~Ending(cache) /\ \A i \in 1..Len(stream) : ~Ending(stream[i])

\* Deletion is not undone in a later version, a removed CR has none, and a
\* status of deprovisioning is written only once the cache shows the deletion.
VersionOrder ==
  /\ cache.rs = NotCleaned => cache.st = "Warning"
  /\ Ending(cache) => "del" \in cache.marks
  /\ \A i \in 1..Len(stream) :
       /\ stream[i].rs = NotCleaned => stream[i].st = "Warning"
       /\ Ending(stream[i]) => "del" \in cache.marks
       /\ "del" \in cache.marks => Deleted(stream[i])
       /\ \A j \in 1..Len(stream) : i < j =>
            stream[i] # Gone /\ ("del" \in stream[i].marks => Deleted(stream[j]))

\* The worker is deprovisioning, or on its way to report Ready.
Steps == {"deprovision", "hardDelete", "removeResources", "softDelete", "recount",
          "removeFinalizer"}
Removing ==
  \/ pc \in Steps
  \/ pc \in {"get", "send"} /\ after # "return"
Reporting == pc \in {"get", "send"} /\ goal[1] = "Ready"

\* A pass that deprovisions knows of a deletion, and one that reports Ready
\* has installed the module and is not followed by a deprovisioning status.
PassOrder ==
  /\ Removing => Deleted(cache) /\ cr.st # "Ready"
  /\ pc \in {"get", "send"} /\ (goal[1] = "Deleting" \/ goal[2] = NotCleaned) => Deleted(cache)
  /\ pc = "provision" \/ Reporting => NoneEnding
  /\ Reporting => installed /\ after = "return"
  /\ pc = "send" /\ fresh => stream = <<>>
  /\ cache = Gone /\ pc # "idle" => stream = <<>>

ReadyInv == VersionOrder /\ PassOrder /\ (cr.st = "Ready" => installed /\ NoneEnding)

(* What keeps the promises of BtpOperatorLifecycle, for a CR that is        *)
(* created once.                                                            *)
CrOrder ==
  /\ cr.st = "absent" => cr = Gone
  /\ "del" \in cr.marks => {"fin", "foreign"} \cap cr.marks # {}
  /\ cr.st = "Deleting" => doomed
  /\ doomed => cr # Gone /\ "del" \in cache.marks

\* A CR that deprovisioning has reached, or that has left.
Lost == cr = Gone \/ doomed

\* What a version tells about the CR until deprovisioning reaches it.
Tells(v) ==
  /\ "fin" \in v.marks => Lost \/ "fin" \in cr.marks
  /\ v.st \notin {"absent", "initial"} => cr.st # "initial"
  /\ Ending(v) => Lost

Updating(nexts) == pc \in {"get", "send"} /\ after \in nexts

PassTells ==
  /\ pc \notin {"idle", "addFinalizer"} => Lost \/ "fin" \in cr.marks
  /\ Removing => Lost
  /\ pc \in {"provision", "ready"} => ~doomed /\ cr.st # "initial"
  /\ Updating({"return"}) /\ goal[1] # "Deleting" =>
       ~doomed /\ (goal[1] # "Processing" => cr.st # "initial")
  /\ Updating({"return"}) => goal[2] # NotCleaned
  /\ Updating({"error"}) => goal[1] = "Error"
  /\ Updating({"blocked", "hard", "soft"}) =>
       mine.st \in {"Deleting", "Warning"} /\ goal[1] \in {"Deleting", "Warning"}
  /\ pc = "send" => mine.st = goal[1]
  /\ pc \in Steps => mine.st \in {"Deleting", "Warning"}
  /\ (pc \in Steps \/ (pc = "get" /\ sent = "accepted")) /\ fresh => cr = Gone \/ cr.st = mine.st

LifeInv == CrOrder /\ Tells(cache) /\ (\A i \in 1..Len(stream) : Tells(stream[i])) /\ PassTells
-----------------------------------------------------------------------------
\* api/v1alpha1/btpoperator_types.go: Deleting "is the state that is used
\* when a deletionTimestamp was detected".
DeletingMeansDeleted == cr.st = "Deleting" => "del" \in cr.marks

\* The same file on Error: "it can be expected that this state should change
\* on the next retry".
ErrorIsRetried == [](cr.st = "Error" => <>(cr.st # "Error"))
=============================================================================
