--------------------------- MODULE Deprovisioning ---------------------------
(***************************************************************************)
(* Deprovisioning of the SAP BTP service operator                          *)
(* (internal/deprovisioning/handler.go), run by the single reconcile       *)
(* worker for a BtpOperator CR whose deletionTimestamp is set.             *)
(*                                                                         *)
(* Four parties interleave at the granularity of one API request:          *)
(*   - the reconcile worker: Reconcile -> Deprovision ->                   *)
(*     handleDeprovisioning -> handleSoftDelete, and the restore           *)
(*     (ReconcileResourcesWithoutStatusChange) after a failure or a block; *)
(*   - the hard-delete goroutines, one per pass, which may outlive the     *)
(*     pass that started them;                                             *)
(*   - the users, who create and delete service instances and bindings,    *)
(*     namespaces, the force-delete label and the required Secret;         *)
(*   - the cluster: the operand that clears finalizers while its           *)
(*     Deployment is installed, the CRD garbage collection, the informer.  *)
(***************************************************************************)
EXTENDS Naturals, Sequences, FiniteSets

CONSTANTS
  Bindings,       \* names of ServiceBindings users may create
  Instances,      \* names of ServiceInstances users may create
  Namespaces,     \* namespaces that may exist
  HomeOf,         \* the namespace of every binding and instance
  Renamed,        \* bindings whose spec.secretName is not their own name
  FirstNamespaces,\* the namespaces that exist from the start
  Deleters,       \* identities of hard-delete goroutines alive at one time
  CredentialsInChartNamespace, \* credentials_namespace is the chart namespace
  MaxCreates,     \* bound: objects created by users
  MaxEdits,       \* bound: changes of the label and of the required Secret
  MaxFails,       \* bound: API requests that fail
  MaxCrashes      \* bound: restarts of the manager

Objects == Bindings \cup Instances

ASSUME ConstantsAssumption ==
  /\ Bindings \cap Instances = {}
  /\ HomeOf \in [Objects -> Namespaces] /\ Renamed \subseteq Bindings
  /\ FirstNamespaces \subseteq Namespaces
  /\ Deleters # {}
  /\ CredentialsInChartNamespace \in BOOLEAN
  /\ MaxCreates \in Nat /\ MaxEdits \in Nat /\ MaxFails \in Nat /\ MaxCrashes \in Nat

VARIABLES
  \* ---- the API server
  present,  \* the CR exists (our finalizer holds it)
  status,   \* reason of the CR's Ready condition; it determines the state
  force,    \* the force-delete label
  objs,     \* life cycle of every binding and instance
  bsec,     \* bindings whose Secret exists
  nss,      \* existing namespaces
  crd,      \* the ServiceInstance and ServiceBinding CRDs
  mod,      \* installed groups of module resources other than the CRDs
  secret,   \* the required sap-btp-manager Secret
  \* ---- the manager process
  cached,   \* the informer cache holds the CR
  cforce,   \* the force-delete label in the informer cache
  cnss,     \* the namespaces in the informer cache
  queued,   \* a reconcile request is in the work queue
  timer,    \* a RequeueAfter is pending
  pc,       \* the reconcile worker's next step
  k,        \* index of the next resource group to delete or to apply
  cont,     \* what follows the restore: return the error or recount
  lrs,      \* reason held by the worker's in-memory CR
  lforce,   \* force-delete label of the in-memory CR
  lfresh,   \* the in-memory CR has the current resourceVersion
  nsKnown,  \* the drift detector knows the credentials namespace
  listed,   \* namespaces listed by this pass
  seen,     \* the last count of bindings was positive
  todo,     \* objects listed by softDelete, as listed, not yet treated; a
            \* binding that lost its finalizers and not yet its Secret
  cur,      \* the goroutine started by this pass
  g,        \* the hard-delete goroutines
  \* ---- history and bounds
  skipped,  \* this pass skipped the counts because of the label
  young,    \* objects created since this pass began
  lost,     \* bindings whose Secret softDelete failed, or had no time, to delete
  creates, edits, fails, crashes

cr    == <<present, status, force>>
world == <<objs, bsec, nss, crd, mod, secret>>
cache == <<cached, cforce, cnss>>
mem   == <<lrs, lforce, lfresh>>
scan  == <<nsKnown, listed, seen, todo, skipped>>
vars  == <<cr, world, cache, queued, timer, pc, k, cont, mem, scan, cur, g,
           young, lost, creates, edits, fails, crashes>>

\* Reasons of the CR's condition this module tells apart. "Other" stands for
\* every status the CR can have before deprovisioning starts.
Reasons == {"Other", "HardDeleting", "SoftDeleting", "NotCleaned", "ResourceRemovalFailed"}
Groups == {"deployment", "credentials", "other", "webhooks", "clusterId"}

\* Mutant: the webhook configurations are not applied.
ApplyOrderShort == <<"crd", "deployment", "credentials", "other">>
\* Manifest files are read in the order of their names; webhook
\* configurations are split off and applied last.
ApplyOrder == <<"crd", "deployment", "credentials", "other", "webhooks">>
\* Mutant: the cluster-ID Secret is forgotten.
DeleteOrderShort == <<"crd", "deployment", "credentials", "other", "webhooks">>
\* deleteAllOfResourcesTypes follows the manifests; network policies (in
\* "other") and the operand's cluster-ID Secret come last.
DeleteOrder == <<"crd", "deployment", "credentials", "other", "webhooks", "clusterId">>

\* A goroutine: its next step, the namespaces it was given, the CRDs it found,
\* what it has noted, and the answer in its channel.
NoDeleter == [pc |-> "none", ns |-> {}, crds |-> {}, noted |-> {}, ch |-> "empty"]

CrdExists == crd # "gone"
\* A list of a kind that is no longer served has no items.
AnyOf(S) == CrdExists /\ \E o \in S : objs[o] # "absent"
InNamespaces(S, ns) == {o \in S : HomeOf[o] \in ns}
\* Delete on an object that holds the operand's finalizer.
Deleted(S) == [o \in Objects |-> IF o \in S /\ objs[o] = "active" THEN "deleting" ELSE objs[o]]

Init ==
  /\ present = TRUE /\ status = "Other" /\ force \in BOOLEAN
  /\ objs \in [Objects -> {"absent", "active"}]
  /\ \A o \in Objects : objs[o] # "absent" => HomeOf[o] \in FirstNamespaces
  /\ bsec = {b \in Bindings : objs[b] = "active"}
  /\ nss = FirstNamespaces /\ crd = "present" /\ mod = Groups /\ secret = "valid"
  /\ cached = TRUE /\ cforce = force /\ cnss = nss /\ queued = TRUE /\ timer = FALSE
  /\ pc = "idle" /\ k = 1 /\ cont = "err"
  /\ lrs = "Other" /\ lforce = FALSE /\ lfresh = FALSE
  /\ nsKnown = FALSE /\ listed = {} /\ seen = FALSE /\ todo = {} /\ skipped = FALSE
  /\ cur \in Deleters /\ g = [d \in Deleters |-> NoDeleter]
  /\ young = {} /\ lost = {} /\ creates = 0 /\ edits = 0 /\ fails = 0 /\ crashes = 0

Ok == UNCHANGED fails
Fail == fails < MaxFails /\ fails' = fails + 1
Goto(p) == pc' = p /\ k' = 1
\* Mutant: the error is dropped.
RestoreAndRecount == Goto("restore") /\ cont' = "recount"
\* handleDeprovisioning returned an error: Deprovision restores the module
\* resources and then returns that error.
RestoreAndFail == Goto("restore") /\ cont' = "err"
\* A reconcile that returns an error is put back into the queue.
ReturnError == Goto("idle") /\ queued' = TRUE
-----------------------------------------------------------------------------
(* Reconcile of a CR with a deletionTimestamp and our finalizer. A CR the   *)
(* cache still shows after it is gone is reconciled as well.                *)
Reconcile ==
  /\ pc = "idle" /\ queued
  /\ queued' = FALSE
  /\ young' = {}
  /\ lrs' = status /\ lforce' = cforce /\ lfresh' = (present /\ cforce = force)
  /\ Goto(CASE ~cached -> "idle"
            [] cached /\ status \in {"HardDeleting", "SoftDeleting", "NotCleaned"} -> "getSecret"
            [] OTHER -> "setDeleting")
  /\ UNCHANGED <<cr, world, cache, timer, cont, scan, cur, g, lost, creates, edits, fails,
                 crashes>>

(* UpdateBtpOperatorStatus as its callers see it: the status is written, or *)
(* the CR is gone and nothing is written (both return nil), or it gives up  *)
(* with an error. Each Get of its loop replaces the caller's in-memory CR,  *)
(* and the new reason is set in memory before it is sent. A status that is  *)
(* already in place is confirmed from the cache without a request.          *)
StatusWritten(rs) ==
  /\ Ok /\ UNCHANGED <<present, force>>
  /\ \/ /\ present /\ status # rs
        /\ status' = rs /\ lrs' = rs /\ lforce' = force /\ lfresh' = TRUE
     \/ /\ present /\ status = rs
        /\ lrs' = rs /\ lforce' = cforce /\ lfresh' = (cforce = force)
        /\ UNCHANGED status
     \/ /\ ~present
        /\ lrs' = lrs \/ lrs' = rs
        /\ UNCHANGED <<status, lforce, lfresh>>

StatusNotWritten(rs) ==
  /\ Fail /\ UNCHANGED <<present, force, lforce>>
  /\ status' = status \/ (present /\ status' = rs)
  /\ lrs' = lrs \/ lrs' = rs
  /\ lfresh' = lfresh \/ lfresh' = FALSE

\* A status change of the CR wakes the reconciler through its own watch.
WokenByStatus == queued' = (queued \/ status' # status)
\* So do changes of the watched module resources: the Deployment, the network
\* policies and certificate Secrets (in "other"), the webhook configurations.
Watched == {"deployment", "other", "webhooks"}
WokenByModule == queued' = (queued \/ mod' \cap Watched # mod \cap Watched)

SetDeleting ==
  /\ pc = "setDeleting"
  /\ \/ StatusWritten("HardDeleting") /\ Goto("idle") /\ WokenByStatus
     \/ StatusNotWritten("HardDeleting") /\ ReturnError
  /\ UNCHANGED <<world, cache, timer, cont, scan, cur, g, young, lost, creates, edits, crashes>>
-----------------------------------------------------------------------------
(* Deprovision, first part: the required Secret tells the drift detector    *)
(* which namespace holds the operand's credentials.                         *)
GetSecret ==
  /\ pc = "getSecret"
  /\ \/ /\ Ok /\ Goto("listNamespaces")
        /\ nsKnown' = (CredentialsInChartNamespace \/ secret # "missing")
        /\ UNCHANGED queued
     \/ Fail /\ ReturnError /\ UNCHANGED nsKnown
  /\ UNCHANGED <<cr, world, cache, timer, cont, mem, listed, seen, todo, skipped, cur, g,
                 young, lost, creates, edits, crashes>>

\* Where handleDeprovisioning goes once nothing blocks it.
Unblocked == IF lrs = "NotCleaned" THEN "setHard" ELSE "launch"

ListNamespaces ==
  /\ pc = "listNamespaces"
  /\ \/ /\ Ok /\ listed' = cnss /\ skipped' = lforce
        /\ Goto(IF lforce THEN Unblocked ELSE "countBindings")
        /\ UNCHANGED cont
     \/ Fail /\ RestoreAndFail /\ UNCHANGED <<listed, skipped>>
  /\ UNCHANGED <<cr, world, cache, queued, timer, mem, nsKnown, seen, todo, cur, g,
                 young, lost, creates, edits, crashes>>

CountBindings ==
  /\ pc = "countBindings"
  /\ \/ Ok /\ seen' = AnyOf(Bindings) /\ Goto("countInstances") /\ UNCHANGED cont
     \/ Fail /\ RestoreAndFail /\ UNCHANGED seen
  /\ UNCHANGED <<cr, world, cache, queued, timer, mem, nsKnown, listed, todo, skipped, cur, g,
                 young, lost, creates, edits, crashes>>

\* Mutant: only instances block.
BlockingInstances == AnyOf(Instances)
Blocking == seen \/ AnyOf(Instances)

CountInstances ==
  /\ pc = "countInstances"
  /\ \/ /\ Ok /\ Blocking /\ lrs = "NotCleaned"
        /\ Goto("restore") /\ cont' = "recount"
     \/ /\ Ok /\ Blocking /\ lrs # "NotCleaned"
        /\ Goto("setNotCleaned") /\ UNCHANGED cont
     \/ /\ Ok /\ ~Blocking
        /\ Goto(Unblocked) /\ UNCHANGED cont
     \/ Fail /\ RestoreAndFail
  /\ UNCHANGED <<cr, world, cache, queued, timer, mem, scan, cur, g, young, lost, creates,
                 edits, crashes>>

\* handleDeprovisioning returned nil: Deprovision looks at the reason of the
\* in-memory CR to tell a blocked pass from a finished one.
AfterHandled(rs) ==
  IF rs = "NotCleaned" THEN Goto("restore") /\ cont' = "recount"
                       ELSE Goto("removeFinalizer") /\ UNCHANGED cont

SetNotCleaned ==
  /\ pc = "setNotCleaned"
  /\ \/ StatusWritten("NotCleaned") /\ AfterHandled(lrs')
     \/ StatusNotWritten("NotCleaned") /\ RestoreAndFail
  /\ WokenByStatus
  /\ UNCHANGED <<world, cache, timer, scan, cur, g, young, lost, creates, edits, crashes>>

SetHard ==
  /\ pc = "setHard"
  /\ \/ StatusWritten("HardDeleting") /\ Goto("launch") /\ UNCHANGED cont
     \/ StatusNotWritten("HardDeleting") /\ RestoreAndFail
  /\ WokenByStatus
  /\ UNCHANGED <<world, cache, timer, scan, cur, g, young, lost, creates, edits, crashes>>
-----------------------------------------------------------------------------
\* The goroutine of handleHardDelete, which keeps the namespaces listed here.
Launch ==
  /\ pc = "launch"
  /\ \E d \in Deleters :
       /\ g[d].pc = "none"
       /\ cur' = d
       /\ g' = [g EXCEPT ![d] = [pc |-> "bindings", ns |-> listed, crds |-> {},
                                 noted |-> {}, ch |-> "empty"]]
  /\ Goto("select")
  /\ UNCHANGED <<cr, world, cache, queued, timer, cont, mem, scan, young, lost, creates, edits,
                 fails, crashes>>

\* The select of handleDeprovisioning: the goroutine's answer or the timeout.
HardDeleteAnswered ==
  /\ pc = "select" /\ g[cur].ch # "empty"
  /\ Goto(IF g[cur].ch = "true" THEN "deleteHard" ELSE "setSoft")
  /\ UNCHANGED <<cr, world, cache, queued, timer, cont, mem, scan, cur, g, young, lost,
                 creates, edits,
                 fails, crashes>>

HardDeleteTimeout ==
  /\ pc = "select"
  /\ g' = [g EXCEPT ![cur].noted = @ \cup {"stop"}]
  /\ Goto("setSoft")
  /\ UNCHANGED <<cr, world, cache, queued, timer, cont, mem, scan, cur, young, lost, creates,
                 edits,
                 fails, crashes>>

SetSoft ==
  /\ pc = "setSoft"
  /\ \/ StatusWritten("SoftDeleting") /\ Goto("preSoftDelete") /\ UNCHANGED cont
     \/ StatusNotWritten("SoftDeleting") /\ RestoreAndFail
  /\ WokenByStatus
  /\ UNCHANGED <<world, cache, timer, scan, cur, g, young, lost, creates, edits, crashes>>
-----------------------------------------------------------------------------
(* handleSoftDelete: the Deployment, then the webhook configurations go     *)
(* first; a failure leaves what was deleted before it.                      *)
PreSoftDelete ==
  /\ pc = "preSoftDelete"
  /\ \/ /\ Ok /\ mod' = mod \ {"deployment", "webhooks"}
        /\ Goto("checkCrds") /\ UNCHANGED cont
     \/ /\ Fail /\ RestoreAndFail
        /\ mod' \in {mod, mod \ {"deployment"}, mod \ {"deployment", "webhooks"}}
  /\ WokenByModule
  /\ UNCHANGED <<cr, objs, bsec, nss, crd, secret, cache, timer, mem, scan, cur, g,
                 young, lost, creates, edits, crashes>>

\* Mutant: instances are treated before bindings.
InstancesFirst == IF CrdExists THEN "listInstances" ELSE "deleteSoft"
BindingsFirst == IF CrdExists THEN "listBindings" ELSE "deleteSoft"

CheckCrds ==
  /\ pc = "checkCrds"
  /\ \/ Ok /\ Goto(BindingsFirst) /\ UNCHANGED cont
     \/ Fail /\ RestoreAndFail
  /\ UNCHANGED <<cr, world, cache, queued, timer, mem, scan, cur, g, young, lost, creates,
                 edits, crashes>>

\* softDelete of one kind works on the list it read first. Listing a kind
\* that is no longer served is an error.
SoftList(S, p, next) ==
  /\ pc = p
  /\ \/ /\ Ok /\ CrdExists /\ Goto(next) /\ UNCHANGED cont
        /\ todo' = {<<o, objs[o]>> : o \in {x \in S : objs[x] # "absent"}}
     \/ Ok /\ ~CrdExists /\ RestoreAndFail /\ UNCHANGED todo
     \/ Fail /\ RestoreAndFail /\ UNCHANGED todo
  /\ UNCHANGED <<cr, world, cache, queued, timer, mem, nsKnown, listed, seen, skipped,
                 cur, g, young, lost, creates, edits, crashes>>

(* One item of that list. Update sends the resourceVersion of the list:     *)
(*  - an item listed without a deletionTimestamp is deleted first, which    *)
(*    makes the Update a conflict: the pass ends with that error;           *)
(*  - an item listed as being deleted loses its finalizers, and is gone;    *)
(*    the Secret of a binding is next. An item gone by then is an error.    *)
Stripped == {t \in todo : t[2] = "stripped"}

SoftItem(p, next) ==
  /\ pc = p /\ Stripped = {}
  /\ \/ /\ todo = {} /\ Ok /\ Goto(next)
        /\ UNCHANGED <<objs, todo, cont>>
     \/ \E t \in todo :
          /\ t[2] = "active" /\ Ok /\ RestoreAndFail
          /\ objs' = Deleted({t[1]})
          /\ UNCHANGED todo
     \/ \E t \in todo :
          /\ t[2] = "deleting" /\ objs[t[1]] = "deleting" /\ Ok
          /\ objs' = [objs EXCEPT ![t[1]] = "absent"]
          /\ todo' = (todo \ {t}) \cup ({t[1]} \cap Bindings) \X {"stripped"}
          /\ UNCHANGED <<pc, k, cont>>
     \/ \E t \in todo :
          /\ t[2] = "deleting" /\ objs[t[1]] # "deleting" /\ Ok /\ RestoreAndFail
          /\ UNCHANGED <<objs, todo>>
     \/ todo # {} /\ Fail /\ RestoreAndFail /\ UNCHANGED <<objs, todo>>
  /\ UNCHANGED <<cr, bsec, nss, crd, mod, secret, cache, queued, timer, mem, nsKnown, listed,
                 seen, skipped, cur, g, young, lost, creates, edits, crashes>>

\* Mutant: only the finalizers of a binding are looked after.
SecretKept(o) == bsec
\* softDelete deletes the Secret that has the name of the binding.
SecretDeleted(o) == bsec \ ({o} \ Renamed)

\* softDelete stops before it has deleted the Secret; it does not come back.
LostNow == lost \cup {t[1] : t \in Stripped}

SoftSecret ==
  /\ pc = "softBindings"
  /\ \E t \in Stripped :
       \/ /\ Ok /\ bsec' = SecretDeleted(t[1]) /\ todo' = todo \ {t}
          /\ UNCHANGED <<pc, k, cont, lost>>
       \/ /\ Fail /\ RestoreAndFail /\ lost' = LostNow
          /\ UNCHANGED <<bsec, todo>>
  /\ UNCHANGED <<cr, objs, nss, crd, mod, secret, cache, queued, timer, mem, nsKnown, listed,
                 seen, skipped, cur, g, young, creates, edits, crashes>>

\* ensureResourcesDontExist
SoftEnsure(S, p, next) ==
  /\ pc = p
  /\ \/ Ok /\ ~AnyOf(S) /\ Goto(next) /\ UNCHANGED cont
     \/ Ok /\ AnyOf(S) /\ RestoreAndFail
     \/ Fail /\ RestoreAndFail
  /\ UNCHANGED <<cr, world, cache, queued, timer, mem, scan, cur, g, young, lost, creates,
                 edits, crashes>>

ListBindings   == SoftList(Bindings, "listBindings", "softBindings")
SoftBindings   == SoftItem("softBindings", "ensureBindings")
EnsureBindings == SoftEnsure(Bindings, "ensureBindings", "listInstances")
ListInstances   == SoftList(Instances, "listInstances", "softInstances")
SoftInstances   == SoftItem("softInstances", "ensureInstances")
EnsureInstances == SoftEnsure(Instances, "ensureInstances", "deleteSoft")
-----------------------------------------------------------------------------
(* deleteBtpOperatorResources, one group at a time. Deleting the CRDs       *)
(* deletes every remaining object and lasts until the last one is gone.     *)
(* DeleteAllOf looks in the chart namespace only.                           *)
Remove(group) ==
  IF group = "crd"
  THEN /\ objs' = Deleted(Objects)
       /\ crd' = IF \A o \in Objects : objs[o] = "absent" THEN "gone"
                 ELSE IF crd = "gone" THEN "gone" ELSE "terminating"
       /\ UNCHANGED mod
  ELSE /\ mod' = CASE group = "credentials" /\ ~CredentialsInChartNamespace -> mod
                   [] group = "clusterId" /\ ~nsKnown -> mod
                   [] OTHER -> mod \ {group}
       /\ UNCHANGED <<objs, crd>>

\* Mutant: the loop runs one turn too far.
AllDeletedLate == k > Len(DeleteOrder)
AllDeleted == k = Len(DeleteOrder)

DeleteHard ==
  /\ pc = "deleteHard"
  /\ \/ /\ Ok /\ Remove(DeleteOrder[k])
        /\ IF AllDeleted THEN AfterHandled(lrs) ELSE k' = k + 1 /\ UNCHANGED <<pc, cont>>
     \/ Fail /\ Goto("setError") /\ UNCHANGED <<objs, crd, mod, cont>>
  /\ WokenByModule
  /\ UNCHANGED <<cr, bsec, nss, secret, cache, timer, mem, scan, cur, g, young, lost, creates,
                 edits, crashes>>

DeleteSoft ==
  /\ pc = "deleteSoft"
  /\ \/ /\ Ok /\ Remove(DeleteOrder[k])
        /\ IF AllDeleted THEN AfterHandled(lrs) ELSE k' = k + 1 /\ UNCHANGED <<pc, cont>>
     \/ Fail /\ RestoreAndFail /\ UNCHANGED <<objs, crd, mod>>
  /\ WokenByModule
  /\ UNCHANGED <<cr, bsec, nss, secret, cache, timer, mem, scan, cur, g, young, lost, creates,
                 edits, crashes>>

SetError ==
  /\ pc = "setError"
  /\ StatusWritten("ResourceRemovalFailed") \/ StatusNotWritten("ResourceRemovalFailed")
  /\ RestoreAndFail /\ WokenByStatus
  /\ UNCHANGED <<world, cache, timer, scan, cur, g, young, lost, creates, edits, crashes>>
-----------------------------------------------------------------------------
(* ReconcileResourcesWithoutStatusChange: its errors are only logged.       *)
RestoreDone ==
  IF cont = "err" THEN ReturnError ELSE Goto("recountBindings") /\ WokenByModule

Restore ==
  /\ pc = "restore"
  /\ UNCHANGED world
  /\ \/ Ok /\ secret = "valid" /\ Goto("apply") /\ UNCHANGED queued
     \/ Ok /\ secret # "valid" /\ RestoreDone
     \/ Fail /\ RestoreDone
  /\ UNCHANGED <<cr, cache, timer, cont, mem, scan, cur, g, young, lost, creates, edits, crashes>>

Apply ==
  /\ pc = "apply"
  /\ \/ /\ Ok
        /\ IF ApplyOrder[k] = "crd"
           THEN crd' = (IF crd = "gone" THEN "present" ELSE crd) /\ UNCHANGED mod
           ELSE mod' = mod \cup {ApplyOrder[k]} /\ UNCHANGED crd
        /\ IF k < Len(ApplyOrder) THEN k' = k + 1 /\ WokenByModule /\ UNCHANGED pc
                                  ELSE RestoreDone
     \/ Fail /\ UNCHANGED <<crd, mod>> /\ RestoreDone
  /\ UNCHANGED <<cr, objs, bsec, nss, secret, cache, timer, cont, mem, scan, cur, g, young,
                 lost, creates, edits, crashes>>

(* Deprovision, last part: a blocked pass counts again after the restore;   *)
(* if nothing is left it goes on to remove the finalizer.                   *)
RecountBindings ==
  /\ pc = "recountBindings"
  /\ \/ Ok /\ seen' = AnyOf(Bindings) /\ Goto("recountInstances") /\ UNCHANGED queued
     \/ Fail /\ ReturnError /\ UNCHANGED seen
  /\ UNCHANGED <<cr, world, cache, timer, cont, mem, nsKnown, listed, todo, skipped, cur, g,
                 young, lost, creates, edits, crashes>>

\* Mutant: a blocked deletion is not requeued.
LeaveBlockedForGood == UNCHANGED timer
\* Leaving the deletion blocked asks for another reconcile later.
LeaveBlocked == timer' = TRUE

RecountInstances ==
  /\ pc = "recountInstances"
  /\ \/ Ok /\ Blocking /\ Goto("idle") /\ LeaveBlocked /\ UNCHANGED queued
     \/ /\ Ok /\ ~Blocking
        /\ Goto("removeFinalizer") /\ UNCHANGED <<queued, timer>>
     \/ Fail /\ ReturnError /\ UNCHANGED timer
  /\ UNCHANGED <<cr, world, cache, cont, mem, scan, cur, g, young, lost, creates, edits, crashes>>

\* The Update is refused when the in-memory CR is stale or the CR is gone.
RemoveFinalizer ==
  /\ pc = "removeFinalizer"
  /\ \/ /\ Ok /\ present /\ lfresh /\ present' = FALSE
        /\ Goto("idle") /\ timer' = (timer \/ lrs = "NotCleaned")
        /\ UNCHANGED queued
     \/ Ok /\ ~(present /\ lfresh) /\ ReturnError /\ UNCHANGED <<present, timer>>
     \/ Fail /\ ReturnError /\ UNCHANGED <<present, timer>>
  /\ UNCHANGED <<status, force, world, cache, cont, mem, scan, cur, g, young, lost, creates,
                 edits, crashes>>
-----------------------------------------------------------------------------
(* handleHardDelete, goroutine d. DeleteAllOf per listed namespace; its own *)
(* deadline may cut it short, which does not count as an error.             *)
DeleteAllOf(d, S, kind, next) ==
  /\ \/ /\ Ok /\ CrdExists
        /\ \E done \in SUBSET InNamespaces(S, g[d].ns) : objs' = Deleted(done)
        /\ g' = [g EXCEPT ![d].crds = @ \cup {kind}, ![d].pc = next]
     \/ /\ Ok /\ ~CrdExists
        /\ g' = [g EXCEPT ![d].pc = next] /\ UNCHANGED objs
     \/ /\ Fail
        /\ \E done \in SUBSET InNamespaces(S, g[d].ns) :
             objs' = IF CrdExists THEN Deleted(done) ELSE objs
        /\ g' = [g EXCEPT ![d].noted = @ \cup {"err"}, ![d].pc = next]
  /\ UNCHANGED <<cr, bsec, nss, crd, mod, secret, cache, queued, timer, pc, k, cont, mem, scan,
                 cur, young, lost, creates, edits, crashes>>

Answer(d, b) == g' = [g EXCEPT ![d].pc = "none", ![d].ch = b]

HardDeleteBindings(d)  == g[d].pc = "bindings" /\ DeleteAllOf(d, Bindings, "sb", "instances")
HardDeleteInstances(d) == g[d].pc = "instances" /\ DeleteAllOf(d, Instances, "si", "poll")

\* Mutant: objects that are only waiting for their finalizer do not count.
LeftActive(d, kind, S) ==
  kind \in g[d].crds /\ \E o \in InNamespaces(S, g[d].ns) : objs[o] = "active"
\* resourcesExist, unless the CRD was found missing.
Left(d, kind, S) == kind \in g[d].crds /\ AnyOf(InNamespaces(S, g[d].ns))

\* One turn of the loop, up to the check of the bindings.
Poll(d) ==
  /\ g[d].pc = "poll"
  /\ \/ "err" \in g[d].noted /\ Ok /\ Answer(d, "false")
     \/ /\ "err" \notin g[d].noted /\ "stop" \in g[d].noted /\ Ok
        /\ g' = [g EXCEPT ![d].pc = "none"]
     \/ /\ "err" \notin g[d].noted /\ "stop" \notin g[d].noted /\ Ok
        /\ g' = [g EXCEPT ![d].noted = IF Left(d, "sb", Bindings) THEN @ \cup {"left"}
                                                                ELSE @ \ {"left"},
                          ![d].pc = "pollInstances"]
     \/ "err" \notin g[d].noted /\ "stop" \notin g[d].noted /\ Fail /\ Answer(d, "false")
  /\ UNCHANGED <<cr, world, cache, queued, timer, pc, k, cont, mem, scan, cur, young, lost,
                 creates, edits, crashes>>

PollInstances(d) ==
  /\ g[d].pc = "pollInstances"
  /\ \/ /\ Ok /\ ("left" \in g[d].noted \/ Left(d, "si", Instances))
        /\ g' = [g EXCEPT ![d].pc = "poll"]
     \/ Ok /\ "left" \notin g[d].noted /\ ~Left(d, "si", Instances) /\ Answer(d, "true")
     \/ Fail /\ Answer(d, "false")
  /\ UNCHANGED <<cr, world, cache, queued, timer, pc, k, cont, mem, scan, cur, young, lost,
                 creates, edits, crashes>>
-----------------------------------------------------------------------------
(* Users                                                                    *)
process == <<cache, pc, k, cont, mem, scan, cur, g>>

UserCreates(o) ==
  /\ creates < MaxCreates /\ creates' = creates + 1
  /\ crd = "present" /\ objs[o] = "absent" /\ HomeOf[o] \in nss
  /\ objs' = [objs EXCEPT ![o] = "active"]
  /\ young' = young \cup {o} /\ lost' = lost \ {o}
  /\ UNCHANGED <<cr, bsec, nss, crd, mod, secret, queued, timer, process, edits, fails, crashes>>

UserDeletes(o) ==
  /\ objs[o] = "active"
  /\ objs' = Deleted({o})
  /\ UNCHANGED <<cr, bsec, nss, crd, mod, secret, queued, timer, process, young, lost, creates,
                 edits, fails, crashes>>

UserCreatesNamespace(n) ==
  /\ n \notin nss
  /\ nss' = nss \cup {n}
  /\ UNCHANGED <<cr, objs, bsec, crd, mod, secret, queued, timer, process, young, lost,
                 creates, edits, fails, crashes>>

UserLabels ==
  /\ edits < MaxEdits /\ edits' = edits + 1
  /\ present
  /\ force' = ~force
  /\ lfresh' = FALSE
  /\ UNCHANGED <<present, status, world, cache, queued, timer, pc, k, cont, lrs, lforce, scan,
                 cur, g, young, lost, creates, fails, crashes>>

UserEditsSecret ==
  /\ edits < MaxEdits /\ edits' = edits + 1
  /\ secret' \in {"valid", "invalid", "missing"} \ {secret}
  /\ queued' = TRUE
  /\ UNCHANGED <<cr, objs, bsec, nss, crd, mod, timer, process, young, lost, creates, fails,
                 crashes>>
-----------------------------------------------------------------------------
(* The cluster: the operand (external), the API server and the informer.    *)
OperandFinalizes(o) ==
  /\ "deployment" \in mod /\ objs[o] = "deleting"
  /\ objs' = [objs EXCEPT ![o] = "absent"]
  /\ bsec' = bsec \ {o}
  /\ UNCHANGED <<cr, nss, crd, mod, secret, queued, timer, process, young, lost, creates,
                 edits, fails, crashes>>

OperandBinds(b) ==
  /\ "deployment" \in mod /\ objs[b] = "active" /\ b \notin bsec
  /\ bsec' = bsec \cup {b}
  /\ UNCHANGED <<cr, objs, nss, crd, mod, secret, queued, timer, process, young, lost, creates,
                 edits, fails, crashes>>

OperandStoresClusterId ==
  /\ "deployment" \in mod /\ "clusterId" \notin mod
  /\ mod' = mod \cup {"clusterId"}
  /\ UNCHANGED <<cr, objs, bsec, nss, crd, secret, queued, timer, process, young, lost,
                 creates, edits, fails, crashes>>

CrdCollected ==
  /\ crd = "terminating" /\ \A o \in Objects : objs[o] = "absent"
  /\ crd' = "gone"
  /\ UNCHANGED <<cr, objs, bsec, nss, mod, secret, queued, timer, process, young, lost,
                 creates, edits, fails, crashes>>

InformerSync ==
  /\ cached # present \/ cforce # force
  /\ cached' = present /\ cforce' = force /\ queued' = TRUE
  /\ UNCHANGED <<cr, world, cnss, timer, pc, k, cont, mem, scan, cur, g, young, lost, creates,
                 edits, fails, crashes>>

\* The namespaces are cached as well, by an informer that wakes nobody.
NamespaceSync ==
  /\ cnss # nss /\ cnss' = nss
  /\ UNCHANGED <<cr, world, cached, cforce, queued, timer, pc, k, cont, mem, scan, cur, g,
                 young, lost, creates, edits, fails, crashes>>

TimerFires ==
  /\ timer
  /\ timer' = FALSE /\ queued' = TRUE
  /\ UNCHANGED <<cr, world, process, young, lost, creates, edits, fails, crashes>>

\* The manager restarts: nothing of the process survives, the informers list
\* the CR and the namespaces anew.
Crash ==
  /\ crashes < MaxCrashes /\ crashes' = crashes + 1
  /\ Goto("idle") /\ g' = [d \in Deleters |-> NoDeleter]
  /\ cached' = present /\ cforce' = force /\ cnss' = nss /\ queued' = TRUE /\ timer' = FALSE
  /\ lost' = IF pc = "softBindings" THEN LostNow ELSE lost
  /\ UNCHANGED <<cr, world, cont, mem, scan, cur, young, creates, edits, fails>>
-----------------------------------------------------------------------------
Worker ==
  \/ Reconcile \/ SetDeleting \/ GetSecret \/ ListNamespaces \/ CountBindings \/ CountInstances
  \/ SetNotCleaned \/ SetHard \/ Launch \/ HardDeleteAnswered \/ HardDeleteTimeout \/ SetSoft
  \/ PreSoftDelete \/ CheckCrds \/ ListBindings \/ SoftBindings \/ SoftSecret \/ EnsureBindings
  \/ ListInstances \/ SoftInstances \/ EnsureInstances \/ DeleteHard \/ DeleteSoft \/ SetError
  \/ Restore \/ Apply \/ RecountBindings \/ RecountInstances \/ RemoveFinalizer

Deleter(d) == HardDeleteBindings(d) \/ HardDeleteInstances(d) \/ Poll(d) \/ PollInstances(d)

Users ==
  \/ \E o \in Objects : UserCreates(o) \/ UserDeletes(o)
  \/ \E n \in Namespaces : UserCreatesNamespace(n)
  \/ UserLabels \/ UserEditsSecret

Cluster ==
  \/ \E o \in Objects : OperandFinalizes(o)
  \/ \E b \in Bindings : OperandBinds(b)
  \/ OperandStoresClusterId \/ CrdCollected \/ InformerSync \/ NamespaceSync \/ TimerFires

\* Nothing is left to do: the only state in which the system may stop.
Finished == ~present /\ ~cached /\ pc = "idle" /\ ~queued /\ UNCHANGED vars

Next == Worker \/ (\E d \in Deleters : Deleter(d)) \/ Users \/ Cluster \/ Crash \/ Finished

Spec == Init /\ [][Next]_vars

\* The worker, the goroutines and the informer keep running, timers fire and
\* the API server collects terminating CRDs. Nothing is assumed of users, of
\* the operand, or of crashes.
Fairness ==
  /\ WF_vars(Worker) /\ \A d \in Deleters : WF_vars(Deleter(d))
  /\ WF_vars(InformerSync) /\ WF_vars(NamespaceSync) /\ WF_vars(TimerFires)
  /\ WF_vars(CrdCollected)

FairSpec == Spec /\ Fairness
-----------------------------------------------------------------------------
(* Properties                                                              *)
WorkerSteps ==
  {"idle", "setDeleting", "getSecret", "listNamespaces", "countBindings", "countInstances",
   "setNotCleaned", "setHard", "launch", "select", "setSoft", "preSoftDelete", "checkCrds",
   "listBindings", "softBindings", "ensureBindings", "listInstances", "softInstances",
   "ensureInstances", "deleteHard", "deleteSoft", "setError", "restore", "apply",
   "recountBindings", "recountInstances", "removeFinalizer"}

DeleterStates ==
  [pc : {"none", "bindings", "instances", "poll", "pollInstances"},
   ns : SUBSET Namespaces, crds : SUBSET {"sb", "si"},
   noted : SUBSET {"err", "left", "stop"}, ch : {"empty", "true", "false"}]

Flags ==
  /\ present \in BOOLEAN /\ force \in BOOLEAN
  /\ cached \in BOOLEAN /\ cforce \in BOOLEAN /\ queued \in BOOLEAN /\ timer \in BOOLEAN
  /\ lforce \in BOOLEAN /\ lfresh \in BOOLEAN
  /\ nsKnown \in BOOLEAN /\ seen \in BOOLEAN /\ skipped \in BOOLEAN

Shapes ==
  /\ status \in Reasons /\ lrs \in Reasons
  /\ objs \in [Objects -> {"absent", "active", "deleting"}]
  /\ bsec \subseteq Bindings /\ nss \subseteq Namespaces /\ cnss \subseteq Namespaces
  /\ crd \in {"present", "terminating", "gone"} /\ mod \subseteq Groups
  /\ secret \in {"valid", "invalid", "missing"}
  /\ pc \in WorkerSteps
  /\ k \in 1..Len(DeleteOrder) /\ (pc = "apply" => k \in 1..Len(ApplyOrder))
  /\ cont \in {"err", "recount"}
  /\ listed \subseteq Namespaces
  /\ todo \subseteq (Objects \X {"active", "deleting"}) \cup (Bindings \X {"stripped"})
  /\ cur \in Deleters
  /\ g \in [Deleters -> DeleterStates]
  /\ young \subseteq Objects /\ lost \subseteq Bindings
  /\ creates \in 0..MaxCreates /\ edits \in 0..MaxEdits
  /\ fails \in 0..MaxFails /\ crashes \in 0..MaxCrashes

\* The values every variable takes; the indices into the two orders stay
\* within them.
TypeOK == Flags /\ Shapes

\* Objects that existed when the current pass began are gone, in the set S.
Drained(S) == \A o \in S : objs[o] = "absent" \/ o \in young
\* The same of those in the namespaces the pass has listed.
Emptied(S) == Drained(InNamespaces(S, listed))

\* By default existing service instances and bindings block the deletion: a
\* pass starts the hard delete only if it saw the force-delete label or every
\* object that existed when the pass began is gone.
BlockedByDefault == pc \in {"launch", "setHard"} => skipped \/ Drained(Objects)

\* The module's resources are deleted only once no instance or binding from
\* before the pass is left: after the soft delete and after counts that found
\* none, anywhere; after a forced hard delete, in the namespaces the pass knew
\* of, which leaves out one created shortly before it.
ModuleRemovedOnlyWhenDrained ==
  /\ pc = "deleteSoft" \/ (pc = "deleteHard" /\ ~skipped) => Drained(Objects)
  /\ pc = "deleteHard" => Emptied(Objects)

\* Soft delete strips instances of their finalizers only after the bindings.
BindingsBeforeInstances ==
  pc \in {"listInstances", "softInstances", "ensureInstances"} => Drained(Bindings)

\* What DeleteAllOf in the chart namespace and DeleteClusterIdSecret may miss.
OutOfReach == IF CredentialsInChartNamespace THEN {} ELSE {"credentials", "clusterId"}

\* The CR goes away only after the module's resources, except through the
\* recount of a blocked pass.
CrOutlivesModule ==
  [][present /\ ~present' => \/ lrs = "NotCleaned"
                             \/ crd # "present" /\ mod \subseteq OutOfReach]_vars

\* When the CR goes, whichever way the bindings went, hard or soft, and
\* whatever failed, the Secret of a binding that is gone is left behind only
\* if softDelete could not know its name or was stopped, by an error or a
\* restart, between taking the finalizers and deleting that Secret.
SecretsGoWithBindings ==
  [][present /\ ~present' =>
       \A b \in bsec : objs[b] # "absent" \/ b \in Renamed \cup lost]_vars

\* The state of the CR, which the reason of its condition determines; before
\* the deletion it is shown as Processing for any other.
StateOf(rs) ==
  CASE rs \in {"HardDeleting", "SoftDeleting"} -> "Deleting" [] rs = "NotCleaned" -> "Warning"
    [] rs = "ResourceRemovalFailed" -> "Error" [] OTHER -> "Processing"

Lifecycle == INSTANCE BtpOperatorLifecycle WITH
  phase <- IF present THEN StateOf(status) ELSE "absent", deleted <- present, held <- present,
  doomed <- present /\ status # "Other"

\* Every request of a deletion is a step of the abstract life cycle, or none
\* that a user of the CR sees: nothing blocks or fails before the state
\* Deleting has been shown, no state from before the deletion comes back, and
\* the finalizer goes from a CR in the state Deleting or Warning, never from
\* one that shows an error, whatever fails, restarts or is edited meanwhile.
FollowsLifecycle == [][Lifecycle!Next]_(Lifecycle!vars)

\* Once the label stays off and objects stay, a blocked deletion ends up with
\* the whole module installed again, whatever an earlier forced pass removed.
ModuleRestoredWhileBlocked ==
  <>[](present /\ secret = "valid" /\ ~force /\ \E o \in Objects : objs[o] # "absent")
    => <>[](crd # "gone" /\ {"deployment", "credentials", "other", "webhooks"} \subseteq mod)

\* A deletion that is not blocked finishes: if from some point on the label is
\* set or no object exists, the CR eventually disappears.
DeletionCompletes ==
  <>[](force \/ \A o \in Objects : objs[o] = "absent") => <>(~present)
-----------------------------------------------------------------------------
(* The inductive invariant behind the safety properties above.             *)
GoneIsEmpty == crd = "gone" => \A o \in Objects : objs[o] = "absent"
NoneSeenMeansDrained == pc = "countInstances" /\ ~seen => Drained(Bindings)

\* What the counts of the pass and its goroutine have established so far.
DeleterSound ==
  pc = "select" =>
    /\ skipped \/ Drained(Objects)
    /\ g[cur].ns = listed
    /\ g[cur].pc \in {"instances", "poll", "pollInstances"} /\ "err" \notin g[cur].noted
         /\ "sb" \notin g[cur].crds => Emptied(Bindings)
    /\ g[cur].pc \in {"poll", "pollInstances"} /\ "err" \notin g[cur].noted
         /\ "si" \notin g[cur].crds => Emptied(Instances)
    /\ g[cur].pc = "pollInstances" => "err" \notin g[cur].noted
    /\ g[cur].pc = "pollInstances" /\ "left" \notin g[cur].noted => Emptied(Bindings)
    /\ g[cur].ch = "true" => Emptied(Objects)

SecretRead ==
  CredentialsInChartNamespace /\ pc \notin {"idle", "setDeleting", "getSecret"} => nsKnown

\* Groups before the index k are deleted, or out of reach.
RemovedUpTo ==
  pc \in {"deleteHard", "deleteSoft"} =>
    /\ k > 1 => crd # "present"
    /\ \A i \in 1..(k-1) : DeleteOrder[i] \in mod => DeleteOrder[i] \in OutOfReach
RemovedAll ==
  pc = "removeFinalizer" /\ present =>
    \/ lrs = "NotCleaned"
    \/ crd # "present" /\ mod \subseteq OutOfReach
RecountIsBlocked ==
  /\ pc \in {"recountBindings", "recountInstances"} => lrs = "NotCleaned"
  /\ pc \in {"restore", "apply"} /\ cont = "recount" => lrs = "NotCleaned"

\* Nothing from before the pass is left behind ...
Draining ==
  /\ GoneIsEmpty /\ NoneSeenMeansDrained /\ DeleterSound
  /\ BlockedByDefault /\ ModuleRemovedOnlyWhenDrained /\ BindingsBeforeInstances
\* ... and the module's resources go in order, before the finalizer.
Removing == SecretRead /\ RemovedUpTo /\ RemovedAll /\ RecountIsBlocked

\* A binding goes together with its Secret, or that Secret is the next thing
\* softDelete deletes.
InstancesListed == pc = "softInstances" => \A t \in todo : t[1] \in Instances
Excused(b) ==
  \/ objs[b] # "absent" \/ b \in Renamed \cup lost
  \/ pc = "softBindings" /\ <<b, "stripped">> \in todo
SecretsBound == InstancesListed /\ \A b \in bsec : Excused(b)

\* A pass goes on only after the state Deleting has been shown, and reaches
\* the finalizer only while no error is shown.
Doomed ==
  /\ pc \notin {"idle", "setDeleting"} => status # "Other"
  /\ pc \notin {"idle", "setDeleting", "restore", "apply"} => status # "ResourceRemovalFailed"
  /\ pc \in {"restore", "apply"} /\ cont = "recount" => status # "ResourceRemovalFailed"

IInv == TypeOK /\ Draining /\ Removing /\ SecretsBound /\ Doomed
-----------------------------------------------------------------------------
(* What the documentation says and the code does not do.                   *)

\* docs/contributor/02-10-operations.md, step 11: all managed resources are
\* deleted, then the finalizer is removed.
FinalizerAfterCleanup == [][present /\ ~present' => crd # "present" /\ mod = {}]_vars

\* The same for a pass that did delete the module's resources: none is left
\* behind, wherever the credentials are.
CleanupIsComplete == [][present /\ ~present' /\ lrs # "NotCleaned" => mod = {}]_vars

\* Step 1: without the label, instances and bindings that exist when the
\* manager deletes objects block it. A step of the manager changes pc, k or g.
ManagerDeletesOnlyIfForced ==
  [][(\E o \in Objects : objs[o] = "active" /\ objs'[o] = "deleting")
     /\ <<pc, k, g>>' # <<pc, k, g>> => skipped]_vars

\* Step 6: the Secrets of soft-deleted bindings are deleted with them.
BindingSecretsGoToo ==
  [][present /\ ~present' => \A b \in bsec : objs[b] # "absent"]_vars

\* Once the finalizer is removed the module stays removed: only the operand's
\* own Secret may still appear.
NoModuleWithoutCr == [][~present => mod' \subseteq mod \cup {"clusterId"}]_vars

\* Step 11a: an error while the module's resources are deleted sets the CR to
\* the state Error.
RemovalErrorReported ==
  [][pc' = "restore" /\ cont' = "err" /\ pc \in {"deleteHard", "deleteSoft"}
       => status' = "ResourceRemovalFailed"]_vars
=============================================================================
