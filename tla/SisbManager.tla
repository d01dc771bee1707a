---------------------------- MODULE SisbManager ----------------------------
(***************************************************************************)
(* The nested controller manager for the ServiceInstance controller        *)
(* (controllers/instance_binding_controller_manager.go). The reconcile     *)
(* worker enables it at the end of every provisioning and disables it when *)
(* a deprovisioning succeeds. Each Enable creates a manager, a context and *)
(* a goroutine; the goroutine starts whatever manager the field r.mgr      *)
(* holds when it gets to run, which the mutex does not protect.            *)
(***************************************************************************)
EXTENDS Naturals, FiniteSets

CONSTANTS
  MaxManagers, \* bound: managers created
  MaxFails     \* bound: calls that fail

ASSUME SisbAssumption == MaxManagers \in Nat \ {0} /\ MaxFails \in Nat

VARIABLES
  enabled, mgr, sisbReconciler, \* fields of InstanceBindingControllerManager
  stopper,    \* the context that r.stopper cancels, 0 when it is nil
  created,    \* managers created so far: the numbers 1 .. created
  registered, \* managers in which the ServiceInstance controller is set up
  goroutine,  \* the goroutine of the n-th successful Enable
  cancelled,  \* contexts that are cancelled
  started,    \* managers whose Start was called
  runs,       \* the manager that a goroutine runs, 0 if none
  cr,         \* the CR, as far as it decides who is called
  fails

vars == <<enabled, mgr, sisbReconciler, stopper, created, registered, goroutine,
          cancelled, started, runs, cr, fails>>

Managers == 1 .. MaxManagers

TypeOK ==
  /\ enabled \in BOOLEAN /\ mgr \in 0 .. created /\ sisbReconciler \in {"nil", "set"}
  /\ stopper \in 0 .. created /\ created \in 0 .. MaxManagers
  /\ registered \subseteq 1 .. created /\ started \subseteq 1 .. created
  /\ cancelled \subseteq 1 .. created
  /\ goroutine \in [Managers -> {"none", "created", "running", "done"}]
  /\ runs \in [Managers -> 0 .. created]
  /\ cr \in {"none", "Processing", "Ready", "Deleting"} /\ fails \in 0 .. MaxFails

\* NewInstanceBindingControllerManager leaves every other field zero.
Init ==
  /\ enabled = FALSE /\ mgr = 0 /\ sisbReconciler = "nil" /\ stopper = 0
  /\ created = 0 /\ registered = {} /\ cancelled = {} /\ started = {}
  /\ goroutine = [g \in Managers |-> "none"] /\ runs = [g \in Managers |-> 0]
  /\ cr = "Processing" /\ fails = 0
-----------------------------------------------------------------------------
\* Mutant: a manager that is enabled already is not recognised.
EnableAlways ==
  /\ created < MaxManagers /\ created' = created + 1 /\ mgr' = created + 1
  /\ enabled' = TRUE /\ stopper' = created + 1
  /\ goroutine' = [goroutine EXCEPT ![created + 1] = "created"]
  /\ UNCHANGED <<sisbReconciler, registered, cancelled, started, runs, fails>>
\* Mutant: a missing return after ctrl.NewManager failed; the manager is nil.
EnableDespiteError ==
  /\ ~enabled /\ created < MaxManagers /\ created' = created + 1 /\ mgr' = 0
  /\ enabled' = TRUE /\ stopper' = created + 1
  /\ goroutine' = [goroutine EXCEPT ![created + 1] = "created"]
  /\ UNCHANGED <<sisbReconciler, registered, cancelled, started, runs, fails>>
\* Contexts and goroutines are numbered like the manager they are created
\* with. A reconciler is set up only where there is one already.
EnableSISBController ==
  \/ enabled /\ UNCHANGED <<enabled, mgr, sisbReconciler, stopper, created, registered,
                            goroutine, cancelled, started, runs, fails>>
  \/ /\ ~enabled /\ fails < MaxFails /\ fails' = fails + 1 \* ctrl.NewManager fails
     /\ UNCHANGED <<enabled, mgr, sisbReconciler, stopper, created, registered,
                    goroutine, cancelled, started, runs>>
  \/ /\ ~enabled /\ created < MaxManagers /\ created' = created + 1 /\ mgr' = created + 1
     /\ registered' = (IF sisbReconciler = "nil" THEN registered ELSE registered \cup {created + 1})
     /\ enabled' = TRUE /\ stopper' = created + 1
     /\ goroutine' = [goroutine EXCEPT ![created + 1] = "created"]
     /\ UNCHANGED <<sisbReconciler, cancelled, started, runs, fails>>

DisableSISBController ==
  /\ enabled' = FALSE
  /\ cancelled' = (IF enabled /\ stopper # 0 THEN cancelled \cup {stopper} ELSE cancelled)
  /\ UNCHANGED <<mgr, sisbReconciler, stopper, created, registered, goroutine,
                 started, runs, fails>>
-----------------------------------------------------------------------------
(* The reconcile worker. Both calls come from it, one at a time.            *)
Provision == cr = "Processing" /\ cr' = "Ready" /\ EnableSISBController
\* The finalizer is removed, or the update fails and everything is repeated.
Deprovision == cr = "Deleting" /\ cr' \in {"none", "Deleting"} /\ DisableSISBController

\* Users, and passes that find something changed.
CrChanges ==
  /\ \/ cr = "Ready" /\ cr' \in {"Processing", "Deleting"}
     \/ cr = "Processing" /\ cr' = "Deleting"
     \/ cr = "none" /\ cr' = "Processing" /\ created < MaxManagers
  /\ UNCHANGED <<enabled, mgr, sisbReconciler, stopper, created, registered, goroutine,
                 cancelled, started, runs, fails>>

\* r.mgr.Start(ctx): a manager starts once, the second call returns an error.
Start(g) ==
  /\ goroutine[g] = "created"
  /\ \/ /\ mgr \notin started /\ started' = started \cup {mgr}
        /\ goroutine' = [goroutine EXCEPT ![g] = "running"]
        /\ runs' = [runs EXCEPT ![g] = mgr] /\ UNCHANGED fails
     \/ /\ mgr \in started /\ goroutine' = [goroutine EXCEPT ![g] = "done"]
        /\ UNCHANGED <<started, runs, fails>>
  /\ UNCHANGED <<enabled, mgr, sisbReconciler, stopper, created, registered, cancelled, cr>>

\* Mutant: the manager is started with the context of the whole process.
StopOnErrorOnly(g) ==
  /\ goroutine[g] = "running" /\ fails < MaxFails /\ fails' = fails + 1
  /\ goroutine' = [goroutine EXCEPT ![g] = "done"] /\ runs' = [runs EXCEPT ![g] = 0]
  /\ UNCHANGED <<enabled, mgr, sisbReconciler, stopper, created, registered, cancelled,
                 started, cr>>
\* Start returns when its context is cancelled or when a cache or a server of
\* the manager fails.
Stop(g) ==
  /\ goroutine[g] = "running"
  /\ \/ g \in cancelled /\ UNCHANGED fails
     \/ g \notin cancelled /\ fails < MaxFails /\ fails' = fails + 1
  /\ goroutine' = [goroutine EXCEPT ![g] = "done"] /\ runs' = [runs EXCEPT ![g] = 0]
  /\ UNCHANGED <<enabled, mgr, sisbReconciler, stopper, created, registered, cancelled,
                 started, cr>>

Next == Provision \/ Deprovision \/ CrChanges \/ \E g \in Managers : Start(g) \/ Stop(g)
Spec == Init /\ [][Next]_vars
\* The worker runs and goroutines are scheduled.
FairSpec ==
  /\ Spec /\ WF_vars(Provision) /\ WF_vars(Deprovision)
  /\ \A g \in Managers : WF_vars(Start(g)) /\ WF_vars(Stop(g) /\ g \in cancelled)
-----------------------------------------------------------------------------
Active == {g \in Managers : goroutine[g] \in {"created", "running"} /\ g \notin cancelled}

(* At most one goroutine is left that nobody has told to stop, none while   *)
(* the controller is disabled, and it is the one r.stopper can stop.        *)
OneManagerAtMost ==
  /\ Cardinality(Active) <= 1 /\ (~enabled => Active = {}) /\ Active \subseteq {stopper}

(* A disabled controller stops: after Disable every manager that still runs *)
(* ends, unless the controller is enabled again.                            *)
DisabledStops == (~enabled) ~> (enabled \/ \A g \in Managers : runs[g] = 0)

(* The manager runs the ServiceInstance controller once it is enabled.      *)
RunsController == enabled ~> (~enabled \/ \E g \in Managers : runs[g] \in registered)
=============================================================================
