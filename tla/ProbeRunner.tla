----------------------------- MODULE ProbeRunner -----------------------------
(***************************************************************************)
(* The CA bundle probe (controllers/probe_runner.go): in every cycle the   *)
(* runner replaces the probe Job, waits for it, reads what the Job wrote   *)
(* into the annotations of the CR, sets the metric, restarts the Pods of   *)
(* the operand after a rotation, and remembers the hash. The Job           *)
(* (tests/probe/main.go) looks at the mounted bundle and at the            *)
(* connection, then patches the CR. The runner reads Jobs and the CR from  *)
(* informer caches, and a cache may be behind the server. Bundles are      *)
(* numbered, a rotation brings one that was never mounted; 0 stands for no *)
(* bundle and for an empty annotation.                                     *)
(***************************************************************************)
EXTENDS Naturals, FiniteSets

CONSTANTS
  Pods,          \* Pods of the operand
  TlsResults,    \* what connecting may give: "ok", "x509", "other"
  Unmounts,      \* TRUE: the bundle may be taken away
  MaxRotations,  \* bound: changes of the mounted bundle
  MaxTls,        \* bound: changes of the connection
  MaxFaults      \* bound: failing calls, waits that time out, crashes of the
                 \* manager, and reads of a cache that has not caught up

ASSUME ProbeAssumption ==
  /\ IsFiniteSet(Pods) /\ "ok" \in TlsResults /\ TlsResults \subseteq {"ok", "x509", "other"}
  /\ Unmounts \in BOOLEAN
  /\ {MaxRotations, MaxTls, MaxFaults} \subseteq Nat

VARIABLES
  bundle, newest, tls, \* the mounted bundle, the newest one, the connection
  state, sawBundle, sawTls, \* the Pod of the Job and one that a deleted Job has
                 \* left behind: how far they are, what they have observed
  ann,           \* the annotations of the CR
  cjob, cann,    \* the Job and the annotations in the informer caches
  loaded,        \* the bundle each Pod of the operand has loaded
  gauge,         \* the metric btpmanager_credential_probe_status
  pc, prev, seen, todo, \* the runner and its local variables
  restarts,      \* restarts that were decided on
  rotations, changes, fails, crashes, lags

probes == <<state, sawBundle, sawTls>>
env == <<bundle, newest, tls>>
runner == <<pc, prev, seen, todo>>
cache == <<cjob, cann>>
counts == <<rotations, changes, fails, crashes>>
vars == <<env, probes, cache, ann, loaded, gauge, runner, restarts, counts, lags>>

Bundles == 0 .. MaxRotations + 1
Statuses == {"none", "ok", "alert", "error"}
States == {"none", "pending", "observed", "written", "complete", "deleting"}
Annotations == [status : Statuses, hash : Bundles, lastHash : Bundles, updatedAt : 0 .. 4]
NoAnnotations == [status |-> "none", hash |-> 0, lastHash |-> 0, updatedAt |-> 0]
Probes == {"job", "stray"}

\* The type of the state; only a cycle that has read a hash restarts Pods or
\* overwrites tls-probe-last-hash.
TypeOK ==
  /\ bundle \in Bundles /\ newest \in Bundles /\ tls \in TlsResults
  /\ state \in [Probes -> States]
  /\ sawBundle \in [Probes -> Bundles] /\ sawTls \in [Probes -> TlsResults]
  /\ cjob \in {"none", "active", "complete"} /\ ann \in Annotations /\ cann \in Annotations
  /\ loaded \in [Pods -> Bundles] /\ gauge \in {0, 1}
  /\ pc \in {"idle", "delete", "gone", "prev", "create", "wait", "read", "restart", "patch"}
  /\ prev \in 0 .. 4 /\ seen \in Annotations /\ todo \subseteq Pods /\ restarts \in Nat
  /\ rotations \in 0 .. MaxRotations /\ changes \in 0 .. MaxTls
  /\ fails \in Nat /\ crashes \in Nat /\ lags \in Nat /\ fails + crashes + lags <= MaxFaults
  /\ pc \in {"restart", "patch"} => seen.hash # 0

\* A bundle is mounted, an earlier cycle has recorded its hash.
Init ==
  /\ bundle = 1 /\ newest = 1 /\ tls = "ok"
  /\ state = [p \in Probes |-> "none"] /\ sawBundle = [p \in Probes |-> 0]
  /\ sawTls = [p \in Probes |-> "ok"] /\ cjob = "none"
  /\ ann = [status |-> "ok", hash |-> 1, lastHash |-> 1, updatedAt |-> 1]
  /\ cann = ann
  /\ loaded = [p \in Pods |-> 1] /\ gauge = 0
  /\ pc = "idle" /\ prev = 0 /\ seen = NoAnnotations /\ todo = {} /\ restarts = 0
  /\ rotations = 0 /\ changes = 0 /\ fails = 0 /\ crashes = 0 /\ lags = 0
-----------------------------------------------------------------------------
CanFail == fails + crashes + lags < MaxFaults

(* The cycle reads Jobs and the CR from the informer caches. A read that    *)
(* does not give what the server has is counted.                            *)
Job == IF state["job"] \in {"none", "complete"} THEN state["job"] ELSE "active"
Lag == CanFail /\ lags' = lags + 1
ReadsJob == (cjob = Job /\ UNCHANGED lags) \/ (cjob # Job /\ Lag)
ReadsCr == (cann = ann /\ UNCHANGED lags) \/ (cann # ann /\ Lag)

Goto(step) == pc' = step /\ UNCHANGED <<prev, seen, todo>>
Return == pc' = "idle" /\ prev' = 0 /\ seen' = NoAnnotations /\ todo' = {}
Rest == UNCHANGED <<env, cache, counts>>

Start ==
  /\ pc = "idle" /\ Goto("delete") /\ Rest
  /\ UNCHANGED <<probes, ann, loaded, gauge, restarts, lags>>

\* The Job is deleted in the background: its Pod may live on for a while.
\* Deleting a Job that only the cache still holds is an error.
DeleteJob ==
  \/ state["job"] = "none" /\ Return /\ UNCHANGED probes
  \/ /\ state["job"] # "none" /\ Goto("gone")
     /\ state' = [state EXCEPT !["job"] = "deleting"] /\ UNCHANGED <<sawBundle, sawTls>>
  \/ /\ state["job"] \in {"pending", "observed"} /\ Goto("gone")
     /\ state' = [state EXCEPT !["stray"] = state["job"], !["job"] = "deleting"]
     /\ sawBundle' = [sawBundle EXCEPT !["stray"] = sawBundle["job"]]
     /\ sawTls' = [sawTls EXCEPT !["stray"] = sawTls["job"]]

deleteOldJob ==
  /\ \/ pc = "delete" /\ cjob = "none" /\ Goto("prev") /\ UNCHANGED probes
     \/ pc = "delete" /\ cjob # "none" /\ DeleteJob
     \/ pc = "gone" /\ cjob = "none" /\ Goto("prev") /\ UNCHANGED probes
  /\ ReadsJob /\ Rest /\ UNCHANGED <<ann, loaded, gauge, restarts>>

getUpdatedAt ==
  /\ pc = "prev" /\ pc' = "create" /\ ReadsCr /\ prev' = cann.updatedAt /\ Rest
  /\ UNCHANGED <<probes, ann, loaded, gauge, seen, todo, restarts>>

\* A Job that still exists makes the call fail.
createJob ==
  /\ pc = "create" /\ Rest /\ UNCHANGED <<ann, loaded, gauge, restarts, lags>>
  /\ \/ /\ state["job"] = "none" /\ Goto("wait")
        /\ state' = [state EXCEPT !["job"] = "pending"] /\ UNCHANGED <<sawBundle, sawTls>>
     \/ state["job"] # "none" /\ Return /\ UNCHANGED probes

\* Mutant: the runner does not wait.
doNotWait ==
  /\ pc = "wait" /\ Goto("read") /\ Rest
  /\ UNCHANGED <<probes, ann, loaded, gauge, restarts, lags>>
\* A Job that is not found ends the wait as well.
waitForJob ==
  /\ pc = "wait" /\ ReadsJob /\ cjob \in {"none", "complete"} /\ Goto("read") /\ Rest
  /\ UNCHANGED <<probes, ann, loaded, gauge, restarts>>

\* Mutant: the metric is never reset.
RaiseStatus == IF cann.status = "alert" THEN 1 ELSE gauge
ProbeStatus == IF cann.status = "alert" THEN 1 ELSE 0

\* Mutant: an empty hash is recorded as well.
RecordsAny == cann.updatedAt # prev
\* A cycle goes on only if the Job wrote something, with a hash.
Records == cann.updatedAt # prev /\ cann.hash # 0
Rotated == cann.status = "ok" /\ cann.hash # cann.lastHash /\ cann.lastHash # 0

readResults ==
  /\ pc = "read" /\ ReadsCr /\ gauge' = (IF cann.updatedAt = prev THEN gauge ELSE ProbeStatus)
  /\ \/ ~Records /\ Return /\ UNCHANGED restarts
     \/ /\ Records /\ Rotated /\ pc' = "restart" /\ seen' = cann /\ todo' = Pods
        /\ restarts' = restarts + 1 /\ UNCHANGED prev
     \/ Records /\ ~Rotated /\ pc' = "patch" /\ seen' = cann /\ UNCHANGED <<restarts, prev, todo>>
  /\ Rest /\ UNCHANGED <<probes, ann, loaded>>

\* One Pod after the other; the one that replaces it loads the bundle of
\* that moment.
DeletePod(p) ==
  /\ p \in todo /\ todo' = todo \ {p} /\ loaded' = [loaded EXCEPT ![p] = bundle]
  /\ UNCHANGED <<pc, prev, seen, fails>>
\* Mutant: an error is swallowed, and the hash is recorded.
SwallowError ==
  /\ todo # {} /\ CanFail /\ fails' = fails + 1 /\ Goto("patch") /\ UNCHANGED loaded
\* The first error ends the cycle.
RestartFails ==
  /\ todo # {} /\ CanFail /\ fails' = fails + 1 /\ Return /\ UNCHANGED loaded

restartBtpOperatorPods ==
  /\ pc = "restart"
  /\ \/ \E p \in Pods : DeletePod(p)
     \/ todo = {} /\ Goto("patch") /\ UNCHANGED <<loaded, fails>>
     \/ RestartFails
  /\ UNCHANGED <<env, probes, cache, ann, gauge, restarts, rotations, changes, crashes, lags>>

\* Mutant: the hash is not recorded.
KeepLastHash == ann
SetLastHash ==
  [status |-> ann.status, hash |-> ann.hash, lastHash |-> seen.hash, updatedAt |-> ann.updatedAt]
\* The CR is read again; the patch holds what is new in comparison with that.
patchLastHash ==
  /\ pc = "patch" /\ ReadsCr /\ Return /\ Rest
  /\ ann' = IF cann.lastHash = seen.hash THEN ann ELSE SetLastHash
  /\ UNCHANGED <<probes, loaded, gauge, restarts>>

\* Any other call fails, or a wait times out: the cycle returns an error and
\* the ticker starts the next one.
Fail ==
  /\ pc \notin {"idle", "restart"} /\ CanFail /\ fails' = fails + 1 /\ Return
  /\ UNCHANGED <<env, probes, cache, ann, loaded, gauge, restarts, rotations, changes, crashes,
                 lags>>

Crash ==
  /\ CanFail /\ crashes' = crashes + 1 /\ Return /\ gauge' = 0
  /\ cjob' = Job /\ cann' = ann
  /\ UNCHANGED <<env, probes, ann, loaded, restarts, rotations, changes, fails, lags>>
-----------------------------------------------------------------------------
(* The Job: it observes, writes and completes. Without a bundle and with a  *)
(* healthy connection it removes the annotations.                           *)
computeSignal(b, t) ==
  CASE t = "ok" -> "ok" [] t = "x509" /\ b # 0 -> "alert" [] OTHER -> "error"

Later(t) == IF t = 4 THEN 1 ELSE t + 1
Written(b, t) ==
  IF b = 0 /\ t = "ok" THEN NoAnnotations
  ELSE [status |-> computeSignal(b, t), hash |-> b,
        lastHash |-> ann.lastHash, updatedAt |-> Later(ann.updatedAt)]

ProbeObserves(p) ==
  /\ state[p] = "pending" /\ state' = [state EXCEPT ![p] = "observed"]
  /\ sawBundle' = [sawBundle EXCEPT ![p] = bundle] /\ sawTls' = [sawTls EXCEPT ![p] = tls]
  /\ UNCHANGED <<env, cache, ann, loaded, gauge, runner, restarts, counts, lags>>
ProbeWrites(p) ==
  /\ state[p] = "observed"
  /\ state' = [state EXCEPT ![p] = IF p = "job" THEN "written" ELSE "none"]
  /\ sawBundle' = [sawBundle EXCEPT ![p] = 0] /\ sawTls' = [sawTls EXCEPT ![p] = "ok"]
  /\ \/ ann' = Written(sawBundle[p], sawTls[p]) /\ UNCHANGED fails
     \/ CanFail /\ fails' = fails + 1 /\ UNCHANGED ann
  /\ UNCHANGED <<env, cache, loaded, gauge, runner, restarts, rotations, changes, crashes, lags>>
Stops(p, end) ==
  /\ state' = [state EXCEPT ![p] = end]
  /\ sawBundle' = [sawBundle EXCEPT ![p] = 0] /\ sawTls' = [sawTls EXCEPT ![p] = "ok"]
ProbeStops ==
  /\ \/ state["job"] = "written" /\ Stops("job", "complete")
     \/ state["job"] = "deleting" /\ Stops("job", "none")
     \/ state["stray"] # "none" /\ Stops("stray", "none")
  /\ UNCHANGED <<env, cache, ann, loaded, gauge, runner, restarts, counts, lags>>

\* The caches catch up.
Sync ==
  /\ \/ cjob # Job /\ cjob' = Job /\ UNCHANGED cann
     \/ cann # ann /\ cann' = ann /\ UNCHANGED cjob
  /\ UNCHANGED <<env, probes, ann, loaded, gauge, runner, restarts, counts, lags>>

Rotate ==
  /\ rotations < MaxRotations /\ rotations' = rotations + 1
  /\ \/ bundle' = newest + 1 /\ newest' = newest + 1
     \/ Unmounts /\ bundle # 0 /\ bundle' = 0 /\ UNCHANGED newest
  /\ UNCHANGED <<tls, probes, cache, ann, loaded, gauge, runner, restarts, changes, fails,
                 crashes, lags>>
ConnectionChanges ==
  /\ changes < MaxTls /\ changes' = changes + 1 /\ tls' \in TlsResults \ {tls}
  /\ UNCHANGED <<bundle, newest, probes, cache, ann, loaded, gauge, runner, restarts, rotations,
                 fails, crashes, lags>>

Cycle ==
  \/ Start \/ deleteOldJob \/ getUpdatedAt \/ createJob \/ waitForJob \/ readResults
  \/ restartBtpOperatorPods \/ patchLastHash
Next ==
  \/ Cycle \/ Fail \/ Crash \/ ProbeStops \/ Sync \/ Rotate \/ ConnectionChanges
  \/ \E p \in Probes : ProbeObserves(p) \/ ProbeWrites(p)
Spec == Init /\ [][Next]_vars
\* The ticker ticks, the runner and the Pods of the Job run, the caches
\* follow.
FairSpec ==
  /\ Spec /\ WF_vars(Cycle) /\ WF_vars(ProbeStops) /\ WF_vars(Sync)
  /\ WF_vars(ProbeObserves("job")) /\ WF_vars(ProbeWrites("job"))
-----------------------------------------------------------------------------
(* The hash of a bundle is recorded only after every Pod has been restarted *)
(* with that bundle or a newer one: while TLS is healthy no failure, crash  *)
(* or late Job makes the runner forget a rotation it still has to act on.   *)
RestartedBeforeRecorded == \A p \in Pods : ann.lastHash <= loaded[p]

(* Pods are not restarted without a reason: every restart goes back to a    *)
(* rotation, or to a failure, a crash or a read of a cache that is behind,  *)
(* after which the cycle cannot know what has been done. A fault that       *)
(* leaves the Pod of an old Job behind costs up to two.                     *)
EachRestartHasACause == restarts <= rotations + 2 * (fails + crashes + lags)

\* TLS has been healthy and a bundle mounted all along.
Undisturbed == changes = 0 /\ newest = rotations + 1
(* Once the bundle stays as it is the Pods end up with it, in spite of      *)
(* finitely many failures, crashes and reads of a cache that is behind; TLS *)
(* has to be healthy all along, for a cycle that sees an alert records the  *)
(* hash without a restart. Of a cycle that looks for its Job before the     *)
(* cache holds it nothing comes (WaitsForTheJob): if every cycle did, no    *)
(* rotation would be noticed.                                               *)
RotationRestarts == <>[](Undisturbed => \A p \in Pods : loaded[p] = bundle)

(* Healthy TLS is enough for the Pods to get the mounted bundle.            *)
RestartsWhenHealthy ==
  <>[](bundle # 0 /\ tls = "ok" => \A p \in Pods : loaded[p] = bundle)

(* The results are read only once the Job has completed.                    *)
WaitsForTheJob == pc = "read" => state["job"] = "complete"

(* With a bundle mounted the metric ends up telling whether it is trusted,  *)
(* after crashes and after finitely many reads of a cache that is behind.   *)
MetricFollows == <>[](bundle # 0 => (gauge = 1 <=> tls = "x509"))

(* A cycle whose Job exits silently leaves the metric as it is.             *)
SilentExitKeepsMetric == [][gauge' # gauge /\ pc = "read" => cann.status # "none"]_vars
=============================================================================
