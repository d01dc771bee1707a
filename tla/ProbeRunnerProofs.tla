-------------------------- MODULE ProbeRunnerProofs --------------------------
(***************************************************************************)
(* Theorems of ProbeRunner, for any set of Pods, any number of rotations,  *)
(* failures, crashes and reads of caches that lag behind.                  *)
(*                                                                         *)
(* The argument for RestartedBeforeRecorded: a probe only ever reports a   *)
(* bundle that is or was mounted, so a Pod that is replaced after the      *)
(* report loads that bundle or a newer one; the cycle reaches its patch    *)
(* only when no Pod is left to restart, or when the hash is the recorded   *)
(* one. It is needed that the recorded hash is never empty, which is where *)
(* the assumption of a bundle that stays mounted comes in.                 *)
(*                                                                         *)
(* The argument for EachRestartHasACause is a potential: the restarts that *)
(* are still owed, for the way from the recorded hash over the reported    *)
(* one to the mounted bundle and for the Pods of old Jobs that may still   *)
(* write, never exceed the causes not yet paid with a restart (Paid).      *)
(***************************************************************************)
EXTENDS ProbeRunner, TLAPS

\* Each leaf is given to Zenon and then to SMT, with time for slow machines.
USE ZenonT(10), SMTT(20)

\* No more bundles than rotations have brought.
Types == TypeOK /\ newest <= rotations + 1

\* TLS is healthy and the bundle stays mounted.
Healthy == TlsResults = {"ok"} /\ Unmounts = FALSE

Shapes ==
  /\ bundle \in Nat /\ bundle # 0 /\ newest = bundle /\ tls = "ok"
  /\ state \in [Probes -> States]
  /\ sawBundle \in [Probes -> Nat] /\ sawTls \in [Probes -> {"ok"}]
  /\ ann \in [status : {"ok"}, hash : Nat, lastHash : Nat, updatedAt : Nat]
  /\ cann \in [status : {"ok"}, hash : Nat, lastHash : Nat, updatedAt : Nat]
  /\ seen \in [status : {"ok", "none"}, hash : Nat, lastHash : Nat, updatedAt : Nat]
  /\ loaded \in [Pods -> Nat] /\ todo \subseteq Pods

\* Reports are not ahead of the mounted bundle; Pods that were restarted, and
\* all of them at the patch, are not behind the report.
Order ==
  /\ \A x \in Probes : state[x] = "observed" => sawBundle[x] # 0 /\ sawBundle[x] <= bundle
  /\ ann.hash # 0 /\ ann.hash <= bundle /\ ann.lastHash # 0 /\ ann.lastHash <= bundle
  /\ cann.hash # 0 /\ cann.hash <= bundle /\ cann.lastHash # 0 /\ cann.lastHash <= bundle
  /\ \A p \in Pods : ann.lastHash <= loaded[p] /\ cann.lastHash <= loaded[p]
  /\ pc \in {"restart", "patch"} => seen.hash # 0 /\ seen.hash <= bundle
  /\ pc = "restart" => \A p \in Pods \ todo : seen.hash <= loaded[p]
  /\ pc = "patch" => \A p \in Pods : seen.hash <= loaded[p]

IInv == Shapes /\ Order
-----------------------------------------------------------------------------

LEMMA StartTypes == Types /\ Start => Types'
BY ProbeAssumption DEF Types, TypeOK, Annotations, NoAnnotations, Bundles, Statuses, States,
  Probes, env, probes, cache, runner, counts, Start, Goto, Rest

LEMMA deleteOldJobTypes == Types /\ deleteOldJob => Types'
BY SMTT(20), ProbeAssumption DEF Types, TypeOK, Annotations, NoAnnotations, Bundles, Statuses,
  States, Probes, env, probes, cache, runner, counts, CanFail, Lag, ReadsJob, Job, deleteOldJob,
  DeleteJob, Goto, Return, Rest

LEMMA getUpdatedAtTypes == Types /\ getUpdatedAt => Types'
BY ProbeAssumption DEF Types, TypeOK, Annotations, NoAnnotations, Bundles, Statuses, States,
  Probes, env, probes, cache, runner, counts, CanFail, Lag, ReadsCr, getUpdatedAt, Rest

LEMMA createJobTypes == Types /\ createJob => Types'
BY SMTT(20), ProbeAssumption DEF Types, TypeOK, Annotations, NoAnnotations, Bundles, Statuses,
  States, Probes, env, probes, cache, runner, counts, createJob, Goto, Return, Rest

LEMMA waitForJobTypes == Types /\ waitForJob => Types'
BY ProbeAssumption DEF Types, TypeOK, Annotations, NoAnnotations, Bundles, Statuses, States,
  Probes, env, probes, cache, runner, counts, CanFail, Lag, ReadsJob, waitForJob, Goto, Rest

LEMMA readResultsTypes == Types /\ readResults => Types'
BY SMTT(20), ProbeAssumption DEF Types, TypeOK, Annotations, NoAnnotations, Bundles, Statuses,
  States, Probes, env, probes, cache, runner, counts, CanFail, Lag, ReadsCr, readResults, Records,
  Rotated, ProbeStatus, Return, Rest

LEMMA restartBtpOperatorPodsTypes == Types /\ restartBtpOperatorPods => Types'
BY SMTT(20), ProbeAssumption DEF Types, TypeOK, Annotations, NoAnnotations, Bundles, Statuses,
  States, Probes, env, probes, cache, runner, counts, CanFail, restartBtpOperatorPods, DeletePod,
  RestartFails, Goto, Return

LEMMA patchLastHashTypes == Types /\ patchLastHash => Types'
BY SMTT(20), ProbeAssumption DEF Types, TypeOK, Annotations, NoAnnotations, Bundles, Statuses,
  States, Probes, env, probes, cache, runner, counts, CanFail, Lag, ReadsCr, patchLastHash,
  SetLastHash, Return, Rest

LEMMA FailTypes == Types /\ Fail => Types'
BY SMTT(20), ProbeAssumption DEF Types, TypeOK, Annotations, NoAnnotations, Bundles, Statuses,
  States, Probes, env, probes, cache, runner, counts, CanFail, Fail, Return

LEMMA CrashTypes == Types /\ Crash => Types'
BY SMTT(20), ProbeAssumption DEF Types, TypeOK, Annotations, NoAnnotations, Bundles, Statuses,
  States, Probes, env, probes, cache, runner, counts, CanFail, Job, Crash, Return

LEMMA ProbeStopsTypes == Types /\ ProbeStops => Types'
BY SMTT(20), ProbeAssumption DEF Types, TypeOK, Annotations, NoAnnotations, Bundles, Statuses,
  States, Probes, env, probes, cache, runner, counts, ProbeStops, Stops

LEMMA SyncTypes == Types /\ Sync => Types'
BY ProbeAssumption DEF Types, TypeOK, Annotations, NoAnnotations, Bundles, Statuses, States,
  Probes, env, probes, cache, runner, counts, Job, Sync

LEMMA RotateTypes == Types /\ Rotate => Types'
BY SMTT(20), ProbeAssumption DEF Types, TypeOK, Annotations, NoAnnotations, Bundles, Statuses,
  States, Probes, env, probes, cache, runner, counts, Rotate

LEMMA ConnectionChangesTypes == Types /\ ConnectionChanges => Types'
BY SMTT(20), ProbeAssumption DEF Types, TypeOK, Annotations, NoAnnotations, Bundles, Statuses,
  States, Probes, env, probes, cache, runner, counts, ConnectionChanges

LEMMA ProbeObservesTypes == ASSUME NEW p \in Probes, Types, ProbeObserves(p) PROVE Types'
BY SMTT(20), ProbeAssumption DEF Types, TypeOK, Annotations, NoAnnotations, Bundles, Statuses,
  States, Probes, env, probes, cache, runner, counts, ProbeObserves

LEMMA ProbeWritesTypes == ASSUME NEW p \in Probes, Types, ProbeWrites(p) PROVE Types'
BY SMTT(20), ProbeAssumption DEF Types, TypeOK, Annotations, NoAnnotations, Bundles, Statuses,
  States, Probes, env, probes, cache, runner, counts, CanFail, ProbeWrites, Written, Later,
  computeSignal

(* Every action keeps the types.                                            *)
LEMMA TypesKept == Types /\ [Next]_vars => Types'
<1> SUFFICES ASSUME Types, [Next]_vars PROVE Types'
  OBVIOUS
<1>1. CASE Start
  BY <1>1, StartTypes
<1>2. CASE deleteOldJob
  BY <1>2, deleteOldJobTypes
<1>3. CASE getUpdatedAt
  BY <1>3, getUpdatedAtTypes
<1>4. CASE createJob
  BY <1>4, createJobTypes
<1>5. CASE waitForJob
  BY <1>5, waitForJobTypes
<1>6. CASE readResults
  BY <1>6, readResultsTypes
<1>7. CASE restartBtpOperatorPods
  BY <1>7, restartBtpOperatorPodsTypes
<1>8. CASE patchLastHash
  BY <1>8, patchLastHashTypes
<1>9. CASE Fail
  BY <1>9, FailTypes
<1>10. CASE Crash
  BY <1>10, CrashTypes
<1>11. CASE ProbeStops
  BY <1>11, ProbeStopsTypes
<1>12. CASE Sync
  BY <1>12, SyncTypes
<1>13. CASE Rotate
  BY <1>13, RotateTypes
<1>14. CASE ConnectionChanges
  BY <1>14, ConnectionChangesTypes
<1>15. CASE \E p \in Probes : ProbeObserves(p)
  BY <1>15, ProbeObservesTypes
<1>16. CASE \E p \in Probes : ProbeWrites(p)
  BY <1>16, ProbeWritesTypes
<1>17. CASE UNCHANGED vars
  BY SMTT(20), <1>17
     DEF Types, TypeOK, Annotations, NoAnnotations, Bundles, Statuses, States, Probes,
     env, probes, cache, runner, counts, vars
<1> QED BY <1>1, <1>2, <1>3, <1>4, <1>5, <1>6, <1>7, <1>8, <1>9, <1>10, <1>11, <1>12, <1>13,
   <1>14, <1>15, <1>16, <1>17 DEF Next, Cycle

(* Every variable keeps its type, and only a cycle that has read a hash     *)
(* restarts Pods or overwrites the recorded one.                            *)
THEOREM TypeCorrect == Spec => []TypeOK
<1>1. Init => Types
  BY SMTT(20), ProbeAssumption
     DEF Init, Types, TypeOK, Annotations, NoAnnotations, Bundles, Statuses,
     States, Probes
<1>2. Types => TypeOK
  BY DEF Types
<1> QED BY <1>1, <1>2, TypesKept, PTL DEF Spec
-----------------------------------------------------------------------------

LEMMA StartOrder == Healthy /\ IInv /\ Start => IInv'
BY ProbeAssumption DEF IInv, Shapes, Order, NoAnnotations, States, Probes, Healthy, env, probes,
  cache, runner, counts, Start, Goto, Rest

LEMMA deleteOldJobOrder == Healthy /\ IInv /\ deleteOldJob => IInv'
BY SMTT(20), ProbeAssumption DEF IInv, Shapes, Order, NoAnnotations, States, Probes, Healthy, env,
  probes, cache, runner, counts, CanFail, Lag, ReadsJob, Job, deleteOldJob, DeleteJob, Goto,
  Return, Rest

LEMMA getUpdatedAtOrder == Healthy /\ IInv /\ getUpdatedAt => IInv'
BY ProbeAssumption DEF IInv, Shapes, Order, NoAnnotations, States, Probes, Healthy, env, probes,
  cache, runner, counts, CanFail, Lag, ReadsCr, getUpdatedAt, Rest

LEMMA createJobOrder == Healthy /\ IInv /\ createJob => IInv'
BY SMTT(20), ProbeAssumption DEF IInv, Shapes, Order, NoAnnotations, States, Probes, Healthy, env,
  probes, cache, runner, counts, createJob, Goto, Return, Rest

LEMMA waitForJobOrder == Healthy /\ IInv /\ waitForJob => IInv'
BY ProbeAssumption DEF IInv, Shapes, Order, NoAnnotations, States, Probes, Healthy, env, probes,
  cache, runner, counts, CanFail, Lag, ReadsJob, waitForJob, Goto, Rest

LEMMA readResultsOrder == Healthy /\ IInv /\ readResults => IInv'
BY SMTT(20), ProbeAssumption DEF IInv, Shapes, Order, NoAnnotations, States, Probes, Healthy, env,
  probes, cache, runner, counts, CanFail, Lag, ReadsCr, readResults, Records, Rotated,
  ProbeStatus, Return, Rest

LEMMA restartBtpOperatorPodsOrder == Healthy /\ IInv /\ restartBtpOperatorPods => IInv'
BY SMTT(20), ProbeAssumption DEF IInv, Shapes, Order, NoAnnotations, States, Probes, Healthy, env,
  probes, cache, runner, counts, CanFail, restartBtpOperatorPods, DeletePod, RestartFails, Goto,
  Return

LEMMA patchLastHashOrder == Healthy /\ IInv /\ patchLastHash => IInv'
BY SMTT(20), ProbeAssumption DEF IInv, Shapes, Order, NoAnnotations, States, Probes, Healthy, env,
  probes, cache, runner, counts, CanFail, Lag, ReadsCr, patchLastHash, SetLastHash, Return, Rest

LEMMA FailOrder == Healthy /\ IInv /\ Fail => IInv'
BY SMTT(20), ProbeAssumption DEF IInv, Shapes, Order, NoAnnotations, States, Probes, Healthy, env,
  probes, cache, runner, counts, CanFail, Fail, Return

LEMMA CrashOrder == Healthy /\ IInv /\ Crash => IInv'
BY SMTT(20), ProbeAssumption DEF IInv, Shapes, Order, NoAnnotations, States, Probes, Healthy, env,
  probes, cache, runner, counts, CanFail, Job, Crash, Return

LEMMA ProbeStopsOrder == Healthy /\ IInv /\ ProbeStops => IInv'
BY SMTT(20), ProbeAssumption DEF IInv, Shapes, Order, NoAnnotations, States, Probes, Healthy, env,
  probes, cache, runner, counts, ProbeStops, Stops

LEMMA SyncOrder == Healthy /\ IInv /\ Sync => IInv'
BY ProbeAssumption DEF IInv, Shapes, Order, NoAnnotations, States, Probes, Healthy, env, probes,
  cache, runner, counts, Job, Sync

LEMMA RotateOrder == Healthy /\ IInv /\ Rotate => IInv'
BY SMTT(20), ProbeAssumption DEF IInv, Shapes, Order, NoAnnotations, States, Probes, Healthy, env,
  probes, cache, runner, counts, Rotate

LEMMA ConnectionChangesOrder == Healthy /\ IInv /\ ConnectionChanges => IInv'
BY ProbeAssumption DEF IInv, Shapes, Order, NoAnnotations, States, Probes, Healthy, env, probes,
  cache, runner, counts, ConnectionChanges

LEMMA ProbeObservesOrder == ASSUME NEW p \in Probes, Healthy, IInv, ProbeObserves(p) PROVE IInv'
BY SMTT(20), ProbeAssumption DEF IInv, Shapes, Order, NoAnnotations, States, Probes, Healthy, env,
  probes, cache, runner, counts, ProbeObserves

LEMMA ProbeWritesOrder == ASSUME NEW p \in Probes, Healthy, IInv, ProbeWrites(p) PROVE IInv'
BY SMTT(20), ProbeAssumption DEF IInv, Shapes, Order, NoAnnotations, States, Probes, Healthy, env,
  probes, cache, runner, counts, CanFail, ProbeWrites, Written, Later, computeSignal

(* Every action keeps reports, Pods and records in order.                   *)
LEMMA OrderKept == Healthy /\ IInv /\ [Next]_vars => IInv'
<1> SUFFICES ASSUME Healthy, IInv, [Next]_vars PROVE IInv'
  OBVIOUS
<1>1. CASE Start
  BY <1>1, StartOrder
<1>2. CASE deleteOldJob
  BY <1>2, deleteOldJobOrder
<1>3. CASE getUpdatedAt
  BY <1>3, getUpdatedAtOrder
<1>4. CASE createJob
  BY <1>4, createJobOrder
<1>5. CASE waitForJob
  BY <1>5, waitForJobOrder
<1>6. CASE readResults
  BY <1>6, readResultsOrder
<1>7. CASE restartBtpOperatorPods
  BY <1>7, restartBtpOperatorPodsOrder
<1>8. CASE patchLastHash
  BY <1>8, patchLastHashOrder
<1>9. CASE Fail
  BY <1>9, FailOrder
<1>10. CASE Crash
  BY <1>10, CrashOrder
<1>11. CASE ProbeStops
  BY <1>11, ProbeStopsOrder
<1>12. CASE Sync
  BY <1>12, SyncOrder
<1>13. CASE Rotate
  BY <1>13, RotateOrder
<1>14. CASE ConnectionChanges
  BY <1>14, ConnectionChangesOrder
<1>15. CASE \E p \in Probes : ProbeObserves(p)
  BY <1>15, ProbeObservesOrder
<1>16. CASE \E p \in Probes : ProbeWrites(p)
  BY <1>16, ProbeWritesOrder
<1>17. CASE UNCHANGED vars
  BY <1>17 DEF IInv, Shapes, Order, NoAnnotations, States, Probes, Healthy, env, probes,
     cache, runner, counts, vars
<1> QED BY <1>1, <1>2, <1>3, <1>4, <1>5, <1>6, <1>7, <1>8, <1>9, <1>10, <1>11, <1>12, <1>13,
   <1>14, <1>15, <1>16, <1>17 DEF Next, Cycle

(* While TLS is healthy and a bundle stays mounted, tls-probe-last-hash is  *)
(* advanced only after every Pod was restarted with that bundle or a newer  *)
(* one: runCycle's order of restart and patch makes the restart happen at   *)
(* least once, whatever fails in between.                                   *)
THEOREM RestartComesFirst == Healthy /\ Spec => []RestartedBeforeRecorded
<1>1. Init => IInv
  BY SMTT(20) DEF Init, IInv, Shapes, Order, NoAnnotations, States, Probes, Healthy
<1>2. IInv => RestartedBeforeRecorded
  BY DEF IInv, Order, RestartedBeforeRecorded
<1>3. Healthy => Healthy'
  BY DEF Healthy
<1> QED BY <1>1, <1>2, <1>3, OrderKept, PTL DEF Spec
-----------------------------------------------------------------------------
(* EachRestartHasACause. A restart is due for every step on the way from    *)
(* the recorded hash over the one the cycle would read now to the mounted   *)
(* bundle. A probe that outlives the wait for it may write at any time and  *)
(* take the cycle to an old hash and back: two restarts, and a failure, a   *)
(* crash or a read that lagged came before it.                              *)
Differ(x, y) == IF x = y THEN 0 ELSE 1

\* The hash recorded, or about to be.
LastHash == IF pc \in {"restart", "patch"} THEN seen.hash ELSE ann.lastHash

\* The hash this cycle would read, if something was written since it began.
News ==
  IF pc \in {"create", "wait", "read"} /\ ann.updatedAt # prev THEN ann.hash ELSE LastHash

\* The Job that the cycle waits for is about to report what it saw.
Reporting == pc = "wait" /\ state["job"] = "observed"

\* Probes that may still write, with no cycle waiting for them.
Live == {"pending", "observed"}
LateJob == IF pc # "wait" /\ state["job"] \in Live THEN 2 ELSE 0
LateStray == IF state["stray"] \in Live THEN 2 ELSE 0
Late == LateJob + LateStray

Way(h) == Differ(LastHash, h) + Differ(h, bundle)
Causes == rotations + 2 * (fails + crashes + lags)
Paid ==
  /\ restarts + Way(News) + Late <= Causes
  /\ Reporting => restarts + Way(sawBundle["job"]) + Late <= Causes

\* A cycle waits for a Job that it has created.
JobOfCycle == pc = "wait" => state["job"] \in {"pending", "observed", "written", "complete"}

RInv == Types /\ JobOfCycle /\ Paid
-----------------------------------------------------------------------------
LEMMA JobKept ==
  ASSUME Types, JobOfCycle, [Next]_vars PROVE JobOfCycle'
<1>1. CASE pc' # "wait"
  BY <1>1 DEF JobOfCycle
<1>2. CASE createJob
  BY <1>2 DEF Types, TypeOK, Probes, JobOfCycle, createJob, Goto, Return
<1>3. CASE Start \/ deleteOldJob \/ getUpdatedAt \/ waitForJob
  BY <1>1, <1>3 DEF Start, deleteOldJob, DeleteJob, getUpdatedAt, waitForJob, Goto, Return
<1>4. CASE readResults \/ restartBtpOperatorPods \/ patchLastHash \/ Fail \/ Crash
  BY <1>1, <1>4
  DEF readResults, restartBtpOperatorPods, DeletePod, RestartFails, patchLastHash, Fail, Crash,
      Goto, Return
<1>5. CASE ProbeStops
  BY <1>5 DEF Types, TypeOK, Probes, JobOfCycle, runner, ProbeStops, Stops
<1>6. CASE Sync \/ Rotate \/ ConnectionChanges \/ UNCHANGED vars
  BY <1>6 DEF JobOfCycle, probes, runner, Sync, Rotate, ConnectionChanges, vars
<1>7. ASSUME NEW p \in Probes, ProbeObserves(p) \/ ProbeWrites(p) PROVE JobOfCycle'
  BY <1>7 DEF Types, TypeOK, Probes, JobOfCycle, runner, ProbeObserves, ProbeWrites
<1> QED BY <1>2, <1>3, <1>4, <1>5, <1>6, <1>7 DEF Next, Cycle

LEMMA DifferRange == \A x, y : Differ(x, y) \in {0, 1}
BY DEF Differ

\* The direct way is the shortest, and no way takes more than two.
LEMMA Ways == \A h : Way(h) \in 0 .. 2 /\ Way(LastHash) <= Way(h) /\ Way(bundle) <= Way(h)
<1>1. \A x, y, z : /\ Differ(x, y) + Differ(y, z) \in 0 .. 2
                   /\ Differ(x, x) + Differ(x, z) <= Differ(x, y) + Differ(y, z)
                   /\ Differ(x, z) + Differ(z, z) <= Differ(x, y) + Differ(y, z)
  BY SMTT(20) DEF Differ
<1> QED BY <1>1 DEF Way

LEMMA WaysNext == \A h : Way(h)' \in 0 .. 2
<1>1. \A x, y, z : Differ(x, y) + Differ(y, z) \in 0 .. 2
  BY SMTT(20) DEF Differ
<1> QED BY <1>1 DEF Way

LEMMA Numbers ==
  ASSUME Types
  PROVE  /\ restarts \in Nat /\ rotations \in Nat /\ fails \in Nat /\ crashes \in Nat
         /\ lags \in Nat /\ Causes \in Nat /\ LateJob \in {0, 2} /\ LateStray \in {0, 2}
         /\ Late \in Nat
BY SMTT(20), ProbeAssumption DEF Types, TypeOK, Causes, Late, LateJob, LateStray

LEMMA NumbersNext ==
  ASSUME Types'
  PROVE  /\ restarts' \in Nat /\ Causes' \in Nat /\ LateJob' \in {0, 2} /\ LateStray' \in {0, 2}
         /\ Late' \in Nat
<1>1. /\ restarts' \in Nat /\ rotations' \in Nat /\ fails' \in Nat /\ crashes' \in Nat
      /\ lags' \in Nat
  BY SMTT(20), ProbeAssumption DEF Types, TypeOK
<1>2. LateJob' \in {0, 2} /\ LateStray' \in {0, 2}
  BY DEF LateJob, LateStray
<1>3. ASSUME NEW r \in Nat, NEW f \in Nat, NEW c \in Nat, NEW l \in Nat
      PROVE  r + 2 * (f + c + l) \in Nat
  BY SMTT(20)
<1>4. \A m, n \in {0, 2} : m + n \in Nat
  BY SMTT(20)
<1>5. Causes' \in Nat /\ Late' \in Nat
  BY <1>1, <1>2, <1>3, <1>4 DEF Causes, Late
<1> QED BY <1>1, <1>2, <1>5

\* When a way is paid for, so is a shorter one; a fault pays for two more,
\* and so does a late write.
LEMMA Arithmetic ==
  \A r, w, l, c, v, k \in Nat :
    r + w + l <= c =>
      /\ v <= w /\ k <= l => r + v + k <= c /\ r + v + k <= c + 2
      /\ v <= 2 /\ k <= l => r + v + k <= c + 2
      /\ v <= w /\ k <= l + 2 => r + v + k <= c + 2
BY SMTT(20)

\* What a step with one more fault, or with none, has to show.
Same == UNCHANGED <<restarts, rotations, fails, crashes, lags>>
Fault ==
  UNCHANGED <<restarts, rotations>> /\ fails' + crashes' + lags' = fails + crashes + lags + 1

LEMMA SameOrFault ==
  ASSUME RInv PROVE (Same => Causes' = Causes) /\ (Fault => Causes' = Causes + 2)
<1>1. \A r, m, n \in Nat : n = m + 1 => r + 2 * n = r + 2 * m + 2
  BY SMTT(20)
<1>2. /\ rotations \in Nat /\ fails + crashes + lags \in Nat
      /\ fails + crashes + lags + 1 \in Nat
  BY SMTT(20), Numbers DEF RInv
<1> QED BY <1>1, <1>2 DEF Same, Fault, Causes

\* A step that leaves no more to pay for.
LEMMA ShorterWay ==
  ASSUME RInv, Types', Same \/ Fault, Late' <= Late, NEW w \in 0 .. 2, NEW v \in 0 .. 2,
         restarts + w + Late <= Causes, v <= w
  PROVE  restarts' + v + Late' <= Causes'
<1>1. /\ restarts \in Nat /\ Late \in Nat /\ Late' \in Nat /\ Causes \in Nat
      /\ Causes' = Causes \/ Causes' = Causes + 2
      /\ restarts' = restarts
  BY Numbers, NumbersNext, SameOrFault DEF RInv, Same, Fault
<1>2. w \in Nat /\ v \in Nat
  BY SMTT(20)
<1> QED BY <1>1, <1>2, Arithmetic

\* A fault pays for any way, or for a probe that will write late.
LEMMA FaultPays ==
  ASSUME RInv, Types', Fault, NEW v \in 0 .. 2,
         Late' <= Late \/ (v <= Way(News) /\ Late' <= Late + 2)
  PROVE  restarts' + v + Late' <= Causes'
<1>1. /\ restarts \in Nat /\ Late \in Nat /\ Late' \in Nat /\ Causes \in Nat
      /\ Causes' = Causes + 2 /\ restarts' = restarts
  BY Numbers, NumbersNext, SameOrFault DEF RInv, Fault
<1>2. v \in Nat /\ Way(News) \in Nat /\ v <= 2
  BY SMTT(20), Ways
<1>3. restarts + Way(News) + Late <= Causes
  BY DEF RInv, Paid
<1> QED BY <1>1, <1>2, <1>3, Arithmetic

\* A late write uses up what was set aside for it.
LEMMA LateWrite ==
  ASSUME RInv, Types', Same \/ Fault, Late' + 2 <= Late, NEW v \in 0 .. 2
  PROVE  restarts' + v + Late' <= Causes'
<1>1. /\ restarts \in Nat /\ Late \in Nat /\ Late' \in Nat /\ Causes \in Nat
      /\ Causes' = Causes \/ Causes' = Causes + 2
      /\ restarts' = restarts
  BY Numbers, NumbersNext, SameOrFault DEF RInv, Same, Fault
<1>2. v \in Nat /\ Way(News) \in Nat /\ v <= 2
  BY SMTT(20), Ways
<1>3. restarts + Way(News) + Late <= Causes
  BY DEF RInv, Paid
<1>4. \A r, w, l, c, u, k \in Nat :
        r + w + l <= c /\ u <= 2 /\ k + 2 <= l => r + u + k <= c /\ r + u + k <= c + 2
  BY SMTT(20)
<1>5. restarts + v + Late' <= Causes /\ restarts + v + Late' <= Causes + 2
  BY <1>1, <1>2, <1>3, <1>4
<1> QED BY <1>1, <1>5

\* A cycle that ends, or that has not begun, takes the direct way.
LEMMA DirectWay ==
  ASSUME RInv, Types', Same \/ Fault, Late' <= Late, UNCHANGED bundle,
         LastHash' = LastHash, News' = LastHash, ~Reporting'
  PROVE  Paid'
<1>1. Way(News)' = Way(LastHash)
  BY DEF Way
<1>2. Way(News)' \in 0 .. 2 /\ Way(News) \in 0 .. 2 /\ Way(News)' <= Way(News)
  BY <1>1, Ways
<1>3. restarts + Way(News) + Late <= Causes
  BY DEF RInv, Paid
<1>4. restarts' + Way(News)' + Late' <= Causes'
  BY <1>2, <1>3, ShorterWay
<1> QED BY <1>4 DEF Paid

LEMMA SameWay ==
  ASSUME RInv, Types', Same \/ Fault, Late' <= Late, UNCHANGED bundle,
         LastHash' = LastHash, News' = News,
         Reporting' => Reporting /\ sawBundle'["job"] = sawBundle["job"]
  PROVE  Paid'
<1>1. Way(News)' = Way(News) /\ Way(News) \in 0 .. 2 /\ Way(News) <= Way(News)
  BY SMTT(20), Ways DEF Way
<1>2. restarts' + Way(News)' + Late' <= Causes'
  BY <1>1, ShorterWay DEF RInv, Paid
<1>3. ASSUME Reporting' PROVE restarts' + Way(sawBundle["job"])' + Late' <= Causes'
  <2>1. /\ Way(sawBundle["job"])' = Way(sawBundle["job"])
        /\ Way(sawBundle["job"]) \in 0 .. 2 /\ Way(sawBundle["job"]) <= Way(sawBundle["job"])
    BY SMTT(20), <1>3, Ways DEF Way
  <2> QED BY <1>3, <2>1, ShorterWay DEF RInv, Paid
<1> QED BY <1>2, <1>3 DEF Paid
-----------------------------------------------------------------------------
(* The cycle.                                                               *)

\* A step of the cycle is a fault exactly when it reads a cache that lags.
LEMMA ReadIsFault ==
  ASSUME RInv, Rest, restarts' = restarts, ReadsJob \/ ReadsCr \/ UNCHANGED lags
  PROVE  Same \/ Fault
<1>1. fails \in Nat /\ crashes \in Nat /\ lags \in Nat
  BY Numbers DEF RInv
<1> QED BY SMTT(20), <1>1 DEF Rest, counts, ReadsJob, ReadsCr, Lag, Same, Fault

LEMMA SameLate ==
  ASSUME Types, Types', LateJob' = LateJob, LateStray' <= LateStray PROVE Late' <= Late
<1>1. \A m \in {0, 2}, n, k \in {0, 2} : n <= k => m + n <= m + k
  BY SMTT(20)
<1> QED BY <1>1, Numbers, NumbersNext DEF Late

LEMMA BeginningPaid ==
  ASSUME RInv, Types', Start \/ deleteOldJob PROVE Paid'
<1>1. /\ Same \/ Fault
      /\ UNCHANGED <<bundle, ann>> /\ pc \in {"idle", "delete", "gone"}
      /\ pc' \in {"idle", "delete", "gone", "prev"}
  <2>1. Rest /\ restarts' = restarts /\ (ReadsJob \/ UNCHANGED lags)
    BY DEF Start, deleteOldJob
  <2> QED BY <2>1, ReadIsFault DEF Start, deleteOldJob, DeleteJob, Goto, Return, Rest, env
<1>2. LastHash' = LastHash /\ News' = LastHash /\ ~Reporting'
  BY <1>1 DEF LastHash, News, Reporting
<1>3. Late' <= Late
  BY SMTT(20), <1>1
  DEF Late, LateJob, LateStray, Live, Start, deleteOldJob, DeleteJob, probes, RInv, Types, TypeOK,
      Probes
<1> QED BY <1>1, <1>2, <1>3, DirectWay

LEMMA getUpdatedAtPaid == ASSUME RInv, Types', getUpdatedAt PROVE Paid'
<1>1. /\ UNCHANGED <<bundle, ann, state, restarts>> /\ pc = "prev" /\ pc' = "create"
      /\ prev' = cann.updatedAt /\ Rest /\ ReadsCr
  BY DEF getUpdatedAt, Rest, env, probes
<1>2. LastHash' = LastHash /\ ~Reporting' /\ Late' = Late
  BY <1>1 DEF LastHash, Reporting, Late, LateJob, LateStray
<1>3. Late' <= Late
  BY SMTT(20), <1>2, Numbers DEF RInv
<1>4. Same \/ Fault
  BY <1>1, ReadIsFault
<1>5. CASE cann = ann
  <2>1. News' = LastHash
    BY <1>1, <1>2, <1>5 DEF News
  <2> QED BY <1>1, <1>2, <1>3, <1>4, <2>1, DirectWay
<1>6. CASE cann # ann
  <2>1. Fault
    <3>1. fails \in Nat /\ crashes \in Nat /\ lags \in Nat
      BY Numbers DEF RInv
    <3> QED BY SMTT(20), <1>1, <1>6, <3>1 DEF Rest, counts, ReadsCr, Lag, Fault
  <2>2. restarts' + Way(News)' + Late' <= Causes'
    BY <1>3, <2>1, WaysNext, FaultPays DEF Way
  <2> QED BY <1>2, <2>2 DEF Paid
<1> QED BY <1>5, <1>6

LEMMA createJobPaid == ASSUME RInv, Types', createJob PROVE Paid'
<1>1. /\ UNCHANGED <<bundle, ann, sawBundle, restarts>> /\ pc = "create" /\ Same
      /\ state \in [Probes -> States]
  BY DEF createJob, Rest, env, probes, counts, Same, RInv, Types, TypeOK
<1>2. CASE /\ state["job"] = "none" /\ pc' = "wait" /\ prev' = prev
           /\ state' = [state EXCEPT !["job"] = "pending"]
  <2>1. LastHash' = LastHash /\ News' = News /\ ~Reporting'
    BY <1>1, <1>2 DEF LastHash, News, Reporting, Probes
  <2>2. LateJob' = LateJob /\ LateStray' <= LateStray
    BY SMTT(20), <1>1, <1>2, Numbers DEF LateJob, LateStray, Live, Probes, RInv
  <2> QED BY <1>1, <2>1, <2>2, SameLate, SameWay DEF RInv
<1>3. CASE Return /\ UNCHANGED probes
  <2>1. LastHash' = LastHash /\ News' = LastHash /\ ~Reporting'
    BY <1>1, <1>3 DEF LastHash, News, Reporting, Return
  <2>2. LateJob' = LateJob /\ LateStray' <= LateStray
    BY SMTT(20), <1>1, <1>3, Numbers DEF LateJob, LateStray, Return, probes, RInv
  <2> QED BY <1>1, <2>1, <2>2, SameLate, DirectWay DEF RInv
<1> QED BY <1>2, <1>3 DEF createJob, Goto

\* A wait that ends too early leaves a Job that may still write.
LEMMA waitForJobPaid == ASSUME RInv, Types', waitForJob PROVE Paid'
<1>1. /\ UNCHANGED <<bundle, ann, state, restarts, prev>> /\ pc = "wait" /\ pc' = "read"
      /\ Rest /\ ReadsJob /\ cjob \in {"none", "complete"}
  BY DEF waitForJob, Goto, Rest, env, probes
<1>2. LastHash' = LastHash /\ News' = News /\ ~Reporting' /\ LateStray' = LateStray /\ LateJob = 0
  BY <1>1 DEF LastHash, News, Reporting, LateStray, LateJob
<1>3. CASE cjob = Job
  <2>1. state["job"] = "complete"
    BY <1>1, <1>3 DEF Job, RInv, JobOfCycle
  <2>2. LateJob' = LateJob /\ LateStray' <= LateStray
    BY SMTT(20), <1>1, <1>2, <2>1, Numbers DEF LateJob, Live, RInv
  <2>3. Same \/ Fault
    BY <1>1, ReadIsFault
  <2> QED BY <1>1, <1>2, <2>2, <2>3, SameLate, SameWay DEF RInv
<1>4. CASE cjob # Job
  <2>1. Fault
    <3>1. fails \in Nat /\ crashes \in Nat /\ lags \in Nat
      BY Numbers DEF RInv
    <3> QED BY SMTT(20), <1>1, <1>4, <3>1 DEF Rest, counts, ReadsJob, Lag, Fault
  <2>2. Late' <= Late + 2
    <3>1. \A m, n \in {0, 2} : m + n <= 0 + n + 2
      BY SMTT(20)
    <3> QED BY <1>2, <3>1, Numbers, NumbersNext DEF Late, RInv
  <2>3. Way(News)' = Way(News) /\ Way(News)' \in 0 .. 2 /\ Way(News) <= Way(News)
    BY SMTT(20), <1>1, <1>2, Ways DEF Way
  <2>4. restarts' + Way(News)' + Late' <= Causes'
    BY <2>1, <2>2, <2>3, FaultPays
  <2> QED BY <1>2, <2>4 DEF Paid
<1> QED BY <1>3, <1>4

\* A restart uses up the difference it was decided on.
LEMMA readResultsPaid == ASSUME RInv, Types', readResults PROVE Paid'
<1>1. /\ UNCHANGED <<rotations, fails, crashes, bundle, ann, state>> /\ pc = "read" /\ ReadsCr
      /\ pc' # "wait"
  BY DEF readResults, Return, Rest, env, counts, probes
<1>2. LastHash = ann.lastHash /\ ~Reporting' /\ LateJob' = LateJob /\ LateStray' = LateStray
  BY <1>1 DEF LastHash, Reporting, LateJob, LateStray
<1>3. Late' = Late /\ Late' <= Late
  BY SMTT(20), <1>2, Numbers DEF Late, RInv
<1>4. CASE ~Records /\ Return /\ UNCHANGED restarts
  <2>1. LastHash' = LastHash /\ News' = LastHash
    BY <1>1, <1>2, <1>4 DEF Return, LastHash, News
  <2>2. Same \/ Fault
    BY <1>4, ReadIsFault DEF readResults
  <2> QED BY <1>1, <1>2, <1>3, <2>1, <2>2, DirectWay
<1>5. CASE Records /\ pc' \in {"restart", "patch"} /\ seen' = cann
  <2>1. LastHash' = cann.hash /\ News' = LastHash'
    BY <1>1, <1>5 DEF LastHash, News
  <2>2. Way(News)' = Differ(cann.hash, bundle)
    <3>1. \A x, y : Differ(x, x) + Differ(x, y) = Differ(x, y)
      BY SMTT(20) DEF Differ
    <3> QED BY <1>1, <2>1, <3>1 DEF Way
  <2>3. restarts \in Nat /\ Late \in Nat /\ Causes \in Nat /\ restarts + Way(News) + Late <= Causes
    BY Numbers DEF RInv, Paid
  <2>4. CASE cann = ann
    <3>1. News = ann.hash
      BY <1>1, <1>5, <2>4 DEF News, Records
    <3>2. Causes' = Causes
      BY <1>1, <2>4 DEF ReadsCr, Causes
    <3>3. restarts' = restarts \/ (restarts' = restarts + 1 /\ LastHash # News)
      BY <1>1, <1>2, <1>5, <2>4, <3>1 DEF readResults, Rotated
    <3>4. Differ(LastHash, News) + Differ(News, bundle) = Way(News)
      BY DEF Way
    <3>5. LastHash # News => Differ(LastHash, News) = 1
      BY DEF Differ
    <3>6. Way(News)' = Differ(News, bundle)
      BY <2>2, <2>4, <3>1
    <3>7. restarts' + Differ(News, bundle) + Late <= Causes
      BY SMTT(20), <2>3, <3>3, <3>4, <3>5, DifferRange
    <3> QED BY <1>2, <1>3, <3>2, <3>6, <3>7 DEF Paid
  <2>5. CASE cann # ann
    <3>1. Causes' = Causes + 2
      <4>1. /\ rotations \in Nat /\ fails \in Nat /\ crashes \in Nat /\ lags \in Nat
            /\ lags' = lags + 1
        BY <1>1, <2>5, Numbers DEF ReadsCr, Lag, RInv
      <4>2. \A a, b, c, d, e \in Nat : e = d + 1 => a + 2 * (b + c + e) = a + 2 * (b + c + d) + 2
        BY SMTT(20)
      <4>3. lags + 1 \in Nat
        BY SMTT(20), <4>1
      <4> QED BY <1>1, <4>1, <4>2, <4>3 DEF Causes
    <3>2. restarts' = restarts \/ restarts' = restarts + 1
      BY <1>5 DEF readResults
    <3>3. Differ(cann.hash, bundle) \in {0, 1} /\ Way(News) \in 0 .. 2
      BY DifferRange, Ways
    <3>4. restarts' + Differ(cann.hash, bundle) + Late <= Causes + 2
      BY SMTT(20), <2>3, <3>2, <3>3
    <3> QED BY <1>2, <1>3, <2>2, <3>1, <3>4 DEF Paid
  <2> QED BY <2>4, <2>5
<1> QED BY <1>4, <1>5 DEF readResults

LEMMA RestartPaid == ASSUME RInv, Types', restartBtpOperatorPods PROVE Paid'
<1>1. /\ UNCHANGED <<rotations, crashes, lags, restarts, bundle, ann, state>> /\ pc = "restart"
      /\ pc' \in {"restart", "patch", "idle"}
  BY DEF restartBtpOperatorPods, DeletePod, RestartFails, Goto, Return, env, probes
<1>2. ~Reporting' /\ LateStray' = LateStray /\ LateJob' = LateJob
  BY <1>1 DEF LateJob, LateStray, Reporting
<1>3. Late' <= Late
  BY SMTT(20), <1>2, Numbers DEF Late, RInv
<1>4. CASE pc' \in {"restart", "patch"} /\ UNCHANGED <<seen, fails>>
  <2>1. LastHash' = LastHash /\ News' = News
    BY <1>1, <1>4 DEF LastHash, News
  <2> QED BY <1>1, <1>2, <1>3, <1>4, <2>1, SameWay DEF Same
<1>5. CASE RestartFails
  <2>1. Fault
    <3>1. fails \in Nat /\ crashes \in Nat /\ lags \in Nat
      BY Numbers DEF RInv
    <3> QED BY SMTT(20), <1>1, <1>5, <3>1 DEF RestartFails, Fault
  <2>2. restarts' + Way(News)' + Late' <= Causes'
    BY <1>3, <2>1, WaysNext, FaultPays DEF Way
  <2> QED BY <1>2, <2>2 DEF Paid
<1> QED BY <1>1, <1>4, <1>5 DEF restartBtpOperatorPods, DeletePod, Goto

LEMMA PatchPaid == ASSUME RInv, Types', patchLastHash PROVE Paid'
<1>1. /\ UNCHANGED <<restarts, bundle, state>> /\ pc = "patch" /\ pc' = "idle" /\ Rest /\ ReadsCr
      /\ ann' = IF cann.lastHash = seen.hash THEN ann ELSE SetLastHash
  BY DEF patchLastHash, Rest, Return, env, probes
<1>2. /\ ~Reporting' /\ LateStray' = LateStray /\ LateJob' = LateJob /\ News' = LastHash'
      /\ LastHash = seen.hash /\ LastHash' = ann'.lastHash
  BY <1>1 DEF LateJob, LateStray, Reporting, News, LastHash
<1>3. Late' <= Late
  BY SMTT(20), <1>2, Numbers DEF Late, RInv
<1>4. CASE cann = ann
  <2>1. ann'.lastHash = seen.hash
    BY <1>1, <1>4 DEF SetLastHash
  <2>2. Same \/ Fault
    BY <1>1, ReadIsFault
  <2> QED BY <1>1, <1>2, <1>3, <2>1, <2>2, DirectWay
<1>5. CASE cann # ann
  <2>1. Fault
    <3>1. fails \in Nat /\ crashes \in Nat /\ lags \in Nat
      BY Numbers DEF RInv
    <3> QED BY SMTT(20), <1>1, <1>5, <3>1 DEF Rest, counts, ReadsCr, Lag, Fault
  <2>2. restarts' + Way(News)' + Late' <= Causes'
    BY <1>3, <2>1, WaysNext, FaultPays DEF Way
  <2> QED BY <1>2, <2>2 DEF Paid
<1> QED BY <1>4, <1>5
-----------------------------------------------------------------------------
(* A cycle that is cut short leaves a Job that may still write.             *)
LEMMA FaultPaid == ASSUME RInv, Types', Fail \/ Crash PROVE Paid'
<1>1. /\ UNCHANGED <<rotations, restarts, bundle, ann, state, lags>> /\ pc' = "idle"
  BY DEF Fail, Crash, env, probes, Return
<1>2. Fault
  <2>1. fails \in Nat /\ crashes \in Nat /\ lags \in Nat
    BY Numbers DEF RInv
  <2> QED BY SMTT(20), <1>1, <2>1 DEF Fail, Crash, Fault
<1>3. LateStray' = LateStray /\ News' = LastHash' /\ LastHash' = ann.lastHash /\ ~Reporting'
  BY <1>1 DEF LateStray, News, LastHash, Reporting
<1>4. CASE pc = "wait"
  <2>1. Late' <= Late + 2
    <3>1. LateJob = 0
      BY <1>4 DEF LateJob
    <3>2. \A m, n \in {0, 2} : m + n <= 0 + n + 2
      BY SMTT(20)
    <3> QED BY <1>3, <3>1, <3>2, Numbers, NumbersNext DEF Late, RInv
  <2>2. Way(News)' = Way(LastHash)
    BY <1>1, <1>3, <1>4 DEF Way, LastHash
  <2>3. Way(News)' \in 0 .. 2 /\ Way(News)' <= Way(News)
    BY <2>2, Ways
  <2>4. restarts' + Way(News)' + Late' <= Causes'
    BY <1>2, <2>1, <2>3, FaultPays
  <2> QED BY <1>3, <2>4 DEF Paid
<1>5. CASE pc # "wait"
  <2>1. LateJob' = LateJob
    BY <1>1, <1>5 DEF LateJob
  <2>2. Late' <= Late
    BY SMTT(20), <1>3, <2>1, Numbers DEF Late, RInv
  <2>3. restarts' + Way(News)' + Late' <= Causes'
    BY <1>2, <2>2, WaysNext, FaultPays DEF Way
  <2> QED BY <1>3, <2>3 DEF Paid
<1> QED BY <1>4, <1>5
-----------------------------------------------------------------------------
(* The probes and the environment.                                          *)
LEMMA ObservesPaid ==
  ASSUME RInv, Types', NEW p \in Probes, ProbeObserves(p) PROVE Paid'
<1>1. /\ UNCHANGED <<bundle, ann, pc, prev, seen>> /\ Same
      /\ state[p] = "pending" /\ state' = [state EXCEPT ![p] = "observed"]
      /\ sawBundle' = [sawBundle EXCEPT ![p] = bundle]
      /\ state \in [Probes -> States] /\ sawBundle \in [Probes -> Bundles]
  BY DEF ProbeObserves, env, runner, counts, Same, RInv, Types, TypeOK
<1>2. LateJob' = LateJob /\ LateStray' = LateStray /\ LastHash' = LastHash /\ News' = News
  BY <1>1 DEF LateJob, LateStray, LastHash, News, Live, Probes
<1>3. Late' <= Late
  BY SMTT(20), <1>2, Numbers DEF Late, RInv
<1>4. CASE p = "job" /\ pc = "wait"
  <2>1. sawBundle'["job"] = bundle
    BY <1>1, <1>4 DEF Probes
  <2>2. Way(sawBundle["job"])' = Way(bundle) /\ Way(News)' = Way(News)
    BY <1>1, <1>2, <2>1 DEF Way
  <2>3. /\ Way(sawBundle["job"])' \in 0 .. 2 /\ Way(News)' \in 0 .. 2 /\ Way(News) \in 0 .. 2
        /\ Way(sawBundle["job"])' <= Way(News)
    BY <2>2, Ways
  <2>4. Way(News)' <= Way(News)
    BY SMTT(20), <2>2, <2>3
  <2>5. restarts + Way(News) + Late <= Causes
    BY DEF RInv, Paid
  <2>6. restarts' + Way(News)' + Late' <= Causes'
    BY <1>1, <1>3, <2>3, <2>4, <2>5, ShorterWay
  <2>7. restarts' + Way(sawBundle["job"])' + Late' <= Causes'
    BY <1>1, <1>3, <2>3, <2>5, ShorterWay
  <2> QED BY <2>6, <2>7 DEF Paid
<1>5. CASE ~(p = "job" /\ pc = "wait")
  <2>1. Reporting' => Reporting /\ sawBundle'["job"] = sawBundle["job"]
    BY <1>1, <1>5 DEF Reporting, Probes
  <2> QED BY <1>1, <1>2, <1>3, <2>1, SameWay
<1> QED BY <1>4, <1>5

\* The two set aside for a late write, or paid by a failed one, cover any
\* hash; the Job of the cycle brings the hash it has observed.
LEMMA WritesPaid ==
  ASSUME RInv, Types', NEW p \in Probes, ProbeWrites(p) PROVE Paid'
<1>1. /\ UNCHANGED <<restarts, rotations, crashes, lags, bundle, pc, prev, seen>>
      /\ state[p] = "observed"
      /\ state' = [state EXCEPT ![p] = IF p = "job" THEN "written" ELSE "none"]
      /\ \/ ann' = Written(sawBundle[p], sawTls[p]) /\ UNCHANGED fails
         \/ fails' = fails + 1 /\ UNCHANGED ann
      /\ state \in [Probes -> States] /\ fails \in Nat /\ crashes \in Nat /\ lags \in Nat
  BY Numbers DEF ProbeWrites, env, runner, RInv, Types, TypeOK
<1>2. (UNCHANGED fails => Same) /\ (fails' = fails + 1 => Fault)
  BY SMTT(20), <1>1 DEF Same, Fault
<1>3. Way(News)' \in 0 .. 2 /\ Way(sawBundle["job"])' \in 0 .. 2
  BY WaysNext DEF Way
<1>4. CASE p = "stray" \/ pc # "wait"
  <2>1. Late' + 2 <= Late
    <3>1. \/ LateJob = 2 /\ LateJob' = 0 /\ LateStray' = LateStray
          \/ LateStray = 2 /\ LateStray' = 0 /\ LateJob' = LateJob
      BY <1>1, <1>4 DEF LateJob, LateStray, Live, Probes
    <3>2. \A m \in {0, 2} : (0 + m) + 2 <= 2 + m /\ (m + 0) + 2 <= m + 2
      BY SMTT(20)
    <3> QED BY <3>1, <3>2, Numbers DEF Late, RInv
  <2> QED BY <1>1, <1>2, <1>3, <2>1, LateWrite DEF Paid
<1>5. CASE p = "job" /\ pc = "wait"
  <2>1. ~Reporting' /\ LateJob' = LateJob /\ LateStray' = LateStray /\ Reporting
    BY <1>1, <1>5 DEF Reporting, LateJob, LateStray, Live, Probes
  <2>2. Late' <= Late
    BY SMTT(20), <2>1, Numbers DEF Late, RInv
  <2>3. CASE fails' = fails + 1
    <3>1. restarts' + Way(News)' + Late' <= Causes'
      BY <1>2, <1>3, <2>2, <2>3, FaultPays
    <3> QED BY <2>1, <3>1 DEF Paid
  <2>4. CASE ann' = Written(sawBundle["job"], sawTls["job"]) /\ UNCHANGED fails
    <3>1. /\ ann'.hash = sawBundle["job"]
          /\ ann'.lastHash = ann.lastHash \/ ann'.lastHash = sawBundle["job"]
      BY <2>4 DEF Written, NoAnnotations
    <3>2. /\ LastHash' = LastHash \/ LastHash' = sawBundle["job"]
          /\ News' = sawBundle["job"] \/ News' = LastHash'
      BY <1>1, <1>5, <3>1 DEF LastHash, News
    <3>3. \A x, y, u, z : (u = x \/ u = y) =>
            /\ Differ(u, y) + Differ(y, z) <= Differ(x, y) + Differ(y, z)
            /\ Differ(u, u) + Differ(u, z) <= Differ(x, y) + Differ(y, z)
      BY SMTT(20) DEF Differ
    <3>4. Way(News)' <= Way(sawBundle["job"])
      BY <1>1, <3>2, <3>3 DEF Way
    <3>5. Way(sawBundle["job"]) \in 0 .. 2 /\ restarts + Way(sawBundle["job"]) + Late <= Causes
      BY <2>1, Ways DEF RInv, Paid
    <3>6. restarts' + Way(News)' + Late' <= Causes'
      BY <1>2, <1>3, <2>2, <2>4, <3>4, <3>5, ShorterWay
    <3> QED BY <2>1, <3>6 DEF Paid
  <2> QED BY <1>1, <1>5, <2>3, <2>4
<1> QED BY <1>4, <1>5 DEF Probes

LEMMA StopsPaid == ASSUME RInv, Types', ProbeStops PROVE Paid'
<1>1. /\ UNCHANGED <<bundle, pc, prev, seen, ann>> /\ Same
      /\ \/ state["job"] = "written" /\ state' = [state EXCEPT !["job"] = "complete"]
         \/ state["job"] = "deleting" /\ state' = [state EXCEPT !["job"] = "none"]
         \/ /\ state' = [state EXCEPT !["stray"] = "none"]
            /\ sawBundle' = [sawBundle EXCEPT !["stray"] = 0]
      /\ state \in [Probes -> States] /\ sawBundle \in [Probes -> Bundles]
  BY DEF ProbeStops, Stops, env, runner, counts, Same, RInv, Types, TypeOK
<1>2. LateJob' = LateJob /\ LateStray' <= LateStray
  BY SMTT(20), <1>1 DEF LateJob, LateStray, Live, Probes
<1>3. LastHash' = LastHash /\ News' = News
  BY <1>1 DEF LastHash, News
<1>4. Reporting' => Reporting /\ sawBundle'["job"] = sawBundle["job"]
  BY <1>1 DEF Reporting, Probes
<1> QED BY <1>1, <1>2, <1>3, <1>4, SameLate, SameWay DEF RInv

\* A rotation pays for one.
LEMMA RotatePaid == ASSUME RInv, Types', Rotate PROVE Paid'
<1>1. /\ UNCHANGED <<restarts, fails, crashes, lags, ann, state, sawBundle, pc, prev, seen>>
      /\ rotations' = rotations + 1
  BY DEF Rotate, probes, runner
<1>2. LastHash' = LastHash /\ News' = News /\ Late' = Late /\ Reporting' = Reporting
  BY <1>1 DEF Late, LateJob, LateStray, LastHash, News, Reporting
<1>3. /\ restarts \in Nat /\ rotations \in Nat /\ fails + crashes + lags \in Nat
      /\ Late \in Nat /\ Causes \in Nat
  BY SMTT(20), Numbers DEF RInv
<1>4. Causes' = Causes + 1
  <2>1. \A r, f \in Nat : (r + 1) + 2 * f = r + 2 * f + 1
    BY SMTT(20)
  <2> QED BY <1>1, <1>3, <2>1 DEF Causes
<1>5. \A h, l, b, c : Differ(l, h) + Differ(h, c) <= Differ(l, h) + Differ(h, b) + 1
  BY SMTT(20) DEF Differ
<1>6. \A r, w, v, l, c \in Nat : r + w + l <= c /\ v <= w + 1 => r + v + l <= c + 1
  BY SMTT(20)
<1>7. \A w \in 0 .. 2 : w \in Nat
  BY SMTT(20)
<1>8. Way(News)' \in Nat /\ Way(News) \in Nat /\ Way(News)' <= Way(News) + 1
  BY <1>2, <1>5, <1>7, Ways, WaysNext DEF Way
<1>9. /\ Way(sawBundle["job"])' \in Nat /\ Way(sawBundle["job"]) \in Nat
      /\ Way(sawBundle["job"])' <= Way(sawBundle["job"]) + 1
  BY <1>1, <1>2, <1>5, <1>7, Ways, WaysNext DEF Way
<1>10. restarts' + Way(News)' + Late' <= Causes'
  BY <1>1, <1>2, <1>3, <1>4, <1>6, <1>8 DEF RInv, Paid
<1>11. Reporting => restarts' + Way(sawBundle["job"])' + Late' <= Causes'
  BY <1>1, <1>2, <1>3, <1>4, <1>6, <1>9 DEF RInv, Paid
<1> QED BY <1>2, <1>10, <1>11 DEF Paid

LEMMA IdlePaid ==
  ASSUME RInv, Sync \/ ConnectionChanges \/ UNCHANGED vars PROVE Paid'
BY DEF RInv, Sync, ConnectionChanges, vars, env, probes, runner, counts, Paid, Way, Causes, Late,
  LateJob, LateStray, LastHash, News, Reporting
-----------------------------------------------------------------------------
LEMMA RInvInitial == Init => RInv
<1> SUFFICES ASSUME Init PROVE RInv
  OBVIOUS
<1>1. Types
  BY SMTT(20), ProbeAssumption
     DEF Init, Types, TypeOK, Annotations, NoAnnotations, Bundles, Statuses,
     States, Probes
<1>2. JobOfCycle
  BY DEF Init, JobOfCycle
<1>3. /\ LastHash = 1 /\ News = 1 /\ bundle = 1 /\ LateJob = 0 /\ LateStray = 0
      /\ restarts = 0 /\ Causes = 0 /\ ~Reporting
  BY SMTT(20) DEF Init, LastHash, News, LateJob, LateStray, Live, Probes, Causes, Reporting
<1>4. Differ(1, 1) = 0
  BY DEF Differ
<1> QED BY SMTT(20), <1>1, <1>2, <1>3, <1>4 DEF RInv, Paid, Way, Late

LEMMA RInvKept == RInv /\ [Next]_vars => RInv'
<1> SUFFICES ASSUME RInv, [Next]_vars PROVE RInv'
  OBVIOUS
<1>1. Types' /\ JobOfCycle'
  BY TypesKept, JobKept DEF RInv
<1>2. CASE Cycle
  BY <1>1, <1>2, BeginningPaid, getUpdatedAtPaid, createJobPaid, waitForJobPaid, readResultsPaid,
     RestartPaid, PatchPaid DEF Cycle, RInv
<1>3. CASE Fail \/ Crash \/ ProbeStops \/ Rotate
  BY <1>1, <1>3, FaultPaid, StopsPaid, RotatePaid DEF RInv
<1>4. CASE \E p \in Probes : ProbeObserves(p) \/ ProbeWrites(p)
  BY <1>1, <1>4, ObservesPaid, WritesPaid DEF RInv
<1>5. CASE Sync \/ ConnectionChanges \/ UNCHANGED vars
  BY <1>1, <1>5, IdlePaid DEF RInv
<1> QED BY <1>2, <1>3, <1>4, <1>5 DEF Next

(* Restarts of the operand's Pods are at most one for each change of the    *)
(* mounted bundle and two for each failed call, wait that times out, crash  *)
(* of the manager and read of a cache that has not caught up, whatever TLS  *)
(* does and whatever Pods of deleted Jobs write late.                       *)
THEOREM RestartedForACause == Spec => []EachRestartHasACause
<1>1. RInv => EachRestartHasACause
  <2> SUFFICES ASSUME RInv PROVE EachRestartHasACause
    OBVIOUS
  <2>1. /\ restarts \in Nat /\ Causes \in Nat /\ Way(News) \in 0 .. 2 /\ Late \in Nat
        /\ restarts + Way(News) + Late <= Causes
    BY Numbers, Ways DEF RInv, Paid
  <2>2. restarts <= Causes
    BY SMTT(20), <2>1
  <2> QED BY <2>2 DEF Causes, EachRestartHasACause
<1> QED BY <1>1, RInvInitial, RInvKept, PTL DEF Spec
=============================================================================
