----------------------- MODULE ModuleResourcesProofs -----------------------
(***************************************************************************)
(* Type correctness, NoWaiterLeft, ReadyWhenQuiet and ReadyMeansApplied,   *)
(* for any list of manifests and policies and any number of edits,         *)
(* failures and upgrades.                                                  *)
(*                                                                         *)
(* The argument for ReadyWhenQuiet: a pass leaves state Ready only after   *)
(* the Deployment was seen ready and the policies were applied or cleaned  *)
(* up as the cached annotation says. Whatever changes afterwards, or while *)
(* the pass runs, is a watched object: its event is pending or has queued  *)
(* another pass. A CR that was not Ready before is woken by its own status *)
(* update, which makes up for the events its predicate drops in Error.     *)
(* For NoWaiterLeft, Counted says that the worker still has as many results *)
(* to receive as there are goroutines running and results not received.    *)
(* For ReadyMeansApplied, Done says how far the deletions and the applies  *)
(* of a pass have come at each of its steps.                               *)
(***************************************************************************)
EXTENDS ModuleResources, FiniteSetTheorems, TLAPS

\* Each leaf is given to Zenon and then to SMT, with time for slow machines.
USE ZenonT(10), SMTT(20)

\* TypeOK in three parts.
ClusterTypes ==
  /\ obj \in [Resources -> 0 .. 1 + MaxUpgrades] /\ outdated \subseteq OldObjects
  /\ labelled \subseteq ToSet(Policies) /\ annotation \in {"true", "none"}
  /\ conditions \in [available : {"none", "True", "False"}, progressing : {"none", "True", "False"}]
  /\ rolled \in 0 .. 1 + MaxUpgrades
LoopTypes ==
  /\ cannotation \in {"true", "none"} /\ state \in {"Processing", "Ready", "Error"}
  /\ want \in 1 .. 1 + MaxUpgrades /\ pend \subseteq Watched /\ queue \subseteq {"cr"}
  /\ pc \in {"idle", "policies", "oldPolicy", "apply", "wait"}
  /\ edits \in 0 .. MaxEdits /\ fails \in 0 .. MaxFails
PassTypes ==
  /\ todo \in Seq(Resources) /\ ToSet(todo) \subseteq applying /\ applying \subseteq Resources
  /\ running \subseteq Resources /\ errChan \subseteq Resources \X {"nil", "error"}
  /\ firstErr \in BOOLEAN /\ left \in Nat /\ mine \in {"true", "none"}
Types == ClusterTypes /\ LoopTypes /\ PassTypes

\* Nothing but an event of a policy or of the Deployment can begin a pass.
Undisturbed == state = "Ready" /\ queue = {} /\ "cr" \notin pend
DeploymentFine == isDeploymentReady \/ "deployment" \in pend
PolicyFine(p) == (obj[p] # 0 /\ p \in labelled) \/ p \in pend

\* The annotation in the cache is old only while the CR's event is pending.
CacheFresh == "cr" \notin pend => cannotation = annotation

\* A pass loads the Deployment, and before it waits it has applied all it loaded.
Loading ==
  /\ pc \in {"oldPolicy", "apply"} => ToSet(Apply) \subseteq applying
  /\ pc = "wait" => todo = <<>>

\* A pass began with the annotation of the CR.
PassFresh == Undisturbed /\ pc = "policies" => mine = annotation

ReadyAndIdle ==
  Undisturbed /\ pc = "idle" =>
    /\ DeploymentFine
    /\ annotation = "none" => \A p \in ToSet(Policies) : PolicyFine(p)
    /\ annotation = "true" => labelled = {}
ReadyInPass ==
  Undisturbed /\ pc \in {"oldPolicy", "apply", "wait"} =>
    /\ annotation = "none" => \A p \in ToSet(Policies) : p \in ToSet(todo) \/ PolicyFine(p)
    /\ annotation = "true" => applying = ToSet(Apply) /\ labelled = {}
DeploymentAwaited ==
  Undisturbed /\ pc = "wait" /\ ~firstErr =>
    "deployment" \in running \/ <<"deployment", "error">> \in errChan \/ DeploymentFine

Sound == PassFresh /\ ReadyAndIdle /\ ReadyInPass /\ DeploymentAwaited

\* A goroutine runs, or its result is in the channel, or it was received.
Disjoint == \A r \in running : \A v \in {"nil", "error"} : <<r, v>> \notin errChan
Counted ==
  /\ pc # "wait" => running = {} /\ errChan = {}
  /\ pc = "wait" => left = Cardinality(running) + Cardinality(errChan)
  /\ IsFiniteSet(running) /\ IsFiniteSet(errChan) /\ Disjoint

\* Within a pass: what is outdated goes first, and a resource that is not to
\* be applied any more is up to date unless a user deleted it.
Cleaned ==
  /\ pc # "idle" => outdated \cap ToDelete = {}
  /\ pc \in {"apply", "wait"} => outdated = {}
UpToDate(r) == obj[r] = want \/ (obj[r] = 0 /\ edits > 0)
Applied ==
  /\ pc = "oldPolicy" => applying \subseteq ToSet(todo)
  /\ pc \in {"apply", "wait"} => \A r \in applying : r \in ToSet(todo) \/ UpToDate(r)
  /\ pc = "wait" => ToSet(Apply) \subseteq applying
IInv == Types /\ Counted /\ CacheFresh /\ Loading /\ Sound
-----------------------------------------------------------------------------
(* Lists of resources.                                                      *)
LEMMA ToSetEmpty == ToSet(<<>>) = {} /\ <<>> \in Seq(Resources)
<1>1. ToSet(<<>>) = {}
  BY SMTT(20) DEF ToSet
<1>2. <<>> \in Seq(Resources)
  BY SMTT(20)
<1> QED BY <1>1, <1>2

LEMMA HeadAndTail ==
  ASSUME NEW S, NEW s \in Seq(S), s # <<>>
  PROVE  /\ Head(s) \in ToSet(s) /\ Tail(s) \in Seq(S) /\ ToSet(Tail(s)) \subseteq ToSet(s)
         /\ ToSet(s) \subseteq {Head(s)} \cup ToSet(Tail(s))
<1>1. Len(s) \in Nat \ {0} /\ DOMAIN s = 1 .. Len(s) /\ Head(s) = s[1] /\ Tail(s) \in Seq(S)
  BY SMTT(20)
<1>2. /\ DOMAIN Tail(s) = 1 .. Len(s) - 1
      /\ \A i \in 1 .. Len(s) - 1 : Tail(s)[i] = s[i + 1]
  BY SMTT(20), <1>1
<1>3. Head(s) \in ToSet(s)
  BY SMTT(20), <1>1 DEF ToSet
<1>4. ToSet(Tail(s)) \subseteq ToSet(s)
  BY SMTT(20), <1>1, <1>2 DEF ToSet
<1>5. ASSUME NEW i \in 1 .. Len(s), s[i] # Head(s) PROVE s[i] \in ToSet(Tail(s))
  <2>1. i - 1 \in 1 .. Len(s) - 1 /\ i - 1 + 1 = i
    BY SMTT(20), <1>1, <1>5
  <2>2. Tail(s)[i - 1] = s[i]
    BY <1>2, <2>1
  <2> QED BY <1>2, <2>1, <2>2 DEF ToSet
<1>6. ToSet(s) \subseteq {Head(s)} \cup ToSet(Tail(s))
  BY <1>1, <1>5 DEF ToSet
<1> QED BY <1>1, <1>3, <1>4, <1>6

LEMMA ToSetConcat ==
  ASSUME NEW S, NEW s \in Seq(S), NEW t \in Seq(S)
  PROVE  ToSet(s \o t) = ToSet(s) \cup ToSet(t)
<1>1. /\ Len(s) \in Nat /\ Len(t) \in Nat /\ DOMAIN s = 1 .. Len(s) /\ DOMAIN t = 1 .. Len(t)
      /\ DOMAIN (s \o t) = 1 .. Len(s) + Len(t)
      /\ \A i \in 1 .. Len(s) : (s \o t)[i] = s[i]
      /\ \A i \in 1 .. Len(t) : (s \o t)[Len(s) + i] = t[i]
  BY SMTT(20)
<1>2. ToSet(s \o t) \subseteq ToSet(s) \cup ToSet(t)
  <2> SUFFICES ASSUME NEW i \in 1 .. Len(s) + Len(t)
               PROVE  (s \o t)[i] \in ToSet(s) \cup ToSet(t)
    BY <1>1 DEF ToSet
  <2>1. CASE i <= Len(s)
    BY SMTT(20), <1>1, <2>1 DEF ToSet
  <2>2. CASE ~(i <= Len(s))
    <3>1. i - Len(s) \in 1 .. Len(t) /\ Len(s) + (i - Len(s)) = i
      BY SMTT(20), <1>1, <2>2
    <3>2. (s \o t)[i] = t[i - Len(s)]
      BY <1>1, <3>1
    <3> QED BY <1>1, <3>1, <3>2 DEF ToSet
  <2> QED BY <2>1, <2>2
<1>3. ToSet(s) \subseteq ToSet(s \o t)
  BY SMTT(20), <1>1 DEF ToSet
<1>4. ASSUME NEW i \in 1 .. Len(t) PROVE t[i] \in ToSet(s \o t)
  <2>1. Len(s) + i \in 1 .. Len(s) + Len(t)
    BY SMTT(20), <1>1
  <2> QED BY <1>1, <2>1 DEF ToSet
<1>5. ToSet(t) \subseteq ToSet(s \o t)
  BY <1>1, <1>4 DEF ToSet
<1> QED BY <1>2, <1>3, <1>5

LEMMA FirstAndRest ==
  ASSUME NEW S, NEW x \in S, NEW t \in Seq(S)
  PROVE  <<x>> \o t \in Seq(S) /\ ToSet(<<x>> \o t) = {x} \cup ToSet(t)
<1>1. <<x>> \in Seq(S) /\ <<x>> \o t \in Seq(S)
  BY SMTT(20)
<1>2. DOMAIN <<x>> = {1} /\ <<x>>[1] = x
  BY SMTT(20)
<1>3. ToSet(<<x>>) = {x}
  BY <1>2 DEF ToSet
<1>4. ToSet(<<x>> \o t) = ToSet(<<x>>) \cup ToSet(t)
  BY ZenonT(60), <1>1, ToSetConcat
<1> QED BY <1>1, <1>3, <1>4

\* What a pass loads.
LEMMA Lists ==
  /\ Apply \in Seq(Resources) /\ Apply \o Policies \in Seq(Resources)
  /\ "deployment" \in ToSet(Apply) /\ ToSet(Apply) \subseteq Resources
  /\ ToSet(Policies) \subseteq Resources /\ ToSet(Apply \o Policies) = Resources
  /\ ToSet(Apply) \cap ToSet(Policies) = {}
<1>1. ASSUME NEW S \in SUBSET Resources, NEW s \in Seq(S) PROVE s \in Seq(Resources)
  BY SMTT(20)
<1>2. "deployment" \in Resources
  <2>1. Apply[1] = "deployment" /\ 1 \in DOMAIN Apply
    BY SMTT(20), ResourcesAssumption DEF Apply
  <2> QED BY <2>1 DEF Resources, ToSet
<1>3. ToSet(Apply) = {"deployment"} \cup ToSet(Manifests)
  <2>1. /\ "deployment" \in {"deployment"} \cup ToSet(Manifests)
        /\ Manifests \in Seq({"deployment"} \cup ToSet(Manifests))
    BY SMTT(20), ResourcesAssumption
  <2> QED BY ZenonT(60), <2>1, FirstAndRest DEF Apply
<1>4. ToSet(Apply) \subseteq Resources /\ ToSet(Policies) \subseteq Resources
  BY DEF Resources
<1>5. Manifests \in Seq(Resources) /\ Policies \in Seq(Resources)
  BY <1>1, <1>3, <1>4, ResourcesAssumption
<1>6. Apply \in Seq(Resources)
  BY <1>2, <1>5, FirstAndRest DEF Apply
<1>7. Apply \o Policies \in Seq(Resources)
  BY SMTT(20), <1>5, <1>6
<1>8. ToSet(Apply \o Policies) = Resources
  BY SMTT(20), <1>5, <1>6, ToSetConcat DEF Resources
<1> QED BY <1>3, <1>4, <1>6, <1>7, <1>8, ResourcesAssumption
-----------------------------------------------------------------------------
(* Type correctness.                                                        *)
LEMMA Finite ==
  ASSUME NEW S, S \subseteq Resources PROVE IsFiniteSet(S) /\ Cardinality(S) \in Nat
<1>1. ASSUME NEW s \in Seq(Resources), ToSet(s) = Resources PROVE IsFiniteSet(Resources)
  BY SMTT(20), <1>1 DEF IsFiniteSet, ToSet
<1>2. IsFiniteSet(Resources)
  BY <1>1, Lists
<1> QED BY <1>2, FS_Subset, FS_CardinalityType

LEMMA Numbers ==
  /\ \A n \in 0 .. MaxFails : n < MaxFails => n + 1 \in 0 .. MaxFails
  /\ \A n \in 0 .. MaxEdits : n < MaxEdits => n + 1 \in 0 .. MaxEdits
  /\ \A n \in 1 .. 1 + MaxUpgrades : n \in 0 .. 1 + MaxUpgrades
  /\ \A n \in 1 .. 1 + MaxUpgrades : n <= MaxUpgrades => n + 1 \in 1 .. 1 + MaxUpgrades
  /\ 1 \in 1 .. 1 + MaxUpgrades /\ 0 \in 0 .. 1 + MaxUpgrades
  /\ 0 \in 0 .. MaxEdits /\ 0 \in 0 .. MaxFails
  /\ 0 \in Nat /\ \A n \in Nat : n > 0 => n - 1 \in Nat
BY SMTT(20), ResourcesAssumption

LEMMA ResetTypes ==
  ASSUME Types, Reset, UNCHANGED <<running, errChan>> \/ (running' = {} /\ errChan' = {})
  PROVE  PassTypes'
BY ToSetEmpty, Numbers DEF PassTypes, Types, Reset

LEMMA InitTypes ==
  ASSUME Init PROVE Types
<1>1. ClusterTypes
  BY Numbers DEF ClusterTypes, Init, NoConditions
<1>2. LoopTypes
  BY Numbers DEF LoopTypes, Init
<1>3. PassTypes
  BY ToSetEmpty, Numbers DEF PassTypes, Init
<1> QED BY <1>1, <1>2, <1>3 DEF Types

LEMMA HandleErrorStateTypes ==
  ASSUME Types, HandleErrorState PROVE Types'
<1>1. ClusterTypes'
  BY DEF ClusterTypes, Types, HandleErrorState, Own
<1>2. LoopTypes'
  BY DEF LoopTypes, Types, HandleErrorState, Own, Watched
<1>3. PassTypes'
  BY DEF PassTypes, Types, HandleErrorState, worker, waiters
<1> QED BY <1>1, <1>2, <1>3 DEF Types

LEMMA DeleteOutdatedResourcesTypes ==
  ASSUME Types, DeleteOutdatedResources PROVE Types'
<1>1. ClusterTypes'
  BY DEF ClusterTypes, Types, DeleteOutdatedResources, Own, Fail, ReturnError, Reset
<1>2. LoopTypes'
  BY Numbers DEF LoopTypes, Types, DeleteOutdatedResources, Own, Fail, ReturnError, Goto
<1>3. PassTypes'
  <2>1. CASE Reset /\ UNCHANGED <<running, errChan>>
    BY <2>1, ResetTypes
  <2>2. CASE UNCHANGED <<todo, applying, waiters>> /\ mine' = cannotation
    BY <2>2 DEF PassTypes, LoopTypes, Types, waiters
  <2> QED BY <2>1, <2>2 DEF DeleteOutdatedResources, Fail, ReturnError
<1> QED BY <1>1, <1>2, <1>3 DEF Types

LEMMA AddOrCleanupPoliciesTypes ==
  ASSUME Types, AddOrCleanupPolicies PROVE Types'
<1>1. ClusterTypes'
  BY SMTT(20), Numbers
  DEF ClusterTypes, Types, AddOrCleanupPolicies, CleanupNetworkPolicies, CleanupPartly, Own
<1>2. pend' \subseteq Watched
  BY DEF LoopTypes, Types, AddOrCleanupPolicies, CleanupNetworkPolicies, CleanupPartly,
      ClusterTypes, Watched
<1>3. LoopTypes'
  BY <1>2, Numbers
  DEF LoopTypes, Types, AddOrCleanupPolicies, CleanupPartly, Own, Goto, ReturnError
<1>4. PassTypes'
  <2>1. CASE Reset /\ UNCHANGED <<running, errChan>>
    BY <2>1, ResetTypes
  <2>2. CASE /\ UNCHANGED <<mine, waiters>>
             /\ \/ todo' = Apply /\ applying' = ToSet(Apply)
                \/ todo' = Apply \o Policies /\ applying' = Resources
    BY <2>2, Lists DEF PassTypes, Types, waiters
  <2> QED BY <2>1, <2>2 DEF AddOrCleanupPolicies, CleanupPartly, LoadNetworkPolicies, ReturnError
<1> QED BY <1>1, <1>3, <1>4 DEF Types

LEMMA DeleteOldWebhookNetworkPolicyTypes ==
  ASSUME Types, DeleteOldWebhookNetworkPolicy PROVE Types'
<1>1. ClusterTypes'
  BY DEF ClusterTypes, Types, DeleteOldWebhookNetworkPolicy, Own, Fail, ReturnError
<1>2. LoopTypes'
  BY Numbers DEF LoopTypes, Types, DeleteOldWebhookNetworkPolicy, Own, Fail, ReturnError, Goto
<1>3. PassTypes'
  BY ResetTypes
  DEF PassTypes, Types, DeleteOldWebhookNetworkPolicy, Fail, ReturnError, worker, waiters
<1> QED BY <1>1, <1>2, <1>3 DEF Types

LEMMA ApplyOrUpdateResourcesTypes ==
  ASSUME Types, ApplyOrUpdateResources PROVE Types'
<1>1. ClusterTypes'
  BY HeadAndTail, Numbers
  DEF ClusterTypes, Types, ApplyOrUpdateResources, LoopTypes, PassTypes, applyOrUpdateResource,
      AddLabels, Own, Fail
<1>2. pend' \subseteq Watched
  BY DEF Types, LoopTypes, ApplyOrUpdateResources, applyOrUpdateResource, Fail, Watched
<1>3. LoopTypes'
  BY <1>2, Numbers DEF Types, LoopTypes, ApplyOrUpdateResources, Goto, Own, Fail, ReturnError
<1>4. PassTypes'
  <2>1. \/ /\ todo # <<>> /\ todo' = Tail(todo)
           /\ UNCHANGED <<mine, applying, running, errChan, left, firstErr>>
        \/ Reset /\ UNCHANGED <<running, errChan>>
        \/ /\ running' = applying /\ errChan' = {} /\ left' = Cardinality(applying)
           /\ UNCHANGED <<mine, todo, applying, firstErr>>
    BY DEF ApplyOrUpdateResources, StartWaiting, Fail, ReturnError, waiters
  <2>2. todo # <<>> => Tail(todo) \in Seq(Resources) /\ ToSet(Tail(todo)) \subseteq ToSet(todo)
    BY HeadAndTail DEF Types, PassTypes
  <2>3. Cardinality(applying) \in Nat
    BY Finite DEF Types, PassTypes
  <2> QED BY <2>1, <2>2, <2>3, ResetTypes DEF PassTypes, Types
<1> QED BY <1>1, <1>3, <1>4 DEF Types

LEMMA WaitForResourcesReadinessTypes ==
  ASSUME Types, WaitForResourcesReadiness PROVE Types'
<1>1. ClusterTypes'
  BY DEF ClusterTypes, Types, WaitForResourcesReadiness, Own
<1>2. LoopTypes'
  BY DEF LoopTypes, Types, WaitForResourcesReadiness, Own, ReturnReady, ReturnError, Watched
<1>3. PassTypes'
  BY ResetTypes, Numbers
  DEF PassTypes, Types, WaitForResourcesReadiness, ReturnReady, ReturnError
<1> QED BY <1>1, <1>2, <1>3 DEF Types

LEMMA waitForResourceTypes ==
  ASSUME Types, NEW r \in Resources, waitForResource(r) PROVE Types'
<1>1. ClusterTypes'
  BY DEF ClusterTypes, Types, waitForResource, cluster
<1>2. LoopTypes'
  BY Numbers DEF LoopTypes, Types, waitForResource, cluster
<1>3. PassTypes'
  BY SMTT(20) DEF PassTypes, Types, waitForResource, cluster
<1> QED BY <1>1, <1>2, <1>3 DEF Types

LEMMA RolloutTypes ==
  ASSUME Types, Rollout \/ RolloutFails PROVE Types'
<1>1. ClusterTypes'
  BY SMTT(20), Lists DEF ClusterTypes, Types, Rollout, RolloutFails, SetConditions, Manager
<1>2. LoopTypes'
  BY Numbers DEF LoopTypes, Types, Rollout, RolloutFails, SetConditions, Manager, Watched
<1>3. PassTypes'
  BY DEF PassTypes, Types, Rollout, RolloutFails, SetConditions, Manager, worker, waiters
<1> QED BY <1>1, <1>2, <1>3 DEF Types

LEMMA UserTypes ==
  ASSUME Types,
         \/ \E r \in Resources : UserDeletes(r)
         \/ \E p \in ToSet(Policies) : UserUnlabels(p)
         \/ \E a \in {"true", "none"} : UserAnnotates(a)
  PROVE  Types'
<1>1. ClusterTypes'
  BY SMTT(20), Numbers
  DEF ClusterTypes, Types, UserDeletes, UserUnlabels, UserAnnotates, Edit, Manager, NoConditions
<1>2. LoopTypes'
  BY Numbers DEF LoopTypes, Types, UserDeletes, UserUnlabels, UserAnnotates, Edit, Manager, Watched
<1>3. PassTypes'
  BY DEF PassTypes, Types, UserDeletes, UserUnlabels, UserAnnotates, Edit, Manager, worker, waiters
<1> QED BY <1>1, <1>2, <1>3 DEF Types

LEMMA DeliverTypes ==
  ASSUME Types, NEW o \in Watched, Deliver(o) PROVE Types'
<1>1. ClusterTypes'
  BY DEF ClusterTypes, Types, Deliver, cluster, worker, waiters
<1>2. LoopTypes'
  BY DEF LoopTypes, Types, Deliver, cluster, worker, ClusterTypes
<1>3. PassTypes'
  BY DEF PassTypes, Types, Deliver, cluster, worker, waiters
<1> QED BY <1>1, <1>2, <1>3 DEF Types

LEMMA OtherTypes ==
  ASSUME Types, Timer \/ Upgrade \/ UNCHANGED vars PROVE Types'
<1>1. ClusterTypes'
  BY DEF ClusterTypes, Types, Timer, Upgrade, vars, cluster, worker, waiters
<1>2. LoopTypes'
  BY Numbers DEF LoopTypes, Types, Timer, Upgrade, vars, cluster, worker, ClusterTypes
<1>3. PassTypes'
  BY ResetTypes DEF PassTypes, Types, Timer, Upgrade, vars, worker, waiters
<1> QED BY <1>1, <1>2, <1>3 DEF Types

LEMMA NextTypes == Types /\ [Next]_vars => Types'
BY HandleErrorStateTypes, DeleteOutdatedResourcesTypes, AddOrCleanupPoliciesTypes,
   DeleteOldWebhookNetworkPolicyTypes,
   ApplyOrUpdateResourcesTypes, WaitForResourcesReadinessTypes, waitForResourceTypes, RolloutTypes,
   UserTypes, DeliverTypes, OtherTypes
DEF Next, Worker
-----------------------------------------------------------------------------
(* The results of the goroutines.                                           *)
LEMMA Sums ==
  \A l, m, n \in Nat :
    /\ l = m + n /\ m # 0 => l = (m - 1) + (n + 1)
    /\ l = m + n /\ n # 0 => l - 1 = m + (n - 1)
    /\ 0 = m + n => m = 0 /\ n = 0
    /\ m = m + 0
BY SMTT(20)

\* When all results are received, every goroutine has ended.
LEMMA AllReceived ==
  ASSUME Types, Counted, pc = "wait", left = 0 PROVE running = {} /\ errChan = {}
<1>1. Cardinality(running) \in Nat /\ Cardinality(errChan) \in Nat
  BY FS_CardinalityType DEF Counted
<1>2. Cardinality(running) = 0 /\ Cardinality(errChan) = 0
  BY <1>1, Sums DEF Counted
<1> QED BY <1>2, FS_EmptySet DEF Counted

LEMMA waitForResourceCounted ==
  ASSUME Types, Counted, NEW r \in Resources, waitForResource(r) PROVE Counted'
<1>1. /\ r \in running /\ running' = running \ {r} /\ pc' = pc /\ left' = left
      /\ \E v \in {"nil", "error"} : errChan' = errChan \cup {<<r, v>>}
  BY DEF waitForResource
<1>2. PICK v \in {"nil", "error"} : errChan' = errChan \cup {<<r, v>>}
  BY <1>1
<1>3. pc = "wait"
  BY <1>1 DEF Counted
<1>4. IsFiniteSet(running') /\ Cardinality(running') = Cardinality(running) - 1
  BY <1>1, FS_RemoveElement DEF Counted
<1>5. IsFiniteSet(errChan') /\ Cardinality(errChan') = Cardinality(errChan) + 1
  BY <1>1, <1>2, FS_AddElement DEF Counted, Disjoint
<1>6. Cardinality(running) \in Nat /\ Cardinality(errChan) \in Nat /\ Cardinality(running) # 0
  BY <1>1, FS_CardinalityType, FS_EmptySet DEF Counted
<1>7. left' = Cardinality(running') + Cardinality(errChan')
  BY <1>1, <1>3, <1>4, <1>5, <1>6, Sums DEF Counted, Types, PassTypes
<1>8. Disjoint'
  <2> SUFFICES ASSUME NEW q \in running', NEW w \in {"nil", "error"} PROVE <<q, w>> \notin errChan'
    BY DEF Disjoint
  <2>1. q \in running /\ q # r
    BY <1>1
  <2>2. <<q, w>> # <<r, v>>
    BY SMTT(20), <2>1
  <2> QED BY <1>2, <2>1, <2>2 DEF Counted, Disjoint
<1> QED BY <1>1, <1>3, <1>4, <1>5, <1>7, <1>8 DEF Counted

\* A result is received, or the wait is over.
LEMMA WaitForResourcesReadinessCounted ==
  ASSUME Types, Counted, WaitForResourcesReadiness PROVE Counted'
<1>1. pc = "wait"
  BY DEF WaitForResourcesReadiness
<1>2. CASE left = 0 /\ pc' = "idle" /\ UNCHANGED <<running, errChan>>
  BY <1>1, <1>2, AllReceived, FS_EmptySet DEF Counted, Disjoint
<1>3. ASSUME NEW e \in errChan, errChan' = errChan \ {e}, left' = left - 1,
             UNCHANGED <<pc, running>>
      PROVE  Counted'
  <2>1. IsFiniteSet(errChan') /\ Cardinality(errChan') = Cardinality(errChan) - 1
    BY <1>3, FS_RemoveElement DEF Counted
  <2>2. Cardinality(running) \in Nat /\ Cardinality(errChan) \in Nat /\ Cardinality(errChan) # 0
    BY <1>3, FS_CardinalityType, FS_EmptySet DEF Counted
  <2>3. left' = Cardinality(running') + Cardinality(errChan')
    BY <1>1, <1>3, <2>1, <2>2, Sums DEF Counted, Types, PassTypes
  <2> QED BY <1>1, <1>3, <2>1, <2>3 DEF Counted, Disjoint
<1> QED BY <1>2, <1>3 DEF WaitForResourcesReadiness, ReturnReady, ReturnError

\* The wait begins with a goroutine for each resource.
LEMMA ApplyOrUpdateResourcesCounted ==
  ASSUME Types, Counted, ApplyOrUpdateResources PROVE Counted'
<1>1. pc = "apply"
  BY DEF ApplyOrUpdateResources
<1>2. CASE pc' # "wait" /\ UNCHANGED <<running, errChan>>
  BY <1>1, <1>2 DEF Counted, Disjoint
<1>3. CASE pc' = "wait" /\ StartWaiting
  <2>1. IsFiniteSet(applying) /\ Cardinality(applying) \in Nat
    BY Finite DEF Types, PassTypes
  <2>2. left' = Cardinality(running') + Cardinality(errChan')
    BY <1>3, <2>1, FS_EmptySet, Sums DEF StartWaiting
  <2> QED BY <1>3, <2>1, <2>2, FS_EmptySet DEF StartWaiting, Counted, Disjoint
<1> QED BY <1>2, <1>3 DEF ApplyOrUpdateResources, Fail, ReturnError, Goto, waiters

LEMMA CountedNext == Types /\ Counted /\ [Next]_vars => Counted'
<1> SUFFICES ASSUME Types, Counted, [Next]_vars PROVE Counted'
  OBVIOUS
<1>1. CASE pc # "wait" /\ pc' # "wait" /\ UNCHANGED <<running, errChan>>
  BY <1>1 DEF Counted, Disjoint
<1>2. CASE UNCHANGED <<pc, running, errChan, left>>
  BY <1>2 DEF Counted, Disjoint
<1>3. CASE HandleErrorState \/ DeleteOutdatedResources
  BY <1>1, <1>3
  DEF HandleErrorState, DeleteOutdatedResources, Fail, ReturnError, Goto, worker, waiters
<1>4. CASE AddOrCleanupPolicies \/ DeleteOldWebhookNetworkPolicy
  BY <1>1, <1>4
  DEF AddOrCleanupPolicies, CleanupPartly, DeleteOldWebhookNetworkPolicy, Fail, ReturnError, Goto,
      worker, waiters
<1>5. CASE \/ \E r \in Resources : UserDeletes(r)
           \/ \E p \in ToSet(Policies) : UserUnlabels(p)
           \/ \E a \in {"true", "none"} : UserAnnotates(a)
  BY <1>2, <1>5 DEF UserDeletes, UserUnlabels, UserAnnotates, Edit, Manager, worker, waiters
<1>6. CASE Rollout \/ RolloutFails \/ Timer \/ (\E o \in Watched : Deliver(o)) \/ UNCHANGED vars
  BY <1>2, <1>6 DEF Rollout, RolloutFails, Timer, Deliver, Manager, vars, worker, waiters
<1>7. CASE Upgrade
  BY <1>7, FS_EmptySet DEF Upgrade, Counted, Disjoint
<1> QED BY <1>3, <1>4, <1>5, <1>6, <1>7, waitForResourceCounted, WaitForResourcesReadinessCounted,
           ApplyOrUpdateResourcesCounted DEF Next, Worker
-----------------------------------------------------------------------------
(* What a pass has loaded, and what the cache knows.                        *)
Kept == CacheFresh /\ Loading /\ Sound

\* When the CR is woken or not Ready, nothing is claimed of the cluster.
LEMMA Disturbed ==
  ASSUME state' # "Ready" \/ queue' # {} \/ "cr" \in pend'
  PROVE  Sound'
BY DEF Sound, PassFresh, ReadyAndIdle, ReadyInPass, DeploymentAwaited, Undisturbed

\* A pass that ends with an error.
LEMMA ErrorKept ==
  ASSUME CacheFresh, ReturnError, pend \subseteq pend', UNCHANGED <<annotation, cannotation>>
  PROVE  Kept'
<1>1. pc' = "idle" /\ state' = "Error"
  BY DEF ReturnError, Reset
<1>2. Sound'
  BY <1>1, Disturbed
<1> QED BY <1>1, <1>2 DEF Kept, CacheFresh, Loading

LEMMA HandleErrorStateKept == ASSUME Kept, HandleErrorState PROVE Kept'
<1>1. /\ UNCHANGED <<annotation, cannotation, pc, todo, applying>>
      /\ pend' = pend \cup {"cr"} /\ state' # "Ready"
  BY DEF HandleErrorState, Own, worker
<1>2. Sound'
  BY <1>1, Disturbed
<1> QED BY <1>1, <1>2 DEF Kept, CacheFresh, Loading

LEMMA DeleteOutdatedResourcesKept == ASSUME Kept, DeleteOutdatedResources PROVE Kept'
<1>1. UNCHANGED <<annotation, cannotation, pend>> /\ pc = "idle"
  BY DEF DeleteOutdatedResources, Own, Fail
<1>2. CASE ReturnError
  BY <1>1, <1>2, ErrorKept DEF Kept
<1>3. CASE pc' = "policies" /\ mine' = cannotation
  <2>1. Sound'
    BY <1>1, <1>3
    DEF Kept, CacheFresh, Sound, PassFresh, ReadyAndIdle, ReadyInPass, DeploymentAwaited,
        Undisturbed
  <2> QED BY <1>1, <1>3, <2>1 DEF Kept, CacheFresh, Loading
<1> QED BY <1>2, <1>3 DEF DeleteOutdatedResources, Fail, Goto

\* The annotation the pass began with is the one of the CR, unless the CR's
\* event is pending or has queued another pass.
LEMMA AddOrCleanupPoliciesKept == ASSUME Kept, AddOrCleanupPolicies PROVE Kept'
<1>1. UNCHANGED <<annotation, cannotation>> /\ pend \subseteq pend' /\ pc = "policies"
  BY DEF AddOrCleanupPolicies, CleanupNetworkPolicies, CleanupPartly, Own
<1>2. \/ ReturnError
      \/ /\ pc' = "oldPolicy" /\ UNCHANGED <<state, queue>>
         /\ \/ mine = "true" /\ applying' = ToSet(Apply) /\ labelled' = {}
            \/ mine = "none" /\ applying' = Resources /\ todo' = Apply \o Policies
  BY DEF AddOrCleanupPolicies, CleanupNetworkPolicies, CleanupPartly, LoadNetworkPolicies, Goto
<1>3. CASE ReturnError
  BY <1>1, <1>3, ErrorKept DEF Kept
<1>4. CASE pc' = "oldPolicy" /\ ~ReturnError
  <2>1. CacheFresh'
    BY <1>1 DEF Kept, CacheFresh
  <2>2. Loading'
    BY <1>1, <1>2, <1>4, Lists DEF Loading
  <2>3. Undisturbed' => mine = annotation
    BY <1>1, <1>2, <1>4 DEF Kept, Sound, PassFresh, Undisturbed
  <2>4. ReadyInPass'
    BY <1>1, <1>2, <1>4, <2>3, Lists DEF ReadyInPass
  <2>5. Sound'
    BY <1>4, <2>4 DEF Sound, PassFresh, ReadyAndIdle, DeploymentAwaited
  <2> QED BY <2>1, <2>2, <2>5 DEF Kept
<1> QED BY <1>2, <1>3, <1>4

LEMMA DeleteOldWebhookNetworkPolicyKept ==
  ASSUME Kept, DeleteOldWebhookNetworkPolicy PROVE Kept'
<1>1. UNCHANGED <<annotation, cannotation, pend>> /\ pc = "oldPolicy"
  BY DEF DeleteOldWebhookNetworkPolicy, Own, Fail
<1>2. CASE ReturnError
  BY <1>1, <1>2, ErrorKept DEF Kept
<1>3. CASE /\ pc' = "apply"
           /\ UNCHANGED <<state, queue, obj, labelled, todo, applying, running, errChan>>
  <2>1. Sound'
    BY <1>1, <1>3
    DEF Kept, Sound, PassFresh, ReadyAndIdle, ReadyInPass, DeploymentAwaited, Undisturbed,
        PolicyFine
  <2> QED BY <1>1, <1>3, <2>1 DEF Kept, CacheFresh, Loading
<1> QED BY <1>2, <1>3 DEF DeleteOldWebhookNetworkPolicy, Fail, Goto, worker, waiters

\* A policy that is applied exists and is labelled; the others stay as they are.
LEMMA ApplyOrUpdateResourcesKept == ASSUME Types, Kept, ApplyOrUpdateResources PROVE Kept'
<1>1. UNCHANGED <<annotation, cannotation>> /\ pend \subseteq pend' /\ pc = "apply"
  BY DEF ApplyOrUpdateResources, applyOrUpdateResource, Own, Fail
<1>2. CASE ReturnError
  BY <1>1, <1>2, ErrorKept DEF Kept
<1>3. CASE /\ todo # <<>> /\ applyOrUpdateResource(Head(todo)) /\ todo' = Tail(todo)
           /\ pc' = "apply" /\ UNCHANGED <<state, queue, applying, running, errChan>>
  <2>1. /\ Head(todo) \in ToSet(todo) /\ ToSet(todo') \subseteq ToSet(todo)
        /\ ToSet(todo) \subseteq {Head(todo)} \cup ToSet(todo')
    BY <1>3, HeadAndTail DEF Types, PassTypes
  <2>2. /\ obj' = [obj EXCEPT ![Head(todo)] = want]
        /\ labelled' = labelled \cup ({Head(todo)} \cap ToSet(Policies))
    BY <1>3 DEF applyOrUpdateResource, AddLabels
  <2>3. want # 0
    BY SMTT(20), ResourcesAssumption DEF Types, LoopTypes
  <2>4. ASSUME NEW p \in ToSet(Policies), p \in ToSet(todo) \/ PolicyFine(p)
        PROVE  p \in ToSet(todo') \/ PolicyFine(p)'
    BY <1>1, <2>1, <2>2, <2>3, <2>4, Lists DEF Types, ClusterTypes, PolicyFine
  <2>5. ASSUME applying = ToSet(Apply), labelled = {} PROVE labelled' = {}
    BY <2>1, <2>2, <2>5, Lists DEF Types, PassTypes
  <2>6. Undisturbed' => Undisturbed
    BY <1>1, <1>3 DEF Undisturbed
  <2>7. ReadyInPass'
    BY <1>1, <1>3, <2>4, <2>5, <2>6 DEF Kept, Sound, ReadyInPass
  <2>8. Sound'
    BY <1>3, <2>7 DEF Sound, PassFresh, ReadyAndIdle, DeploymentAwaited
  <2> QED BY <1>1, <1>3, <2>8 DEF Kept, CacheFresh, Loading
<1>4. CASE /\ todo = <<>> /\ pc' = "wait" /\ running' = applying
           /\ UNCHANGED <<state, queue, obj, labelled, pend, todo, applying>>
  <2>1. "deployment" \in running'
    BY <1>1, <1>4, Lists DEF Kept, Loading
  <2>2. Sound'
    BY <1>1, <1>4, <2>1
    DEF Kept, Sound, PassFresh, ReadyAndIdle, ReadyInPass, DeploymentAwaited, Undisturbed,
        PolicyFine
  <2> QED BY <1>1, <1>4, <2>2 DEF Kept, CacheFresh, Loading
<1> QED BY <1>2, <1>3, <1>4 DEF ApplyOrUpdateResources, StartWaiting, Fail, Goto, waiters

\* The end of a pass. A CR that becomes Ready wakes the reconciler; one that
\* was Ready has what its last pass saw and applied.
LEMMA WaitForResourcesReadinessKept ==
  ASSUME Types, Counted, Kept, WaitForResourcesReadiness PROVE Kept'
<1>1. /\ UNCHANGED <<annotation, cannotation, obj, labelled, conditions>>
      /\ pend \subseteq pend' /\ pc = "wait" /\ todo = <<>>
  BY DEF Kept, Loading, WaitForResourcesReadiness, ReturnReady, Own
<1>2. CASE ReturnError
  BY <1>1, <1>2, ErrorKept DEF Kept
<1>3. ASSUME NEW e \in errChan,
             errChan' = errChan \ {e} /\ firstErr' = (firstErr \/ e[2] = "error"),
             UNCHANGED <<state, pend, queue, pc, todo, applying, running>>
      PROVE  Kept'
  <2>1. ~firstErr' => ~firstErr /\ e # <<"deployment", "error">>
    <3>1. <<"deployment", "error">>[2] = "error"
      BY SMTT(20)
    <3>2. e[2] = "error" => firstErr'
      BY <1>3
    <3> QED BY <1>3, <3>1, <3>2
  <2>2. DeploymentAwaited'
    BY <1>1, <1>3, <2>1
    DEF Kept, Sound, DeploymentAwaited, Undisturbed, DeploymentFine, isDeploymentReady
  <2>3. PassFresh' /\ ReadyAndIdle' /\ ReadyInPass'
    BY <1>1, <1>3 DEF Kept, Sound, PassFresh, ReadyAndIdle, ReadyInPass, Undisturbed, PolicyFine
  <2> QED BY <1>1, <1>3, <2>2, <2>3 DEF Kept, CacheFresh, Loading, Sound
<1>4. CASE left = 0 /\ ~firstErr /\ ReturnReady
  <2>0. running = {} /\ errChan = {}
    BY <1>1, <1>4, AllReceived
  <2>1. /\ pc' = "idle" /\ UNCHANGED queue
        /\ pend' = IF state = "Ready" THEN pend ELSE pend \cup {"cr"}
    BY <1>4 DEF ReturnReady, WaitForResourcesReadiness
  <2>2. CASE state # "Ready"
    <3>1. Sound'
      BY <2>1, <2>2, Disturbed
    <3> QED BY <1>1, <2>1, <3>1 DEF Kept, CacheFresh, Loading
  <2>3. CASE state = "Ready"
    <3>1. Undisturbed' => Undisturbed
      BY <2>1, <2>3 DEF Undisturbed
    <3>2. Undisturbed => DeploymentFine
      BY <1>1, <1>4, <2>0 DEF Kept, Sound, DeploymentAwaited
    <3>3. ReadyAndIdle'
      BY <1>1, <2>1, <2>3, <3>1, <3>2, ToSetEmpty
      DEF Kept, Sound, PassFresh, ReadyAndIdle, ReadyInPass, DeploymentFine, isDeploymentReady,
          PolicyFine
    <3>4. Sound'
      BY <2>1, <3>3 DEF Sound, PassFresh, ReadyInPass, DeploymentAwaited
    <3> QED BY <1>1, <2>1, <3>4 DEF Kept, CacheFresh, Loading
  <2> QED BY <2>2, <2>3
<1> QED BY <1>2, <1>3, <1>4 DEF WaitForResourcesReadiness

\* The goroutine of a resource ends without an error only if it is ready.
LEMMA waitForResourceKept ==
  ASSUME Counted, Kept, NEW r \in Resources, waitForResource(r) PROVE Kept'
<1>1. /\ UNCHANGED <<cluster, want, cannotation, pend, queue, pc, todo, applying, firstErr>>
      /\ r \in running /\ running' = running \ {r} /\ errChan \subseteq errChan'
      /\ <<r, "error">> \in errChan' \/ isResourceReady(r)
  BY DEF waitForResource
<1>2. pc = "wait"
  BY <1>1 DEF Counted
<1>3. DeploymentAwaited'
  BY <1>1, <1>2
  DEF Kept, Sound, DeploymentAwaited, Undisturbed, DeploymentFine, isResourceReady,
      isDeploymentReady, cluster
<1>4. PassFresh' /\ ReadyAndIdle' /\ ReadyInPass'
  BY <1>1, <1>2
     DEF Kept, Sound, PassFresh, ReadyAndIdle, ReadyInPass, Undisturbed, PolicyFine, cluster
<1> QED BY <1>1, <1>2, <1>3, <1>4 DEF Kept, CacheFresh, Loading, Sound, cluster

\* Steps outside the manager: whatever they change of the Deployment's
\* conditions, of a policy or of the annotation has an event pending.
Outside ==
  /\ UNCHANGED <<state, cannotation, queue, pc, worker>> /\ pend \subseteq pend'
  /\ labelled' \subseteq labelled
  /\ conditions' = conditions \/ "deployment" \in pend'
  /\ annotation' = annotation \/ "cr" \in pend'
  /\ \A p \in ToSet(Policies) :
       p \in pend' \/ (obj'[p] = obj[p] /\ (p \in labelled => p \in labelled'))

LEMMA OutsideSteps ==
  ASSUME Types,
         \/ Rollout \/ RolloutFails \/ (\E r \in Resources : UserDeletes(r))
         \/ \E p \in ToSet(Policies) : UserUnlabels(p)
         \/ \E a \in {"true", "none"} : UserAnnotates(a)
  PROVE  Outside
<1>1. CASE Rollout \/ RolloutFails
  BY SMTT(20), <1>1 DEF Outside, Rollout, RolloutFails, SetConditions, Manager
<1>2. ASSUME NEW r \in Resources, UserDeletes(r) PROVE Outside
  BY <1>2, Lists DEF Outside, UserDeletes, Edit, Manager, Watched, Types, ClusterTypes
<1>3. ASSUME NEW p \in ToSet(Policies), UserUnlabels(p) PROVE Outside
  BY <1>3 DEF Outside, UserUnlabels, Edit, Manager
<1>4. ASSUME NEW a \in {"true", "none"}, UserAnnotates(a) PROVE Outside
  BY <1>4 DEF Outside, UserAnnotates, Edit, Manager
<1> QED BY <1>1, <1>2, <1>3, <1>4

LEMMA OutsideKept == ASSUME Kept, Outside PROVE Kept'
<1>1. Undisturbed' => Undisturbed /\ annotation' = annotation
  BY DEF Outside, Undisturbed
<1>2. ASSUME NEW p \in ToSet(Policies), PolicyFine(p) PROVE PolicyFine(p)'
  BY <1>2 DEF Outside, PolicyFine
<1>3. DeploymentFine => DeploymentFine'
  BY DEF Outside, DeploymentFine, isDeploymentReady
<1>4. labelled = {} => labelled' = {}
  BY DEF Outside
<1>5. UNCHANGED <<cannotation, pc, mine, todo, applying, running, errChan, firstErr>>
  BY DEF Outside, worker, waiters
<1>6. Sound'
  BY <1>1, <1>2, <1>3, <1>4, <1>5
  DEF Kept, Sound, PassFresh, ReadyAndIdle, ReadyInPass, DeploymentAwaited
<1>7. CacheFresh'
  BY <1>5 DEF Kept, CacheFresh, Outside
<1> QED BY <1>5, <1>6, <1>7 DEF Kept, Loading

\* An event wakes the reconciler, save those of the CR in state Error.
LEMMA DeliverKept == ASSUME Kept, NEW o \in Watched, Deliver(o) PROVE Kept'
<1>1. /\ UNCHANGED <<annotation, state, pc, todo, applying, running, errChan>>
      /\ pend' = pend \ {o} /\ (queue' # {} \/ state = "Error")
      /\ cannotation' = IF o = "cr" THEN annotation ELSE cannotation
  BY DEF Deliver, cluster, worker, waiters
<1>2. Sound'
  BY <1>1, Disturbed
<1> QED BY <1>1, <1>2 DEF Kept, CacheFresh, Loading

LEMMA OtherKept == ASSUME Kept, Timer \/ Upgrade \/ UNCHANGED vars PROVE Kept'
<1>1. CASE Timer
  <2>1. Sound'
    BY <1>1, Disturbed DEF Timer
  <2> QED BY <1>1, <2>1 DEF Timer, Kept, CacheFresh, Loading, cluster, worker, waiters
<1>2. CASE Upgrade
  <2>1. Sound'
    BY <1>2, Disturbed DEF Upgrade
  <2> QED BY <1>2, <2>1 DEF Upgrade, Reset, Kept, CacheFresh, Loading, cluster
<1>3. CASE UNCHANGED vars
  BY <1>3
  DEF vars, cluster, worker, waiters, Kept, CacheFresh, Loading, Sound, PassFresh, ReadyAndIdle,
      ReadyInPass, DeploymentAwaited, Undisturbed, DeploymentFine, isDeploymentReady, PolicyFine
<1> QED BY <1>1, <1>2, <1>3
-----------------------------------------------------------------------------
(* The theorems.                                                            *)
LEMMA InitInv == Init => IInv
<1> SUFFICES ASSUME Init PROVE IInv
  OBVIOUS
<1>1. Counted /\ CacheFresh /\ Loading
  BY FS_EmptySet DEF Init, Counted, Disjoint, CacheFresh, Loading
<1>2. Sound
  BY DEF Init, Sound, PassFresh, ReadyAndIdle, ReadyInPass, DeploymentAwaited, Undisturbed
<1> QED BY <1>1, <1>2, InitTypes DEF IInv

LEMMA NextInv == IInv /\ [Next]_vars => IInv'
<1> SUFFICES ASSUME Types, Counted, Kept, [Next]_vars PROVE Types' /\ Kept'
  BY CountedNext DEF IInv, Kept
<1>1. CASE Worker
  BY <1>1, HandleErrorStateKept, DeleteOutdatedResourcesKept, AddOrCleanupPoliciesKept,
     DeleteOldWebhookNetworkPolicyKept,
     ApplyOrUpdateResourcesKept, WaitForResourcesReadinessKept, NextTypes
  DEF Worker
<1>2. CASE ~Worker
  BY <1>2, waitForResourceKept, OutsideSteps, OutsideKept, DeliverKept, OtherKept, NextTypes
     DEF Next
<1> QED BY <1>1, <1>2

LEMMA Inductive == Spec => []IInv
BY InitInv, NextInv, PTL DEF Spec

\* Every variable keeps its type: versions stay within those released, and
\* a pass only applies and only waits for resources it loaded.
THEOREM TypeCorrect == Spec => []TypeOK
<1>1. IInv => TypeOK
  BY DEF IInv, Types, ClusterTypes, LoopTypes, PassTypes, TypeOK
<1> QED BY <1>1, Inductive, PTL

\* WaitForResourcesReadiness returns only when all its goroutines have ended
\* and all results are received, after errors too.
THEOREM AllWaitersEnd == Spec => []NoWaiterLeft
<1>1. IInv => NoWaiterLeft
  BY DEF IInv, Counted, NoWaiterLeft
<1> QED BY <1>1, Inductive, PTL

\* When nothing is queued and no event is on its way, Ready is true: the
\* Deployment's conditions say so and the policies are the ones the CR's
\* annotation asks for, whatever happened while the passes ran.
THEOREM ReadyIsTrue == Spec => []ReadyWhenQuiet
<1>1. IInv => ReadyWhenQuiet
  <2> SUFFICES ASSUME IInv, Quiet
               PROVE  /\ isDeploymentReady
                      /\ annotation = "none"
                           => Present = ToSet(Policies) /\ labelled = ToSet(Policies)
                      /\ annotation = "true" => labelled = {}
    BY DEF ReadyWhenQuiet
  <2>1. Undisturbed /\ pc = "idle" /\ pend = {}
    BY DEF Quiet, Undisturbed
  <2>2. labelled \subseteq ToSet(Policies)
    BY DEF IInv, Types, ClusterTypes
  <2> QED BY <2>1, <2>2
             DEF IInv, Sound, PassFresh, ReadyAndIdle, DeploymentFine, PolicyFine, Present
<1> QED BY <1>1, Inductive, PTL
-----------------------------------------------------------------------------
(* What a pass has done by the time it sets Ready.                          *)
Done == Cleaned /\ Applied

\* Outside a pass nothing is claimed.
LEMMA IdleDone == ASSUME pc' = "idle" PROVE Done'
BY DEF Done, Cleaned, Applied

\* A step that keeps the lists, and changes versions only by a user's deletion.
Aside ==
  /\ UNCHANGED <<outdated, pc, todo, applying, want>>
  /\ \A r \in Resources : UpToDate(r) => UpToDate(r)'

LEMMA AsideDone == ASSUME Types, Done, Aside PROVE Done'
<1>1. Cleaned'
  BY DEF Done, Cleaned, Aside
<1>2. \A r \in applying : UpToDate(r) => UpToDate(r)'
  BY DEF Aside, Types, PassTypes
<1>3. Applied'
  BY <1>2 DEF Done, Applied, Aside
<1> QED BY <1>1, <1>3 DEF Done

LEMMA UserDeletesAside == ASSUME Types, NEW d \in Resources, UserDeletes(d) PROVE Aside
<1>1. UNCHANGED <<outdated, pc, todo, applying, want>> /\ edits' = edits + 1
  BY DEF UserDeletes, Edit, Manager, worker, waiters
<1>2. edits' > 0
  BY SMTT(20), <1>1 DEF Types, LoopTypes
<1>3. obj' = [obj EXCEPT ![d] = 0] /\ obj \in [Resources -> 0 .. 1 + MaxUpgrades]
  BY DEF UserDeletes, Types, ClusterTypes
<1>4. ASSUME NEW r \in Resources, UpToDate(r) PROVE UpToDate(r)'
  <2>1. CASE r = d
    BY <1>2, <1>3, <2>1 DEF UpToDate
  <2>2. CASE r # d
    <3>1. obj'[r] = obj[r]
      BY <1>3, <2>2
    <3> QED BY <1>1, <1>2, <1>4, <3>1 DEF UpToDate
  <2> QED BY <2>1, <2>2
<1> QED BY <1>1, <1>4 DEF Aside

LEMMA AsideSteps ==
  ASSUME Types,
         \/ Rollout \/ RolloutFails \/ Timer \/ UNCHANGED vars
         \/ \E r \in Resources : waitForResource(r) \/ UserDeletes(r)
         \/ \E p \in ToSet(Policies) : UserUnlabels(p)
         \/ \E a \in {"true", "none"} : UserAnnotates(a)
         \/ \E o \in Watched : Deliver(o)
  PROVE  Aside
<1>1. CASE \E r \in Resources : UserDeletes(r)
  BY <1>1, UserDeletesAside
<1>2. CASE /\ UNCHANGED <<outdated, pc, todo, applying, want, obj>>
           /\ edits' = edits \/ edits' = edits + 1
  <2>1. edits > 0 => edits' > 0
    BY SMTT(20), <1>2 DEF Types, LoopTypes
  <2> QED BY <1>2, <2>1 DEF Aside, UpToDate
<1>3. CASE \/ Rollout \/ RolloutFails \/ Timer \/ UNCHANGED vars
           \/ \E r \in Resources : waitForResource(r)
           \/ \E o \in Watched : Deliver(o)
  BY <1>2, <1>3
  DEF Rollout, RolloutFails, Timer, vars, cluster, worker, waitForResource, Deliver, Manager
<1>4. CASE \/ \E p \in ToSet(Policies) : UserUnlabels(p)
           \/ \E a \in {"true", "none"} : UserAnnotates(a)
  BY <1>2, <1>4 DEF UserUnlabels, UserAnnotates, Edit, Manager, worker, waiters
<1> QED BY <1>1, <1>3, <1>4

\* A pass deletes what is outdated and then loads the resources to apply.
LEMMA PreparingDone ==
  ASSUME Types, Loading, Done,
         DeleteOutdatedResources \/ AddOrCleanupPolicies \/ DeleteOldWebhookNetworkPolicy
  PROVE  Done'
<1>1. CASE pc' = "idle"
  BY <1>1, IdleDone
<1>2. CASE DeleteOutdatedResources /\ pc' # "idle"
  <2>1. pc' = "policies" /\ outdated' = outdated \ ToDelete
    BY <1>2 DEF DeleteOutdatedResources, Fail, ReturnError, Goto
  <2> QED BY <2>1 DEF Done, Cleaned, Applied
<1>3. CASE AddOrCleanupPolicies /\ pc' # "idle"
  <2>1. /\ pc = "policies" /\ pc' = "oldPolicy" /\ outdated' = outdated
        /\ \/ todo' = Apply /\ applying' = ToSet(Apply)
           \/ todo' = Apply \o Policies /\ applying' = Resources
    BY <1>3 DEF AddOrCleanupPolicies, CleanupPartly, ReturnError, Goto, LoadNetworkPolicies
  <2>2. applying' \subseteq ToSet(todo')
    BY <2>1, Lists
  <2> QED BY <2>1, <2>2 DEF Done, Cleaned, Applied
<1>4. CASE DeleteOldWebhookNetworkPolicy /\ pc' # "idle"
  <2>1. /\ pc = "oldPolicy" /\ pc' = "apply" /\ outdated' = outdated \ {"oldWebhookPolicy"}
        /\ UNCHANGED <<todo, applying>>
    BY <1>4 DEF DeleteOldWebhookNetworkPolicy, Fail, ReturnError, Goto, worker
  <2>2. outdated \subseteq ToDelete \cup {"oldWebhookPolicy"} /\ outdated \cap ToDelete = {}
    BY <2>1 DEF Types, ClusterTypes, OldObjects, Done, Cleaned
  <2>3. outdated' = {}
    BY <2>1, <2>2
  <2> QED BY <2>1, <2>3 DEF Done, Cleaned, Applied
<1> QED BY <1>1, <1>2, <1>3, <1>4

\* Applying a resource brings it up to date and leaves the others alone.
LEMMA ApplyOrUpdateResourcesDone ==
  ASSUME Types, Loading, Done, ApplyOrUpdateResources PROVE Done'
<1>1. pc = "apply" /\ outdated' = outdated /\ want' = want /\ edits' = edits /\ outdated = {}
  BY DEF ApplyOrUpdateResources, Own, Done, Cleaned
<1>2. CASE pc' = "idle"
  BY <1>2, IdleDone
<1>3. CASE /\ todo # <<>> /\ applyOrUpdateResource(Head(todo)) /\ todo' = Tail(todo)
           /\ pc' = "apply" /\ applying' = applying
  <2>1. /\ Head(todo) \in ToSet(todo) /\ ToSet(todo) \subseteq {Head(todo)} \cup ToSet(todo')
        /\ ToSet(todo) \subseteq Resources
    BY <1>3, HeadAndTail DEF Types, PassTypes
  <2>2. obj' = [obj EXCEPT ![Head(todo)] = want] /\ obj \in [Resources -> 0 .. 1 + MaxUpgrades]
    BY <1>3 DEF applyOrUpdateResource, Types, ClusterTypes
  <2>3. ASSUME NEW r \in applying PROVE r \in ToSet(todo') \/ UpToDate(r)'
    <3>1. r \in Resources /\ (r \in ToSet(todo) \/ UpToDate(r))
      BY <1>1 DEF Types, PassTypes, Done, Applied
    <3>2. CASE r = Head(todo)
      BY <1>1, <2>1, <2>2, <3>2 DEF UpToDate
    <3>3. CASE r # Head(todo)
      <4>1. obj'[r] = obj[r]
        BY <2>2, <3>1, <3>3
      <4> QED BY <1>1, <2>1, <3>1, <3>3, <4>1 DEF UpToDate
    <3> QED BY <3>2, <3>3
  <2> QED BY <1>1, <1>3, <2>3 DEF Done, Cleaned, Applied
<1>4. CASE pc' = "wait" /\ UNCHANGED <<obj, todo, applying>>
  BY <1>1, <1>4 DEF Done, Cleaned, Applied, UpToDate, Loading
<1> QED BY <1>2, <1>3, <1>4 DEF ApplyOrUpdateResources, Fail, ReturnError, Goto

LEMMA WaitForResourcesReadinessDone ==
  ASSUME Done, WaitForResourcesReadiness PROVE Done'
<1>1. CASE pc' = "idle"
  BY <1>1, IdleDone
<1>2. CASE UNCHANGED <<obj, outdated, want, edits, pc, todo, applying>>
  BY <1>2 DEF Done, Cleaned, Applied, UpToDate
<1> QED BY <1>1, <1>2 DEF WaitForResourcesReadiness, ReturnReady, ReturnError, Own

LEMMA NextDone == IInv /\ Done /\ [Next]_vars => Done'
<1> SUFFICES ASSUME Types, Loading, Done, [Next]_vars PROVE Done'
  BY DEF IInv
<1>1. CASE Worker
  BY <1>1, IdleDone, PreparingDone, ApplyOrUpdateResourcesDone, WaitForResourcesReadinessDone
  DEF Worker, HandleErrorState
<1>2. CASE Upgrade
  BY <1>2, IdleDone DEF Upgrade
<1>3. CASE ~Worker /\ ~Upgrade
  BY <1>3, AsideSteps, AsideDone DEF Next
<1> QED BY <1>1, <1>2, <1>3

LEMMA InitDone == Init => Done
BY DEF Init, Done, Cleaned, Applied

\* Only the worker sets Ready, at the end of its wait.
LEMMA ReadySteps ==
  ASSUME [Next]_vars, state # "Ready", state' = "Ready"
  PROVE  pc = "wait"
<1>1. CASE Worker
  BY <1>1
  DEF Worker, HandleErrorState, DeleteOutdatedResources, AddOrCleanupPolicies, CleanupPartly,
      DeleteOldWebhookNetworkPolicy, ApplyOrUpdateResources, WaitForResourcesReadiness, Fail,
      ReturnError, Goto
<1>2. CASE ~Worker
  <2>1. state' = state
    BY <1>2
    DEF Next, waitForResource, UserDeletes, Rollout, RolloutFails, UserUnlabels, UserAnnotates,
        Deliver, Timer, Upgrade, Edit, vars, cluster
  <2> QED BY <2>1
<1> QED BY <1>1, <1>2

\* The CR becomes Ready only when what former releases left is gone and every
\* resource of the pass is at the manager's version or was deleted by a user
\* since, however many passes failed or were cut short by an upgrade before.
THEOREM ReadyIsApplied == Spec => ReadyMeansApplied
<1> DEFINE Step ==
      state # "Ready" /\ state' = "Ready" =>
        /\ outdated = {} /\ ToSet(Apply) \subseteq applying
        /\ \A r \in applying : obj[r] = want \/ (obj[r] = 0 /\ edits > 0)
<1>1. ASSUME IInv, Done, [Next]_vars PROVE Step
  <2> SUFFICES ASSUME state # "Ready", state' = "Ready"
               PROVE  /\ outdated = {} /\ ToSet(Apply) \subseteq applying
                      /\ \A r \in applying : UpToDate(r)
    BY DEF UpToDate
  <2>1. pc = "wait" /\ todo = <<>>
    BY <1>1, ReadySteps DEF IInv, Loading
  <2> QED BY <1>1, <2>1, ToSetEmpty DEF Done, Cleaned, Applied
<1>2. Spec => []Done
  BY InitDone, NextDone, Inductive, PTL DEF Spec
<1>3. IInv /\ Done /\ [Next]_vars => [Step]_vars
  BY <1>1
<1> QED BY <1>2, <1>3, Inductive, PTL DEF Spec, ReadyMeansApplied
=============================================================================
