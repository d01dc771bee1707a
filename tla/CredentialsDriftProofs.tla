----------------------- MODULE CredentialsDriftProofs -----------------------
(***************************************************************************)
(* Theorems of CredentialsDrift, for any set of namespaces, any number of  *)
(* changes, failures and restarts, and caches that lag without bound.      *)
(*                                                                         *)
(* The argument: from its ConfigMap request on, a pass knows that the      *)
(* ConfigMap is its own or gone; after it deleted the Pod, whatever Pod    *)
(* is ready was started from that ConfigMap. The credentials Secret it     *)
(* deletes last is in another namespace than both.                         *)
(***************************************************************************)
EXTENDS CredentialsDrift, TLAPS

\* Each leaf is given to SMT and then to Zenon, with time for slow machines.
USE SMTT(20), ZenonT(30)

Flags == cfresh \in BOOLEAN /\ fresh \in BOOLEAN

\* TypeOK without the Boolean variables.
Shapes ==
  /\ sec \in Secrets /\ csec \in Secrets /\ mem \in Secrets
  /\ creds \subseteq Namespaces /\ ccreds \subseteq Namespaces
  /\ idSecrets \in [Namespaces -> Ids \cup {None}]
  /\ cm \in Configs /\ ccm \in Configs /\ pod \in Pods
  /\ previousNs \in Namespaces \cup {None}
  /\ managerNs \in Namespaces \cup {None} /\ operatorNs \in Namespaces \cup {None}
  /\ managerId \in Ids \cup {None} /\ configMapId \in Ids \cup {None}
  /\ idSecretId \in Ids \cup {None}
  /\ state \in {"Processing", "Ready", "Error"} /\ pc \in Steps
  /\ found \subseteq {"id", "credentials"}
  /\ edits \in Nat /\ fails \in Nat /\ crashes \in Nat

AfterConfigMap == {"applyDeployment", "applyCredentials", "wait", "getChanged",
                   "deleteId", "deletePod", "deleteCredentials"}
\* What a pass knows of its own earlier requests.
PassKnows ==
  /\ pc # "idle" => managerNs \in Namespaces /\ operatorNs \in Namespaces /\ managerId \in Ids
  /\ pc \in AfterConfigMap => cm = NoConfig \/ cm = SetConfigMapValues
  /\ pc = "deleteCredentials" /\ pod.phase = "ready" => pod.ns = managerNs

IInv == Shapes /\ PassKnows

(* The chosen credentials Secret is one of the listed.                      *)
LEMMA DefaultSecretExists ==
  ASSUME Shapes, ccreds # {}
  PROVE  GetDefaultCredentialsSecret \in ccreds
<1>1. ccreds \in SUBSET Namespaces
  BY DEF Shapes
<1>2. First(ccreds) \in ccreds
  BY <1>1, DriftAssumption, ZenonT(30)
<1> QED BY <1>2, ZenonT(30) DEF GetDefaultCredentialsSecret
-----------------------------------------------------------------------------

LEMMA ReconcileShapes == IInv /\ Reconcile => Shapes'
BY DriftAssumption DEF IInv, PassKnows, Shapes, Secrets, Configs, Pods, NoConfig,
   Steps, None, Restarted, WithPreviousNamespace, WithPreviousId, server, cache, detector,
   worker, Reconcile, At, Ok, InitializeFromSecret, NamespaceOf
LEMMA ReconcileKnows == IInv /\ Reconcile => PassKnows'
BY DriftAssumption DEF IInv, PassKnows, Shapes, Secrets, Configs, Pods, NoConfig,
   Steps, None, AfterConfigMap, SetConfigMapValues, Restarted, WithPreviousNamespace,
   WithPreviousId, server, cache, detector, worker, Reconcile, At, Ok, InitializeFromSecret,
   NamespaceOf

LEMMA CheckShapes == IInv /\ Check => Shapes'
BY DriftAssumption DEF IInv, PassKnows, Shapes, Secrets, Configs, Pods, NoConfig,
   Steps, None, Restarted, WithPreviousNamespace, WithPreviousId, server, cache, detector,
   worker, Check, At, Ok, NamespaceChanged, ConfigMapChanged
LEMMA CheckKnows == IInv /\ Check => PassKnows'
BY DriftAssumption DEF IInv, PassKnows, Shapes, Secrets, Configs, Pods, NoConfig,
   Steps, None, AfterConfigMap, SetConfigMapValues, Restarted, WithPreviousNamespace,
   WithPreviousId, server, cache, detector, worker, Check, At, Ok, NamespaceChanged,
   ConfigMapChanged

LEMMA CheckCredentialsNamespaceDriftShapes == IInv /\ CheckCredentialsNamespaceDrift => Shapes'
<1> SUFFICES ASSUME IInv, CheckCredentialsNamespaceDrift PROVE Shapes'
  OBVIOUS
<1>1. GetDefaultCredentialsSecret \in Namespaces \cup {None}
  <2>1. CASE ccreds = {}
    BY <2>1, ZenonT(30) DEF GetDefaultCredentialsSecret
  <2>2. CASE ccreds # {}
    <3>1. GetDefaultCredentialsSecret \in ccreds
      BY <2>2, DefaultSecretExists DEF IInv
    <3> QED BY <3>1 DEF IInv, Shapes
  <2> QED BY <2>1, <2>2
<1>2. WithPreviousNamespace(GetDefaultCredentialsSecret) \in Secrets
  BY <1>1 DEF IInv, Shapes, Secrets, WithPreviousNamespace
<1>3. operatorNs' \in Namespaces \cup {None}
  BY <1>1 DEF IInv, Shapes, CheckCredentialsNamespaceDrift
<1>4. sec' \in Secrets /\ mem' \in Secrets
  BY <1>2 DEF IInv, Shapes, CheckCredentialsNamespaceDrift, annotateSecret, NothingToAnnotate
<1> QED BY <1>3, <1>4, DriftAssumption DEF IInv, Shapes, Steps, CheckCredentialsNamespaceDrift,
   annotateSecret, NothingToAnnotate, At, Ok, Fail, Abort
LEMMA CheckCredentialsNamespaceDriftKnows == IInv /\ CheckCredentialsNamespaceDrift => PassKnows'
BY DefaultSecretExists, DriftAssumption DEF IInv, PassKnows, Shapes, Secrets, Configs,
   Pods, NoConfig, Steps, None, AfterConfigMap, SetConfigMapValues, Restarted,
   WithPreviousNamespace, WithPreviousId, server, cache, detector, worker,
   CheckCredentialsNamespaceDrift, At, Ok, Fail, Abort, NamespaceChanged, annotateSecret,
   NothingToAnnotate

LEMMA CheckClusterIdConfigMapDriftShapes == IInv /\ CheckClusterIdConfigMapDrift => Shapes'
BY DriftAssumption DEF IInv, PassKnows, Shapes, Secrets, Configs, Pods, NoConfig,
   Steps, None, Restarted, WithPreviousNamespace, WithPreviousId, server, cache, detector,
   worker, CheckClusterIdConfigMapDrift, At, Ok, Fail, Abort, ConfigMapChanged, annotateSecret,
   NothingToAnnotate
LEMMA CheckClusterIdConfigMapDriftKnows == IInv /\ CheckClusterIdConfigMapDrift => PassKnows'
BY DriftAssumption DEF IInv, PassKnows, Shapes, Secrets, Configs, Pods, NoConfig,
   Steps, None, AfterConfigMap, SetConfigMapValues, Restarted, WithPreviousNamespace,
   WithPreviousId, server, cache, detector, worker, CheckClusterIdConfigMapDrift, At, Ok, Fail,
   Abort, ConfigMapChanged, annotateSecret, NothingToAnnotate

LEMMA ResolveClusterIdSecretDriftShapes == IInv /\ ResolveClusterIdSecretDrift => Shapes'
BY DriftAssumption DEF IInv, PassKnows, Shapes, Secrets, Configs, Pods, NoConfig,
   Steps, None, Restarted, WithPreviousNamespace, WithPreviousId, server, cache, detector,
   worker, ResolveClusterIdSecretDrift, At, Ok, Fail, Abort, annotateSecret, NothingToAnnotate
LEMMA ResolveClusterIdSecretDriftKnows == IInv /\ ResolveClusterIdSecretDrift => PassKnows'
BY DriftAssumption DEF IInv, PassKnows, Shapes, Secrets, Configs, Pods, NoConfig,
   Steps, None, AfterConfigMap, SetConfigMapValues, Restarted, WithPreviousNamespace,
   WithPreviousId, server, cache, detector, worker, ResolveClusterIdSecretDrift, At, Ok, Fail,
   Abort, annotateSecret, NothingToAnnotate

LEMMA DeleteStaleIdSecretShapes == IInv /\ DeleteStaleIdSecret => Shapes'
BY DriftAssumption DEF IInv, PassKnows, Shapes, Secrets, Configs, Pods, NoConfig,
   Steps, None, Restarted, WithPreviousNamespace, WithPreviousId, server, cache, detector,
   worker, DeleteStaleIdSecret, At, Ok, Fail, Abort
LEMMA DeleteStaleIdSecretKnows == IInv /\ DeleteStaleIdSecret => PassKnows'
BY DriftAssumption DEF IInv, PassKnows, Shapes, Secrets, Configs, Pods, NoConfig,
   Steps, None, AfterConfigMap, SetConfigMapValues, Restarted, WithPreviousNamespace,
   WithPreviousId, server, cache, detector, worker, DeleteStaleIdSecret, At, Ok, Fail, Abort

LEMMA restartSapBtpServiceOperatorPodIfNotReadyShapes == IInv /\ restartSapBtpServiceOperatorPodIfNotReady => Shapes'
BY DriftAssumption DEF IInv, PassKnows, Shapes, Secrets, Configs, Pods, NoConfig,
   Steps, None, Restarted, WithPreviousNamespace, WithPreviousId, server, cache, detector,
   worker, restartSapBtpServiceOperatorPodIfNotReady, At, Ok, Fail, Abort
LEMMA restartSapBtpServiceOperatorPodIfNotReadyKnows == IInv /\ restartSapBtpServiceOperatorPodIfNotReady => PassKnows'
BY DriftAssumption DEF IInv, PassKnows, Shapes, Secrets, Configs, Pods, NoConfig,
   Steps, None, AfterConfigMap, SetConfigMapValues, Restarted, WithPreviousNamespace,
   WithPreviousId, server, cache, detector, worker, restartSapBtpServiceOperatorPodIfNotReady,
   At, Ok, Fail, Abort

LEMMA ApplyConfigMapShapes == IInv /\ ApplyConfigMap => Shapes'
BY DriftAssumption DEF IInv, PassKnows, Shapes, Secrets, Configs, Pods, NoConfig,
   Steps, None, Restarted, WithPreviousNamespace, WithPreviousId, server, cache, detector,
   worker, ApplyConfigMap, At, Ok, Fail, Abort, SetConfigMapValues
LEMMA ApplyConfigMapKnows == IInv /\ ApplyConfigMap => PassKnows'
BY DriftAssumption DEF IInv, PassKnows, Shapes, Secrets, Configs, Pods, NoConfig,
   Steps, None, AfterConfigMap, SetConfigMapValues, Restarted, WithPreviousNamespace,
   WithPreviousId, server, cache, detector, worker, ApplyConfigMap, At, Ok, Fail, Abort,
   SetConfigMapValues

LEMMA ApplyDeploymentShapes == IInv /\ ApplyDeployment => Shapes'
BY DriftAssumption DEF IInv, PassKnows, Shapes, Secrets, Configs, Pods, NoConfig,
   Steps, None, Restarted, WithPreviousNamespace, WithPreviousId, server, cache, detector,
   worker, ApplyDeployment, At, Ok, Fail, Abort
LEMMA ApplyDeploymentKnows == IInv /\ ApplyDeployment => PassKnows'
BY DriftAssumption DEF IInv, PassKnows, Shapes, Secrets, Configs, Pods, NoConfig,
   Steps, None, AfterConfigMap, SetConfigMapValues, Restarted, WithPreviousNamespace,
   WithPreviousId, server, cache, detector, worker, ApplyDeployment, At, Ok, Fail, Abort

LEMMA ApplyCredentialsShapes == IInv /\ ApplyCredentials => Shapes'
<1> SUFFICES ASSUME IInv, ApplyCredentials PROVE Shapes'
  OBVIOUS
<1>1. managerNs \in Namespaces /\ creds \subseteq Namespaces
  BY DEF IInv, Shapes, PassKnows, ApplyCredentials, At
<1>2. creds' = creds \/ creds' = creds \cup {managerNs}
  BY DEF ApplyCredentials
<1>3. creds' \subseteq Namespaces
  <2> SUFFICES ASSUME NEW n \in creds' PROVE n \in Namespaces
    OBVIOUS
  <2>1. n \in creds \/ n = managerNs
    BY <1>2
  <2> QED BY <1>1, <2>1
<1> QED BY <1>3, DriftAssumption DEF IInv, Shapes, Steps, ApplyCredentials, At, Ok, Fail, Abort,
   detector
LEMMA ApplyCredentialsKnows == IInv /\ ApplyCredentials => PassKnows'
BY DriftAssumption DEF IInv, PassKnows, Shapes, Secrets, Configs, Pods, NoConfig,
   Steps, None, AfterConfigMap, SetConfigMapValues, Restarted, WithPreviousNamespace,
   WithPreviousId, server, cache, detector, worker, ApplyCredentials, At, Ok, Fail, Abort

LEMMA WaitForResourcesReadinessShapes == IInv /\ WaitForResourcesReadiness => Shapes'
BY DriftAssumption DEF IInv, PassKnows, Shapes, Secrets, Configs, Pods, NoConfig,
   Steps, None, Restarted, WithPreviousNamespace, WithPreviousId, server, cache, detector,
   worker, WaitForResourcesReadiness, At, Ok, Fail, Abort
LEMMA WaitForResourcesReadinessKnows == IInv /\ WaitForResourcesReadiness => PassKnows'
BY DriftAssumption DEF IInv, PassKnows, Shapes, Secrets, Configs, Pods, NoConfig,
   Steps, None, AfterConfigMap, SetConfigMapValues, Restarted, WithPreviousNamespace,
   WithPreviousId, server, cache, detector, worker, WaitForResourcesReadiness, At, Ok, Fail,
   Abort

LEMMA GetChangedResourcesShapes == IInv /\ GetChangedResources => Shapes'
<1> SUFFICES ASSUME IInv, GetChangedResources PROVE Shapes'
  OBVIOUS
<1>1. found' \subseteq {"id", "credentials"}
  <2>1. CASE found' = found
    BY <2>1 DEF IInv, Shapes
  <2>2. CASE found' # found
    BY <2>2, ZenonT(30) DEF GetChangedResources
  <2> QED BY <2>1, <2>2
<1> QED BY <1>1, DriftAssumption DEF IInv, Shapes, Steps, GetChangedResources, Provisioned, At,
   Ok, Fail, Abort, server, detector
LEMMA GetChangedResourcesKnows == IInv /\ GetChangedResources => PassKnows'
BY DriftAssumption DEF IInv, PassKnows, Shapes, Secrets, Configs, Pods, NoConfig,
   Steps, None, AfterConfigMap, SetConfigMapValues, Restarted, WithPreviousNamespace,
   WithPreviousId, server, cache, detector, worker, GetChangedResources, At, Ok, Fail, Abort,
   Provisioned

LEMMA DeleteIdSecretShapes == IInv /\ DeleteIdSecret => Shapes'
BY DriftAssumption DEF IInv, PassKnows, Shapes, Secrets, Configs, Pods, NoConfig,
   Steps, None, Restarted, WithPreviousNamespace, WithPreviousId, server, cache, detector,
   worker, DeleteIdSecret, At, Ok, Fail, Abort
LEMMA DeleteIdSecretKnows == IInv /\ DeleteIdSecret => PassKnows'
BY DriftAssumption DEF IInv, PassKnows, Shapes, Secrets, Configs, Pods, NoConfig,
   Steps, None, AfterConfigMap, SetConfigMapValues, Restarted, WithPreviousNamespace,
   WithPreviousId, server, cache, detector, worker, DeleteIdSecret, At, Ok, Fail, Abort

LEMMA DeletePodShapes == IInv /\ DeletePod => Shapes'
BY DriftAssumption DEF IInv, PassKnows, Shapes, Secrets, Configs, Pods, NoConfig,
   Steps, None, Restarted, WithPreviousNamespace, WithPreviousId, server, cache, detector,
   worker, DeletePod, At, Ok, Fail, Abort
LEMMA DeletePodKnows == IInv /\ DeletePod => PassKnows'
BY DriftAssumption DEF IInv, PassKnows, Shapes, Secrets, Configs, Pods, NoConfig,
   Steps, None, AfterConfigMap, SetConfigMapValues, Restarted, WithPreviousNamespace,
   WithPreviousId, server, cache, detector, worker, DeletePod, At, Ok, Fail, Abort

LEMMA DeleteCredentialsShapes == IInv /\ DeleteCredentials => Shapes'
<1> SUFFICES ASSUME IInv, DeleteCredentials PROVE Shapes'
  OBVIOUS
<1>1. creds \subseteq Namespaces
  BY DEF IInv, Shapes
<1>2. creds' = creds \/ creds' = creds \ {operatorNs}
  BY DEF DeleteCredentials
<1>3. creds' \subseteq Namespaces
  BY <1>1, <1>2
<1> QED BY <1>3, DriftAssumption DEF IInv, Shapes, Steps, DeleteCredentials, Provisioned, At,
   Ok, Fail, Abort, detector
LEMMA DeleteCredentialsKnows == IInv /\ DeleteCredentials => PassKnows'
BY DriftAssumption DEF IInv, PassKnows, Shapes, Secrets, Configs, Pods, NoConfig,
   Steps, None, AfterConfigMap, SetConfigMapValues, Restarted, WithPreviousNamespace,
   WithPreviousId, server, cache, detector, worker, DeleteCredentials, At, Ok, Fail, Abort,
   Provisioned

LEMMA UserEditsSecretShapes == IInv /\ UserEditsSecret => Shapes'
BY DriftAssumption DEF IInv, PassKnows, Shapes, Secrets, Configs, Pods, NoConfig,
   Steps, None, Restarted, WithPreviousNamespace, WithPreviousId, server, cache, detector,
   worker, UserEditsSecret, Edit
LEMMA UserEditsSecretKnows == IInv /\ UserEditsSecret => PassKnows'
BY DriftAssumption DEF IInv, PassKnows, Shapes, Secrets, Configs, Pods, NoConfig,
   Steps, None, AfterConfigMap, SetConfigMapValues, Restarted, WithPreviousNamespace,
   WithPreviousId, server, cache, detector, worker, UserEditsSecret, Edit

LEMMA UserDeletesConfigMapShapes == IInv /\ UserDeletesConfigMap => Shapes'
BY DriftAssumption DEF IInv, PassKnows, Shapes, Secrets, Configs, Pods, NoConfig,
   Steps, None, Restarted, WithPreviousNamespace, WithPreviousId, server, cache, detector,
   worker, UserDeletesConfigMap, Edit
LEMMA UserDeletesConfigMapKnows == IInv /\ UserDeletesConfigMap => PassKnows'
BY DriftAssumption DEF IInv, PassKnows, Shapes, Secrets, Configs, Pods, NoConfig,
   Steps, None, AfterConfigMap, SetConfigMapValues, Restarted, WithPreviousNamespace,
   WithPreviousId, server, cache, detector, worker, UserDeletesConfigMap, Edit

LEMMA PodStartsShapes == IInv /\ PodStarts => Shapes'
BY DriftAssumption DEF IInv, PassKnows, Shapes, Secrets, Configs, Pods, NoConfig,
   Steps, None, Restarted, WithPreviousNamespace, WithPreviousId, server, cache, detector,
   worker, PodStarts
LEMMA PodStartsKnows == IInv /\ PodStarts => PassKnows'
BY DriftAssumption DEF IInv, PassKnows, Shapes, Secrets, Configs, Pods, NoConfig,
   Steps, None, AfterConfigMap, SetConfigMapValues, Restarted, WithPreviousNamespace,
   WithPreviousId, server, cache, detector, worker, PodStarts

LEMMA SyncSecretsShapes == IInv /\ SyncSecrets => Shapes'
BY DriftAssumption DEF IInv, PassKnows, Shapes, Secrets, Configs, Pods, NoConfig,
   Steps, None, Restarted, WithPreviousNamespace, WithPreviousId, server, cache, detector,
   worker, SyncSecrets
LEMMA SyncSecretsKnows == IInv /\ SyncSecrets => PassKnows'
BY DriftAssumption DEF IInv, PassKnows, Shapes, Secrets, Configs, Pods, NoConfig,
   Steps, None, AfterConfigMap, SetConfigMapValues, Restarted, WithPreviousNamespace,
   WithPreviousId, server, cache, detector, worker, SyncSecrets

LEMMA SyncConfigMapShapes == IInv /\ SyncConfigMap => Shapes'
BY DriftAssumption DEF IInv, PassKnows, Shapes, Secrets, Configs, Pods, NoConfig,
   Steps, None, Restarted, WithPreviousNamespace, WithPreviousId, server, cache, detector,
   worker, SyncConfigMap
LEMMA SyncConfigMapKnows == IInv /\ SyncConfigMap => PassKnows'
BY DriftAssumption DEF IInv, PassKnows, Shapes, Secrets, Configs, Pods, NoConfig,
   Steps, None, AfterConfigMap, SetConfigMapValues, Restarted, WithPreviousNamespace,
   WithPreviousId, server, cache, detector, worker, SyncConfigMap

LEMMA CrashShapes == IInv /\ Crash => Shapes'
BY DriftAssumption DEF IInv, PassKnows, Shapes, Secrets, Configs, Pods, NoConfig,
   Steps, None, Restarted, WithPreviousNamespace, WithPreviousId, server, cache, detector,
   worker, Crash
LEMMA CrashKnows == IInv /\ Crash => PassKnows'
BY DriftAssumption DEF IInv, PassKnows, Shapes, Secrets, Configs, Pods, NoConfig,
   Steps, None, AfterConfigMap, SetConfigMapValues, Restarted, WithPreviousNamespace,
   WithPreviousId, server, cache, detector, worker, Crash

-----------------------------------------------------------------------------
(* Every action keeps the types and what the pass knows.                    *)
LEMMA Invariance == IInv /\ [Next]_vars => IInv'
<1> SUFFICES ASSUME IInv, [Next]_vars PROVE IInv'
  OBVIOUS
<1>1. CASE Reconcile
  BY <1>1, ReconcileShapes, ReconcileKnows DEF IInv
<1>2. CASE Check
  BY <1>2, CheckShapes, CheckKnows DEF IInv
<1>3. CASE CheckCredentialsNamespaceDrift
  BY <1>3, CheckCredentialsNamespaceDriftShapes, CheckCredentialsNamespaceDriftKnows DEF IInv
<1>4. CASE CheckClusterIdConfigMapDrift
  BY <1>4, CheckClusterIdConfigMapDriftShapes, CheckClusterIdConfigMapDriftKnows DEF IInv
<1>5. CASE ResolveClusterIdSecretDrift
  BY <1>5, ResolveClusterIdSecretDriftShapes, ResolveClusterIdSecretDriftKnows DEF IInv
<1>6. CASE DeleteStaleIdSecret
  BY <1>6, DeleteStaleIdSecretShapes, DeleteStaleIdSecretKnows DEF IInv
<1>7. CASE restartSapBtpServiceOperatorPodIfNotReady
  BY <1>7, restartSapBtpServiceOperatorPodIfNotReadyShapes,
     restartSapBtpServiceOperatorPodIfNotReadyKnows DEF IInv
<1>8. CASE ApplyConfigMap
  BY <1>8, ApplyConfigMapShapes, ApplyConfigMapKnows DEF IInv
<1>9. CASE ApplyDeployment
  BY <1>9, ApplyDeploymentShapes, ApplyDeploymentKnows DEF IInv
<1>10. CASE ApplyCredentials
  BY <1>10, ApplyCredentialsShapes, ApplyCredentialsKnows DEF IInv
<1>11. CASE WaitForResourcesReadiness
  BY <1>11, WaitForResourcesReadinessShapes, WaitForResourcesReadinessKnows DEF IInv
<1>12. CASE GetChangedResources
  BY <1>12, GetChangedResourcesShapes, GetChangedResourcesKnows DEF IInv
<1>13. CASE DeleteIdSecret
  BY <1>13, DeleteIdSecretShapes, DeleteIdSecretKnows DEF IInv
<1>14. CASE DeletePod
  BY <1>14, DeletePodShapes, DeletePodKnows DEF IInv
<1>15. CASE DeleteCredentials
  BY <1>15, DeleteCredentialsShapes, DeleteCredentialsKnows DEF IInv
<1>16. CASE UserEditsSecret
  BY <1>16, UserEditsSecretShapes, UserEditsSecretKnows DEF IInv
<1>17. CASE UserDeletesConfigMap
  BY <1>17, UserDeletesConfigMapShapes, UserDeletesConfigMapKnows DEF IInv
<1>18. CASE PodStarts
  BY <1>18, PodStartsShapes, PodStartsKnows DEF IInv
<1>19. CASE SyncSecrets
  BY <1>19, SyncSecretsShapes, SyncSecretsKnows DEF IInv
<1>20. CASE SyncConfigMap
  BY <1>20, SyncConfigMapShapes, SyncConfigMapKnows DEF IInv
<1>21. CASE Crash
  BY <1>21, CrashShapes, CrashKnows DEF IInv
<1>22. CASE UNCHANGED vars
  BY <1>22 DEF IInv, Shapes, PassKnows, SetConfigMapValues, vars, server, cache, detector, worker
<1> QED BY <1>1, <1>2, <1>3, <1>4, <1>5, <1>6, <1>7, <1>8, <1>9, <1>10, <1>11, <1>12, <1>13,
   <1>14, <1>15, <1>16, <1>17, <1>18, <1>19, <1>20, <1>21, <1>22 DEF Next, Worker

LEMMA InitHolds == Init => IInv
BY DriftAssumption DEF Init, IInv, Shapes, PassKnows, Secrets, Configs, Pods, NoConfig, Steps,
   AfterConfigMap, None

(* CredentialsDrift keeps the inductive invariant.                          *)
THEOREM Inductive == Spec => []IInv
BY InitHolds, Invariance, PTL DEF Spec

LEMMA FlagsKept == Flags /\ [Next]_vars => Flags'
<1> SUFFICES ASSUME Flags, [Next]_vars PROVE Flags'
  OBVIOUS
<1>1. CASE Reconcile
  BY <1>1, ZenonT(30) DEF Flags, cache, worker, Reconcile, At, Ok, InitializeFromSecret, NamespaceOf
<1>2. CASE Check
  BY <1>2, ZenonT(30) DEF Flags, cache, worker, Check, At, Ok, NamespaceChanged, ConfigMapChanged
<1>3. CASE CheckCredentialsNamespaceDrift
  BY <1>3, ZenonT(30) DEF Flags, cache, worker, CheckCredentialsNamespaceDrift, At, Ok, Fail, Abort,
     NamespaceChanged, annotateSecret, NothingToAnnotate
<1>4. CASE CheckClusterIdConfigMapDrift
  BY <1>4, ZenonT(30) DEF Flags, cache, worker, CheckClusterIdConfigMapDrift, At, Ok, Fail, Abort,
     ConfigMapChanged, annotateSecret, NothingToAnnotate
<1>5. CASE ResolveClusterIdSecretDrift
  BY <1>5, ZenonT(30) DEF Flags, cache, worker, ResolveClusterIdSecretDrift, At, Ok, Fail, Abort,
     annotateSecret, NothingToAnnotate
<1>6. CASE DeleteStaleIdSecret
  BY <1>6, ZenonT(30) DEF Flags, cache, worker, DeleteStaleIdSecret, At, Ok, Fail, Abort
<1>7. CASE restartSapBtpServiceOperatorPodIfNotReady
  BY <1>7, ZenonT(30) DEF Flags, cache, worker, restartSapBtpServiceOperatorPodIfNotReady, At, Ok,
     Fail, Abort
<1>8. CASE ApplyConfigMap
  BY <1>8, ZenonT(30)
    DEF Flags, cache, worker, ApplyConfigMap, At, Ok, Fail, Abort, SetConfigMapValues
<1>9. CASE ApplyDeployment
  BY <1>9, ZenonT(30) DEF Flags, cache, worker, ApplyDeployment, At, Ok, Fail, Abort
<1>10. CASE ApplyCredentials
  BY <1>10, ZenonT(30) DEF Flags, cache, worker, ApplyCredentials, At, Ok, Fail, Abort
<1>11. CASE WaitForResourcesReadiness
  BY <1>11, ZenonT(30) DEF Flags, cache, worker, WaitForResourcesReadiness, At, Ok, Fail, Abort
<1>12. CASE GetChangedResources
  BY <1>12, ZenonT(30)
    DEF Flags, cache, worker, GetChangedResources, At, Ok, Fail, Abort, Provisioned
<1>13. CASE DeleteIdSecret
  BY <1>13, ZenonT(30) DEF Flags, cache, worker, DeleteIdSecret, At, Ok, Fail, Abort
<1>14. CASE DeletePod
  BY <1>14, ZenonT(30) DEF Flags, cache, worker, DeletePod, At, Ok, Fail, Abort
<1>15. CASE DeleteCredentials
  BY <1>15, ZenonT(30) DEF Flags, cache, worker, DeleteCredentials, At, Ok, Fail, Abort, Provisioned
<1>16. CASE UserEditsSecret
  BY <1>16, ZenonT(30) DEF Flags, cache, worker, UserEditsSecret, Edit
<1>17. CASE UserDeletesConfigMap
  BY <1>17, ZenonT(30) DEF Flags, cache, worker, UserDeletesConfigMap, Edit
<1>18. CASE PodStarts
  BY <1>18, ZenonT(30) DEF Flags, cache, worker, PodStarts
<1>19. CASE SyncSecrets
  BY <1>19, ZenonT(30) DEF Flags, cache, worker, SyncSecrets
<1>20. CASE SyncConfigMap
  BY <1>20, ZenonT(30) DEF Flags, cache, worker, SyncConfigMap
<1>21. CASE Crash
  BY <1>21, ZenonT(30) DEF Flags, cache, worker, Crash
<1>22. CASE UNCHANGED vars
  BY <1>22, ZenonT(30) DEF Flags, vars, cache, worker
<1> QED BY <1>1, <1>2, <1>3, <1>4, <1>5, <1>6, <1>7, <1>8, <1>9, <1>10, <1>11, <1>12, <1>13,
   <1>14, <1>15, <1>16, <1>17, <1>18, <1>19, <1>20, <1>21, <1>22 DEF Next, Worker

(* Every variable keeps its type.                                           *)
THEOREM TypeCorrect == Spec => []TypeOK
<1>1. Init => Flags
  BY ZenonT(30) DEF Init, Flags
<1>2. IInv /\ Flags => TypeOK
  BY ZenonT(30) DEF IInv, Shapes, Flags, TypeOK
<1>3. Spec => []IInv
  BY Inductive
<1> QED BY <1>1, <1>2, <1>3, FlagsKept, PTL DEF Spec

\* Only the last request of DeleteChangedResources removes a Secret.
LEMMA OnlyDeleteCredentialsRemoves ==
  ASSUME [Next]_vars, ~DeleteCredentials
  PROVE  creds \ creds' = {}
<1>1. creds' = creds \/ creds' = creds \cup {managerNs}
  <2>1. CASE Reconcile
    BY <2>1, ZenonT(30) DEF Reconcile, server
  <2>2. CASE Check
    BY <2>2, ZenonT(30) DEF Check, server
  <2>3. CASE CheckCredentialsNamespaceDrift
    BY <2>3, ZenonT(30) DEF CheckCredentialsNamespaceDrift, server
  <2>4. CASE CheckClusterIdConfigMapDrift
    BY <2>4, ZenonT(30) DEF CheckClusterIdConfigMapDrift, server
  <2>5. CASE ResolveClusterIdSecretDrift
    BY <2>5, ZenonT(30) DEF ResolveClusterIdSecretDrift, server
  <2>6. CASE DeleteStaleIdSecret
    BY <2>6, ZenonT(30) DEF DeleteStaleIdSecret, server
  <2>7. CASE restartSapBtpServiceOperatorPodIfNotReady
    BY <2>7, ZenonT(30) DEF restartSapBtpServiceOperatorPodIfNotReady, server
  <2>8. CASE ApplyConfigMap
    BY <2>8, ZenonT(30) DEF ApplyConfigMap, server
  <2>9. CASE ApplyDeployment
    BY <2>9, ZenonT(30) DEF ApplyDeployment, server
  <2>10. CASE ApplyCredentials
    BY <2>10, ZenonT(30) DEF ApplyCredentials, server
  <2>11. CASE WaitForResourcesReadiness
    BY <2>11, ZenonT(30) DEF WaitForResourcesReadiness, server
  <2>12. CASE GetChangedResources
    BY <2>12, ZenonT(30) DEF GetChangedResources, server
  <2>13. CASE DeleteIdSecret
    BY <2>13, ZenonT(30) DEF DeleteIdSecret, server
  <2>14. CASE DeletePod
    BY <2>14, ZenonT(30) DEF DeletePod, server
  <2>15. CASE UserEditsSecret
    BY <2>15, ZenonT(30) DEF UserEditsSecret, server
  <2>16. CASE UserDeletesConfigMap
    BY <2>16, ZenonT(30) DEF UserDeletesConfigMap, server
  <2>17. CASE PodStarts
    BY <2>17, ZenonT(30) DEF PodStarts, server
  <2>18. CASE SyncSecrets
    BY <2>18, ZenonT(30) DEF SyncSecrets, server
  <2>19. CASE SyncConfigMap
    BY <2>19, ZenonT(30) DEF SyncConfigMap, server
  <2>20. CASE Crash
    BY <2>20, ZenonT(30) DEF Crash, server
  <2>21. CASE UNCHANGED vars
    BY <2>21, ZenonT(30) DEF vars, server
  <2> QED BY <2>1, <2>2, <2>3, <2>4, <2>5, <2>6, <2>7, <2>8, <2>9, <2>10, <2>11, <2>12, <2>13,
     <2>14, <2>15, <2>16, <2>17, <2>18, <2>19, <2>20, <2>21 DEF Next, Worker
<1> QED BY <1>1, ZenonT(30)

LEMMA DeleteCredentialsIsSafe ==
  ASSUME IInv, DeleteCredentials, NEW n \in creds \ creds'
  PROVE  cm.ns # n /\ ~(pod.phase = "ready" /\ pod.ns = n)
<1>1. n = operatorNs /\ managerNs # operatorNs /\ n \in Namespaces
  BY DEF DeleteCredentials, isCredentialsNamespaceChanged, IInv, Shapes
<1>2. pc = "deleteCredentials" /\ pc \in AfterConfigMap
  BY DEF DeleteCredentials, At, AfterConfigMap
<1>3. cm.ns = None \/ cm.ns = managerNs
  BY <1>2 DEF IInv, PassKnows, NoConfig, SetConfigMapValues
<1>4. pod.phase = "ready" => pod.ns = managerNs
  BY <1>2 DEF IInv, PassKnows
<1> QED BY <1>1, <1>3, <1>4, DriftAssumption

(* DeleteChangedResources never removes the credentials Secret that the     *)
(* ConfigMap names or that a ready Pod started with, however often the       *)
(* Secret changes, requests fail or the manager restarts, and however far    *)
(* the caches lag.                                                           *)
THEOREM CredentialsInUseAreKept == Spec => CredentialsInUseStay
<1>1. IInv /\ [Next]_vars =>
        \A n \in creds \ creds' : cm.ns # n /\ ~(pod.phase = "ready" /\ pod.ns = n)
  BY OnlyDeleteCredentialsRemoves, DeleteCredentialsIsSafe
<1>2. Spec => []IInv
  BY Inductive
<1> QED BY <1>1, <1>2, PTL DEF Spec, CredentialsInUseStay
-----------------------------------------------------------------------------
(* What Ready means.                                                        *)
\* A copy of the Secret that is not outdated is the Secret.
Copies == (cfresh = TRUE => csec = sec) /\ (fresh = TRUE => mem = sec)
\* A pass works with what it read.
Reads == pc # "idle" => managerNs = NamespaceOf(mem) /\ managerId = mem.id
\* The credentials Secret is in place, and the new Pod follows the ConfigMap.
Applied ==
  /\ pc \in {"wait", "getChanged", "deleteId", "deletePod", "deleteCredentials"} => managerNs \in creds
  /\ pc = "deleteCredentials" /\ pod.phase = "ready" => pod.id = managerId

\* The steps that neither read nor write the required Secret.
Elsewhere ==
  \/ Check \/ DeleteStaleIdSecret \/ restartSapBtpServiceOperatorPodIfNotReady
  \/ ApplyConfigMap \/ ApplyDeployment \/ ApplyCredentials \/ WaitForResourcesReadiness
  \/ GetChangedResources \/ DeleteIdSecret \/ DeletePod \/ DeleteCredentials
  \/ UserDeletesConfigMap \/ PodStarts \/ SyncConfigMap \/ UNCHANGED vars
LEMMA KindsOfSteps ==
  ASSUME [Next]_vars
  PROVE  \/ Elsewhere \/ Reconcile \/ CheckCredentialsNamespaceDrift
         \/ CheckClusterIdConfigMapDrift \/ ResolveClusterIdSecretDrift
         \/ UserEditsSecret \/ SyncSecrets \/ Crash
BY ZenonT(30) DEF Next, Worker, Elsewhere

LEMMA ElsewhereSteps ==
  ASSUME Elsewhere
  PROVE  /\ UNCHANGED <<sec, csec, cfresh, mem, fresh, managerNs, managerId>>
         /\ pc' = "idle" \/ pc # "idle"
<1>1. CASE Check \/ WaitForResourcesReadiness \/ GetChangedResources
  BY <1>1, ZenonT(30) DEF Check, WaitForResourcesReadiness, GetChangedResources, At, server, detector
<1>2. CASE DeleteStaleIdSecret \/ restartSapBtpServiceOperatorPodIfNotReady \/ DeleteIdSecret
  BY <1>2, ZenonT(30) DEF DeleteStaleIdSecret, restartSapBtpServiceOperatorPodIfNotReady,
     DeleteIdSecret, At, detector
<1>3. CASE ApplyConfigMap \/ ApplyDeployment \/ ApplyCredentials \/ DeletePod \/ DeleteCredentials
  BY <1>3, ZenonT(30) DEF ApplyConfigMap, ApplyDeployment, ApplyCredentials, DeletePod,
     DeleteCredentials, At, detector
<1>4. CASE UserDeletesConfigMap \/ PodStarts \/ SyncConfigMap \/ UNCHANGED vars
  BY <1>4, ZenonT(30) DEF UserDeletesConfigMap, PodStarts, SyncConfigMap, vars, server, cache,
     detector, worker
<1> QED BY <1>1, <1>2, <1>3, <1>4 DEF Elsewhere

\* An annotation changes neither the namespace nor the ID.
LEMMA AnnotatingSteps ==
  ASSUME \/ CheckCredentialsNamespaceDrift \/ CheckClusterIdConfigMapDrift
         \/ ResolveClusterIdSecretDrift
  PROVE  /\ UNCHANGED <<csec, managerNs, managerId>> /\ pc # "idle"
         /\ \/ UNCHANGED <<sec, cfresh, mem, fresh>>
            \/ /\ sec' = mem' /\ cfresh' = FALSE
               /\ \/ \E n : mem' = WithPreviousNamespace(n)
                  \/ \E j : mem' = WithPreviousId(j)
<1>1. CASE CheckCredentialsNamespaceDrift
  BY <1>1, ZenonT(30) DEF CheckCredentialsNamespaceDrift, annotateSecret, NothingToAnnotate, At
<1>2. CASE CheckClusterIdConfigMapDrift
  BY <1>2, ZenonT(30) DEF CheckClusterIdConfigMapDrift, annotateSecret, NothingToAnnotate, At
<1>3. CASE ResolveClusterIdSecretDrift
  BY <1>3, ZenonT(30) DEF ResolveClusterIdSecretDrift, annotateSecret, NothingToAnnotate, At
<1> QED BY <1>1, <1>2, <1>3

LEMMA CopiesKept == Copies /\ [Next]_vars => Copies'
<1> SUFFICES ASSUME Copies, [Next]_vars PROVE Copies'
  OBVIOUS
<1>1. CASE Elsewhere
  BY <1>1, ElsewhereSteps, ZenonT(30) DEF Copies
<1>2. CASE Reconcile
  BY <1>2, ZenonT(30) DEF Copies, Reconcile, At, server
<1>3. CASE \/ CheckCredentialsNamespaceDrift \/ CheckClusterIdConfigMapDrift
           \/ ResolveClusterIdSecretDrift
  BY <1>3, AnnotatingSteps, ZenonT(30) DEF Copies
<1>4. CASE UserEditsSecret
  BY <1>4, ZenonT(30) DEF Copies, UserEditsSecret
<1>5. CASE SyncSecrets \/ Crash
  BY <1>5, ZenonT(30) DEF Copies, SyncSecrets, Crash, server, worker
<1> QED BY <1>1, <1>2, <1>3, <1>4, <1>5, KindsOfSteps

LEMMA ReadsKept == Reads /\ [Next]_vars => Reads'
<1> SUFFICES ASSUME Reads, [Next]_vars PROVE Reads'
  OBVIOUS
<1>1. CASE Elsewhere
  BY <1>1, ElsewhereSteps, ZenonT(30) DEF Reads, NamespaceOf
<1>2. CASE Reconcile
  BY <1>2, ZenonT(30) DEF Reads, Reconcile, InitializeFromSecret, NamespaceOf
<1>3. CASE \/ CheckCredentialsNamespaceDrift \/ CheckClusterIdConfigMapDrift
           \/ ResolveClusterIdSecretDrift
  <2>1. mem'.ns = mem.ns /\ mem'.id = mem.id
    <3>1. \A n : WithPreviousNamespace(n).ns = mem.ns /\ WithPreviousNamespace(n).id = mem.id
      BY DEF WithPreviousNamespace
    <3>2. \A j : WithPreviousId(j).ns = mem.ns /\ WithPreviousId(j).id = mem.id
      BY DEF WithPreviousId
    <3> QED BY <1>3, <3>1, <3>2, AnnotatingSteps, ZenonT(30)
  <2> QED BY <1>3, <2>1, AnnotatingSteps, ZenonT(30) DEF Reads, NamespaceOf
<1>4. CASE UserEditsSecret
  BY <1>4, ZenonT(30) DEF Reads, UserEditsSecret, NamespaceOf, detector
<1>5. CASE SyncSecrets \/ Crash
  BY <1>5, ZenonT(30) DEF Reads, SyncSecrets, Crash, NamespaceOf, detector, worker
<1> QED BY <1>1, <1>2, <1>3, <1>4, <1>5, KindsOfSteps

LEMMA AppliedKept == IInv /\ Applied /\ [Next]_vars => Applied'
<1> SUFFICES ASSUME IInv, Applied, [Next]_vars PROVE Applied'
  OBVIOUS
<1>1. CASE \/ CheckCredentialsNamespaceDrift \/ CheckClusterIdConfigMapDrift
           \/ ResolveClusterIdSecretDrift \/ Check
  <2>1. pc' \in {"idle", "checkConfigMap", "checkIdSecret", "deleteStale", "applyConfigMap"}
    BY <1>1, ZenonT(30) DEF CheckCredentialsNamespaceDrift, CheckClusterIdConfigMapDrift,
       ResolveClusterIdSecretDrift, Check, annotateSecret, NothingToAnnotate, Ok, Fail, Abort
  <2> QED BY <2>1 DEF Applied
<1>2. CASE \/ Reconcile \/ DeleteStaleIdSecret \/ restartSapBtpServiceOperatorPodIfNotReady
           \/ ApplyConfigMap \/ ApplyDeployment \/ Crash \/ DeleteCredentials
  <2>1. pc' \in {"idle", "check", "checkNamespace", "restart", "applyConfigMap", "applyDeployment",
                "applyCredentials"}
    BY <1>2, ZenonT(30) DEF Reconcile, DeleteStaleIdSecret, restartSapBtpServiceOperatorPodIfNotReady,
       ApplyConfigMap, ApplyDeployment, Crash, DeleteCredentials, Ok, Fail, Abort, Provisioned
  <2> QED BY <2>1 DEF Applied
<1>3. CASE ApplyCredentials
  BY <1>3 DEF Applied, ApplyCredentials, At, Ok, Fail, Abort, detector
<1>4. CASE WaitForResourcesReadiness
  BY <1>4 DEF Applied, WaitForResourcesReadiness, At, Ok, Fail, Abort, detector, server
<1>5. CASE GetChangedResources
  BY <1>5 DEF Applied, GetChangedResources, At, Ok, Fail, Abort, Provisioned, detector, server
<1>6. CASE DeleteIdSecret
  BY <1>6 DEF Applied, DeleteIdSecret, At, Ok, Fail, Abort, detector
<1>7. CASE DeletePod
  BY <1>7 DEF Applied, DeletePod, At, Ok, Fail, Abort, Restarted, detector
<1>8. CASE PodStarts
  <2>1. UNCHANGED <<creds, managerNs, managerId, pc>>
    BY <1>8 DEF PodStarts, detector, worker
  <2>2. ASSUME pc = "deleteCredentials" PROVE pod'.id = managerId
    <3>1. cm = SetConfigMapValues /\ pod'.id = cm.id
      BY <1>8, <2>2 DEF PodStarts, IInv, PassKnows, AfterConfigMap
    <3> QED BY <3>1 DEF SetConfigMapValues
  <2> QED BY <2>1, <2>2 DEF Applied
<1>9. CASE UserEditsSecret \/ UserDeletesConfigMap
  BY <1>9 DEF Applied, UserEditsSecret, UserDeletesConfigMap, detector, worker
<1>10. CASE SyncSecrets \/ SyncConfigMap \/ UNCHANGED vars
  BY <1>10 DEF Applied, SyncSecrets, SyncConfigMap, vars, server, detector, worker
<1> QED BY <1>1, <1>2, <1>3, <1>4, <1>5, <1>6, <1>7, <1>8, <1>9, <1>10, ZenonT(30) DEF Next, Worker

\* Ready is set by the last step of Provision only.
LEMMA ProvisionedSteps ==
  ASSUME [Next]_vars, state # "Ready", state' = "Ready"
  PROVE  \/ GetChangedResources /\ UNCHANGED creds
              /\ ~(isCredentialsNamespaceChanged \/ isClusterIdChanged)
         \/ DeleteCredentials
              /\ (UNCHANGED creds
                    \/ (isCredentialsNamespaceChanged /\ creds' = creds \ {operatorNs}))
<1>1. CASE Reconcile \/ Check \/ WaitForResourcesReadiness \/ DeleteIdSecret \/ DeletePod
  BY <1>1, ZenonT(30) DEF Reconcile, Check, WaitForResourcesReadiness, DeleteIdSecret, DeletePod,
     Ok, Fail, Abort
<1>2. CASE \/ CheckCredentialsNamespaceDrift \/ CheckClusterIdConfigMapDrift
           \/ ResolveClusterIdSecretDrift
  BY <1>2, ZenonT(30) DEF CheckCredentialsNamespaceDrift, CheckClusterIdConfigMapDrift,
     ResolveClusterIdSecretDrift, annotateSecret, NothingToAnnotate, Ok, Fail, Abort
<1>3. CASE \/ DeleteStaleIdSecret \/ restartSapBtpServiceOperatorPodIfNotReady
           \/ ApplyConfigMap \/ ApplyDeployment \/ ApplyCredentials
  BY <1>3, ZenonT(30) DEF DeleteStaleIdSecret, restartSapBtpServiceOperatorPodIfNotReady,
     ApplyConfigMap, ApplyDeployment, ApplyCredentials, Ok, Fail, Abort
<1>4. CASE GetChangedResources
  BY <1>4, ZenonT(30) DEF GetChangedResources, server, Ok, Fail, Abort
<1>5. CASE DeleteCredentials
  BY <1>5, ZenonT(30) DEF DeleteCredentials, Fail, Abort
<1>6. CASE \/ UserEditsSecret \/ UserDeletesConfigMap \/ PodStarts \/ SyncSecrets \/ SyncConfigMap
           \/ Crash \/ UNCHANGED vars
  BY <1>6, ZenonT(30) DEF UserEditsSecret, UserDeletesConfigMap, PodStarts, SyncSecrets,
     SyncConfigMap, Crash, vars, worker
<1> QED BY <1>1, <1>2, <1>3, <1>4, <1>5, <1>6, ZenonT(30) DEF Next, Worker

(* The state Ready is set only when the operand is configured as the copy   *)
(* of the required Secret asks that the pass has read, whatever fails,      *)
(* restarts or lags: by the order of the requests in Provision and          *)
(* DeleteChangedResources.                                                  *)
THEOREM ReadyIsConfigured == Spec => ReadyMeansConfigured
<1> DEFINE Inv == IInv /\ Copies /\ Reads /\ Applied
<1>1. Init => Copies /\ Reads /\ Applied
  BY ZenonT(30) DEF Init, Copies, Reads, Applied
<1>2. ASSUME Inv, Flags, [Next]_vars, state # "Ready", state' = "Ready", fresh
      PROVE  /\ cm \in {Requested, NoConfig} /\ Requested.ns \in creds'
             /\ (isCredentialsNamespaceChanged \/ isClusterIdChanged) /\ pod.phase = "ready"
                  => pod.ns = Requested.ns /\ pod.id = Requested.id
  <2>1. /\ pc \in {"getChanged", "deleteCredentials"}
        /\ pc = "getChanged" => ~(isCredentialsNamespaceChanged \/ isClusterIdChanged)
    BY <1>2, ProvisionedSteps, ZenonT(30) DEF GetChangedResources, DeleteCredentials, At
  <2>2. mem = sec
    <3>1. fresh = TRUE
      BY <1>2, ZenonT(30) DEF Flags
    <3> QED BY <1>2, <3>1, ZenonT(30) DEF Copies
  <2>3. Requested = SetConfigMapValues
    BY <1>2, <2>1, <2>2 DEF Reads, Requested, SetConfigMapValues
  <2>4. Requested.ns = managerNs /\ Requested.id = managerId
    BY <2>3 DEF SetConfigMapValues
  <2>5. cm \in {Requested, NoConfig}
    BY <1>2, <2>1, <2>3 DEF IInv, PassKnows, AfterConfigMap
  <2>6. managerNs \in creds
    BY <1>2, <2>1 DEF Applied
  <2>7. managerNs \in creds'
    BY <1>2, <2>6, ProvisionedSteps, ZenonT(30) DEF isCredentialsNamespaceChanged
  <2>8. pc = "deleteCredentials" /\ pod.phase = "ready" => pod.ns = managerNs /\ pod.id = managerId
    BY <1>2 DEF IInv, PassKnows, Applied
  <2> QED BY <2>1, <2>4, <2>5, <2>7, <2>8, ZenonT(30)
<1>3. Inv /\ Flags /\ [Next]_vars =>
        (state # "Ready" /\ state' = "Ready" /\ fresh =>
           /\ cm \in {Requested, NoConfig} /\ Requested.ns \in creds'
           /\ (isCredentialsNamespaceChanged \/ isClusterIdChanged) /\ pod.phase = "ready"
                => pod.ns = Requested.ns /\ pod.id = Requested.id)
  BY <1>2, ZenonT(30)
<1>4. Spec => []IInv
  BY Inductive
<1>5. TypeOK => Flags
  BY ZenonT(30) DEF TypeOK, Flags
<1> QED BY <1>1, <1>3, <1>4, <1>5, TypeCorrect, CopiesKept, ReadsKept, AppliedKept, PTL
     DEF Spec, ReadyMeansConfigured
=============================================================================
