-------------------------- MODULE CredentialsDrift --------------------------
(***************************************************************************)
(* How a change of the required Secret's credentials_namespace or          *)
(* cluster_id reaches the operand: internal/credentials/drift/detector.go, *)
(* internal/configurator/configurator.go and the order in which            *)
(* internal/provisioning/handler.go calls them.                            *)
(*                                                                         *)
(* One step is one request to the API server. The worker reads the         *)
(* required Secret, the list of credentials Secrets and the ConfigMap from *)
(* the informer cache, everything else from the API server.                *)
(*                                                                         *)
(* Left out: the other resources of a pass and the outdated ones, whose    *)
(* requests can only fail here, and the status updates                     *)
(* (BtpOperatorReconciler). A synchronisation brings a cache to the        *)
(* present state.                                                          *)
(***************************************************************************)
EXTENDS Naturals

CONSTANTS
  Namespaces,
  First(_),       \* the first of a set of namespaces in the order of names
  ChartNamespace, \* config.ChartNamespace, where the operand runs
  Ids,            \* cluster IDs
  PromptCaches,   \* a pass starts only when the informers have delivered all
  MaxEdits,       \* bound: changes by the user
  MaxFails,       \* bound: requests that fail
  MaxCrashes      \* bound: restarts of the manager

None == 0 \* an absent object, an unset field, the empty string

ASSUME DriftAssumption ==
  /\ Namespaces \subseteq Nat \ {None} /\ ChartNamespace \in Namespaces
  /\ \A S \in SUBSET Namespaces : S # {} => First(S) \in S
  /\ Ids \subseteq Nat \ {None} /\ Ids # {}
  /\ PromptCaches \in BOOLEAN
  /\ MaxEdits \in Nat /\ MaxFails \in Nat /\ MaxCrashes \in Nat

VARIABLES
  \* ---- the API server
  sec,       \* the required Secret: its data and its two annotations
  creds,     \* namespaces that hold a sap-btp-service-operator Secret
  idSecrets, \* the cluster ID in each namespace's sap-btp-operator-clusterid
  cm,        \* the ConfigMap sap-btp-operator-config
  pod,       \* the operand's Pod: the configuration it started with, its phase
  \* ---- the informer cache
  csec, cfresh, \* the required Secret, and whether it is the latest version
  ccreds, ccm,
  \* ---- DriftDetector
  previousNs, managerId, configMapId, idSecretId, managerNs, operatorNs,
  \* ---- the reconcile worker
  state,     \* the CR's state
  pc,        \* the next request
  mem, fresh,\* the Secret read by this pass, and whether it is the latest
  found,     \* what DeleteChangedResources found
  \* ---- bounds
  edits, fails, crashes

server   == <<sec, creds, idSecrets, cm, pod>>
cache    == <<csec, cfresh, ccreds, ccm>>
detector == <<previousNs, managerId, configMapId, idSecretId, managerNs, operatorNs>>
worker   == <<state, pc, mem, fresh, found>>
vars     == <<server, cache, detector, worker, edits, fails, crashes>>

Secrets == [ns : Namespaces \cup {None}, id : Ids,
            prevNs : Namespaces \cup {None}, prevId : Ids \cup {None}]
Configs == [ns : Namespaces, id : Ids] \cup {[ns |-> None, id |-> None]}
NoConfig == [ns |-> None, id |-> None]
Pods == [ns : Namespaces \cup {None}, id : Ids \cup {None},
         phase : {"undeployed", "starting", "ready", "notReady"}]
Steps == {"idle", "check", "checkNamespace", "checkConfigMap", "checkIdSecret",
          "deleteStale", "restart", "applyConfigMap", "applyDeployment", "applyCredentials",
          "wait", "getChanged", "deleteId", "deletePod", "deleteCredentials"}

TypeOK ==
  /\ sec \in Secrets /\ csec \in Secrets /\ mem \in Secrets
  /\ creds \subseteq Namespaces /\ ccreds \subseteq Namespaces
  /\ idSecrets \in [Namespaces -> Ids \cup {None}]
  /\ cm \in Configs /\ ccm \in Configs /\ pod \in Pods
  /\ previousNs \in Namespaces \cup {None}
  /\ managerNs \in Namespaces \cup {None} /\ operatorNs \in Namespaces \cup {None}
  /\ managerId \in Ids \cup {None} /\ configMapId \in Ids \cup {None}
  /\ idSecretId \in Ids \cup {None}
  /\ state \in {"Processing", "Ready", "Error"} /\ pc \in Steps
  /\ cfresh \in BOOLEAN /\ fresh \in BOOLEAN
  /\ found \subseteq {"id", "credentials"}
  /\ edits \in Nat /\ fails \in Nat /\ crashes \in Nat

\* The default of credentials_namespace is the chart namespace.
NamespaceOf(s) == IF s.ns = None THEN ChartNamespace ELSE s.ns

\* A new CR: the operand is not installed, the required Secret is in place.
Init ==
  /\ sec \in {s \in Secrets : s.prevNs = None /\ s.prevId = None}
  /\ creds = {} /\ idSecrets = [n \in Namespaces |-> None] /\ cm = NoConfig
  /\ pod = [ns |-> None, id |-> None, phase |-> "undeployed"]
  /\ csec = sec /\ cfresh = TRUE /\ ccreds = {} /\ ccm = NoConfig
  /\ previousNs = None /\ managerId = None /\ configMapId = None /\ idSecretId = None
  /\ managerNs = None /\ operatorNs = None
  /\ state = "Processing" /\ pc = "idle" /\ mem = sec /\ fresh = TRUE /\ found = {}
  /\ edits = 0 /\ fails = 0 /\ crashes = 0

Restarted == [ns |-> pod.ns, id |-> pod.id, phase |-> "starting"]
At(p) == pc = p /\ UNCHANGED <<edits, crashes, csec, ccreds, ccm>>
Ok(next) == pc' = next /\ UNCHANGED <<state, fails>>
\* Every error of a pass ends it with the state Error; the queue retries it.
Abort == pc' = "idle" /\ state' = "Error"
Fail == fails < MaxFails /\ fails' = fails + 1 /\ Abort
-----------------------------------------------------------------------------
(* A pass reads the required Secret and starts the detector from it.        *)
InitializeFromSecret(s) ==
  /\ managerNs' = NamespaceOf(s) /\ operatorNs' = NamespaceOf(s)
  /\ managerId' = s.id /\ previousNs' = s.prevNs
  /\ UNCHANGED <<configMapId, idSecretId>>

Reconcile ==
  /\ At("idle")
  /\ PromptCaches => cfresh /\ ccreds = creds /\ ccm = cm
  /\ mem' = csec /\ fresh' = cfresh
  /\ InitializeFromSecret(csec)
  /\ Ok(IF state = "Ready" THEN "check" ELSE "checkNamespace")
  /\ UNCHANGED <<server, cfresh, found>>

\* Mutant: the previous namespace is not preferred.
LowestCredentialsSecret ==
  IF ccreds = {} THEN None ELSE First(ccreds)
\* The credentials Secret of the annotated previous namespace, or else the
\* first one in the order of namespaces; None without any.
GetDefaultCredentialsSecret ==
  IF ccreds = {} THEN None
  ELSE IF previousNs \in ccreds THEN previousNs
  ELSE First(ccreds)

NamespaceChanged == GetDefaultCredentialsSecret \notin {None, managerNs}
ConfigMapChanged == ccm # NoConfig /\ ccm.id # managerId

(* HandleReadyState: a drift is left to a Processing pass.                  *)
Check ==
  /\ At("check")
  /\ UNCHANGED <<server, cfresh, detector, mem, fresh, found, fails>>
  /\ IF NamespaceChanged \/ ConfigMapChanged
     THEN pc' = "idle" /\ state' = "Processing"
     ELSE Ok("applyConfigMap")

WithPreviousNamespace(n) == [ns |-> mem.ns, id |-> mem.id, prevNs |-> n, prevId |-> mem.prevId]
WithPreviousId(i) == [ns |-> mem.ns, id |-> mem.id, prevNs |-> mem.prevNs, prevId |-> i]
\* The annotation is set on the in-memory Secret and sent with its
\* resourceVersion; a value that is already there is not sent.
annotateSecret(s, next) ==
  \/ s = mem /\ Ok(next) /\ UNCHANGED <<sec, cfresh, mem, fresh>>
  \/ s # mem /\ fresh /\ Ok(next) /\ sec' = s /\ mem' = s /\ cfresh' = FALSE /\ UNCHANGED fresh
  \/ s # mem /\ ~fresh /\ Abort /\ UNCHANGED <<sec, cfresh, mem, fresh, fails>>
  \/ s # mem /\ Fail /\ UNCHANGED <<sec, cfresh, mem, fresh>>
NothingToAnnotate(next) == Ok(next) /\ UNCHANGED <<sec, cfresh, mem, fresh>>

CheckCredentialsNamespaceDrift ==
  /\ At("checkNamespace")
  /\ operatorNs' = IF ccreds = {} THEN operatorNs ELSE GetDefaultCredentialsSecret
  /\ IF NamespaceChanged
     THEN annotateSecret(WithPreviousNamespace(GetDefaultCredentialsSecret), "checkConfigMap")
     ELSE NothingToAnnotate("checkConfigMap")
  /\ UNCHANGED <<creds, idSecrets, cm, pod, found,
                 previousNs, managerId, configMapId, idSecretId, managerNs>>

\* Without a ConfigMap the detector keeps the IDs of an earlier pass.
CheckClusterIdConfigMapDrift ==
  /\ At("checkConfigMap")
  /\ configMapId' = IF ccm = NoConfig THEN configMapId ELSE ccm.id
  /\ idSecretId' = IF ccm = NoConfig THEN idSecretId ELSE ccm.id
  /\ IF ConfigMapChanged
     THEN annotateSecret(WithPreviousId(ccm.id), "checkIdSecret")
     ELSE NothingToAnnotate("checkIdSecret")
  /\ UNCHANGED <<creds, idSecrets, cm, pod, found,
                 previousNs, managerId, managerNs, operatorNs>>

(* ResolveClusterIdSecretDrift: a cluster-ID Secret that disagrees with the  *)
(* ConfigMap is deleted, and the Pod restarted if it is not ready.           *)
ResolveClusterIdSecretDrift ==
  /\ At("checkIdSecret")
  /\ \/ Fail /\ UNCHANGED <<sec, cfresh, mem, fresh, idSecretId>>
     \/ /\ idSecretId' = IF idSecrets[operatorNs] = None THEN idSecretId ELSE idSecrets[operatorNs]
        /\ IF idSecrets[operatorNs] \notin {None, configMapId}
           THEN annotateSecret(WithPreviousId(idSecrets[operatorNs]), "deleteStale")
           ELSE NothingToAnnotate("applyConfigMap")
  /\ UNCHANGED <<creds, idSecrets, cm, pod, found,
                 previousNs, managerId, configMapId, managerNs, operatorNs>>

DeleteStaleIdSecret ==
  /\ At("deleteStale")
  /\ \/ Fail /\ UNCHANGED idSecrets
     \/ Ok("restart") /\ idSecrets' = [idSecrets EXCEPT ![operatorNs] = None]
  /\ UNCHANGED <<sec, creds, cm, pod, cfresh, detector, mem, fresh, found>>

restartSapBtpServiceOperatorPodIfNotReady ==
  /\ At("restart")
  /\ \/ Fail /\ UNCHANGED pod
     \/ /\ Ok("applyConfigMap")
        /\ pod' = IF pod.phase = "notReady" THEN Restarted ELSE pod
  /\ UNCHANGED <<sec, creds, idSecrets, cm, cfresh, detector, mem, fresh, found>>
-----------------------------------------------------------------------------
(* reconcileResources: the ConfigMap, the Deployment and the credentials     *)
(* Secret are applied in the order of their manifests.                       *)
\* Mutant: the namespace that holds the credentials is kept.
SetFoundNamespace == [ns |-> operatorNs, id |-> managerId]
SetConfigMapValues == [ns |-> managerNs, id |-> managerId]
ApplyConfigMap ==
  /\ At("applyConfigMap")
  /\ \/ Fail /\ UNCHANGED cm
     \/ Ok("applyDeployment") /\ cm' = SetConfigMapValues
  /\ UNCHANGED <<sec, creds, idSecrets, pod, cfresh, detector, mem, fresh, found>>

ApplyDeployment ==
  /\ At("applyDeployment")
  /\ \/ Fail /\ UNCHANGED pod
     \/ /\ Ok("applyCredentials")
        /\ pod' = IF pod.phase = "undeployed" THEN Restarted ELSE pod
  /\ UNCHANGED <<sec, creds, idSecrets, cm, cfresh, detector, mem, fresh, found>>

ApplyCredentials ==
  /\ At("applyCredentials")
  /\ \/ Fail /\ UNCHANGED creds
     \/ Ok("wait") /\ creds' = creds \cup {managerNs}
  /\ UNCHANGED <<sec, idSecrets, cm, pod, cfresh, detector, mem, fresh, found>>

\* The Deployment's conditions follow its Pod; right after a restart they may
\* still be those of the Pod before. A Pod that is not ready runs into the
\* timeout.
WaitForResourcesReadiness ==
  /\ At("wait")
  /\ \/ pod.phase # "notReady" /\ Ok(IF state = "Ready" THEN "idle" ELSE "getChanged")
     \/ pod.phase # "ready" /\ Abort /\ UNCHANGED fails
     \/ Fail
  /\ UNCHANGED <<server, cfresh, detector, mem, fresh, found>>
-----------------------------------------------------------------------------
(* DeleteChangedResources                                                    *)
isCredentialsNamespaceChanged == operatorNs # None /\ managerNs # operatorNs
\* Mutant: only the operand's own two copies are compared.
isStoredIdChanged == configMapId # None /\ configMapId # idSecretId
isClusterIdChanged ==
  configMapId # None /\ (managerId # configMapId \/ configMapId # idSecretId)

\* Provision returns without an error and the CR becomes Ready.
Provisioned == pc' = "idle" /\ state' = "Ready" /\ UNCHANGED fails

GetChangedResources ==
  /\ At("getChanged")
  /\ \/ Fail /\ UNCHANGED found
     \/ /\ found' = {x \in {"id", "credentials"} :
                       IF x = "id" THEN idSecrets[operatorNs] # None ELSE operatorNs \in creds}
        /\ IF isCredentialsNamespaceChanged \/ isClusterIdChanged THEN Ok("deleteId") ELSE Provisioned
  /\ UNCHANGED <<server, cfresh, detector, mem, fresh>>

DeleteIdSecret ==
  /\ At("deleteId")
  /\ \/ Fail /\ UNCHANGED idSecrets
     \/ /\ Ok("deletePod")
        /\ idSecrets' = IF "id" \in found THEN [idSecrets EXCEPT ![operatorNs] = None] ELSE idSecrets
  /\ UNCHANGED <<sec, creds, cm, pod, cfresh, detector, mem, fresh, found>>

\* Mutant: the Pod is left to notice the change by itself.
LeavePod ==
  /\ At("deletePod") /\ Ok("deleteCredentials")
  /\ UNCHANGED <<server, cfresh, detector, mem, fresh, found>>
DeletePod ==
  /\ At("deletePod")
  /\ \/ Fail /\ UNCHANGED pod
     \/ Ok("deleteCredentials") /\ pod' = Restarted
  /\ UNCHANGED <<sec, creds, idSecrets, cm, cfresh, detector, mem, fresh, found>>

DeleteCredentials ==
  /\ At("deleteCredentials")
  /\ \/ Fail /\ UNCHANGED creds
     \/ /\ Provisioned
        /\ creds' = IF isCredentialsNamespaceChanged /\ "credentials" \in found
                    THEN creds \ {operatorNs} ELSE creds
  /\ UNCHANGED <<sec, idSecrets, cm, pod, cfresh, detector, mem, fresh, found>>
-----------------------------------------------------------------------------
(* The environment.                                                          *)
Edit == edits < MaxEdits /\ edits' = edits + 1 /\ UNCHANGED <<fails, crashes>>

\* One key at a time: a patch of both is two edits in a row.
UserEditsSecret ==
  /\ Edit
  /\ \E n \in Namespaces \cup {None}, i \in Ids :
       /\ (n # sec.ns /\ i = sec.id) \/ (n = sec.ns /\ i # sec.id)
       /\ sec' = [ns |-> n, id |-> i, prevNs |-> sec.prevNs, prevId |-> sec.prevId]
  /\ cfresh' = FALSE /\ fresh' = FALSE
  /\ UNCHANGED <<creds, idSecrets, cm, pod, csec, ccreds, ccm, detector, state, pc, mem, found>>

UserDeletesConfigMap ==
  /\ Edit /\ cm # NoConfig /\ cm' = NoConfig
  /\ UNCHANGED <<sec, creds, idSecrets, pod, cache, detector, worker>>

\* The operand reads the ConfigMap when it starts; without it the container
\* is not created. It refuses to start with a cluster ID other than the one in
\* the Secret it loads from its own namespace, and stores its ID if none is
\* stored in the release namespace. The kubelet restarts a failed container.
PodStarts ==
  /\ pod.phase \in {"starting", "notReady"} /\ cm # NoConfig
  /\ IF idSecrets[ChartNamespace] \in {None, cm.id}
     THEN /\ pod' = [ns |-> cm.ns, id |-> cm.id, phase |-> "ready"]
          /\ idSecrets' = [idSecrets EXCEPT ![cm.ns] = IF idSecrets[cm.ns] = None THEN cm.id ELSE idSecrets[cm.ns]]
     ELSE /\ pod' = [ns |-> cm.ns, id |-> cm.id, phase |-> "notReady"]
          /\ UNCHANGED idSecrets
  /\ UNCHANGED <<sec, creds, cm, cache, detector, worker, edits, fails, crashes>>

SyncSecrets ==
  /\ csec' = sec /\ cfresh' = TRUE /\ ccreds' = creds
  /\ UNCHANGED <<server, ccm, detector, worker, edits, fails, crashes>>
SyncConfigMap ==
  /\ ccm' = cm
  /\ UNCHANGED <<server, csec, cfresh, ccreds, detector, worker, edits, fails, crashes>>

\* A restart loses the detector's fields and fills the cache anew.
Crash ==
  /\ crashes < MaxCrashes /\ crashes' = crashes + 1
  /\ pc' = "idle" /\ csec' = sec /\ cfresh' = TRUE /\ ccreds' = creds /\ ccm' = cm
  /\ previousNs' = None /\ managerId' = None /\ configMapId' = None /\ idSecretId' = None
  /\ managerNs' = None /\ operatorNs' = None
  /\ UNCHANGED <<server, state, mem, fresh, found, edits, fails>>

Worker ==
  \/ Reconcile \/ Check \/ CheckCredentialsNamespaceDrift \/ CheckClusterIdConfigMapDrift
  \/ ResolveClusterIdSecretDrift \/ DeleteStaleIdSecret
  \/ restartSapBtpServiceOperatorPodIfNotReady
  \/ ApplyConfigMap \/ ApplyDeployment \/ ApplyCredentials \/ WaitForResourcesReadiness
  \/ GetChangedResources \/ DeleteIdSecret \/ DeletePod \/ DeleteCredentials
Next ==
  \/ Worker \/ UserEditsSecret \/ UserDeletesConfigMap
  \/ PodStarts \/ SyncSecrets \/ SyncConfigMap \/ Crash
Spec == Init /\ [][Next]_vars
\* The queue and the timers bring the CR back for ever, the kubelet starts
\* what is to be started, the informers deliver.
FairSpec ==
  /\ Spec /\ WF_vars(Worker) /\ WF_vars(PodStarts)
  /\ WF_vars(SyncSecrets) /\ WF_vars(SyncConfigMap)
-----------------------------------------------------------------------------
(* DeleteChangedResources never removes a credentials Secret that the       *)
(* operand is configured to use: not the one of the namespace the ConfigMap  *)
(* names, and not the one a running Pod started with.                        *)
CredentialsInUseStay ==
  [][\A n \in creds \ creds' : cm.ns # n /\ ~(pod.phase = "ready" /\ pod.ns = n)]_vars

Requested == [ns |-> NamespaceOf(sec), id |-> sec.id]
(* The state Ready is not set too early: unless the user changed the Secret  *)
(* after the copy of it that the pass has read, the ConfigMap holds what the *)
(* Secret asks for (or a user deleted it), the credentials Secret is in the  *)
(* requested namespace, and after a detected change no Pod that started with *)
(* an older configuration is ready (Provision, DeleteChangedResources). The  *)
(* caches of the ConfigMap and of the credentials may lag without bound.     *)
ReadyMeansConfigured ==
  [][state # "Ready" /\ state' = "Ready" /\ fresh =>
       /\ cm \in {Requested, NoConfig} /\ Requested.ns \in creds'
       /\ (isCredentialsNamespaceChanged \/ isClusterIdChanged) /\ pod.phase = "ready"
            => pod.ns = Requested.ns /\ pod.id = Requested.id]_vars

Moved == creds = {NamespaceOf(sec)}
Agrees == Moved /\ pod.phase = "ready" /\ pod.ns = NamespaceOf(sec)
(* CheckCredentialsNamespaceDrift and DeleteChangedResources, after one      *)
(* change: the credentials Secret ends up in the requested namespace and     *)
(* only there, in spite of failures and a restart, and an operand that once  *)
(* ran with it follows it. A second change may come while the first is half  *)
(* done and hide it (DefaultNamespaceIsCleared).                             *)
NamespaceTakesOver == <>[]Moved /\ (<>Agrees => <>[]Agrees)

RunsWithId == pod.phase = "ready" /\ pod.id = sec.id
(* CheckClusterIdConfigMapDrift and DeleteChangedResources, after one        *)
(* change: the operand ends up running with the requested cluster ID, as     *)
(* long as no request fails, the manager is not restarted and no pass starts *)
(* before the caches hold what was written (PromptCaches).                   *)
ClusterIdTakesOver == <>[](fails = 0 /\ crashes = 0 => RunsWithId)

(* A new cluster ID overrides the old one, failures or not.                  *)
ClusterIdOverridden == <>[]RunsWithId

(* A credentials Secret does not stay in the default namespace when another  *)
(* namespace is requested.                                                   *)
DefaultNamespaceIsCleared ==
  <>[](NamespaceOf(sec) # ChartNamespace => ChartNamespace \notin creds)
=============================================================================
