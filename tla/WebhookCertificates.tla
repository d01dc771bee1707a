------------------------ MODULE WebhookCertificates ------------------------
(***************************************************************************)
(* The certificates of the operand's admission webhooks                    *)
(* (internal/webhook/certificate/manager.go, internal/certs/certs.go): the *)
(* Secret ca-server-cert, the Secret webhook-server-cert and the CA        *)
(* bundles of the webhook configurations, kept in step by passes of the    *)
(* reconcile worker that the watches of controllers/btpoperator_           *)
(* controller.go and the timer start.                                      *)
(*                                                                         *)
(* A pass reads both Secrets from the informer cache, decides what to      *)
(* generate, and writes each object by a request of its own. Keys and      *)
(* X.509 are abstract: a CA is a number, a certificate names its signer, a *)
(* key is one that matches, one that does not, or empty.                   *)
(***************************************************************************)
EXTENDS Naturals

CONSTANTS
  MaxStale,     \* bound: passes that start before an event of a Secret arrives
  MaxRegens,    \* bound: regenerations
  MaxEdits,     \* bound: changes by users and certificates that get old
  MaxFaults     \* bound: requests that fail and restarts of the manager

None == 0   \* no Secret, no webhook configuration
Junk == 1   \* something that is not a certificate
Foreign == 2 \* a CA of a user; the CAs generated here have greater numbers

ASSUME CertificatesAssumption ==
  {MaxStale, MaxRegens, MaxEdits, MaxFaults} \subseteq Nat

VARIABLES
  \* ---- the API server
  ca,       \* ca-server-cert: the CA, its key and its age
  wh,       \* webhook-server-cert: the signer of its certificate, key, age
  bundles,  \* the CA in the bundles of every webhook configuration
  state,    \* the state of the CR
  \* ---- the manager
  cca, cwh, \* the two Secrets in the informer cache
  pend,     \* objects with an event that is not delivered yet
  queue,    \* the work queue
  pc,       \* the worker's next step
  seen,     \* the CA Secret read by this pass
  newCa, newWh, bundle, \* what this pass writes
  gen,      \* the last CA that was generated
  regens,   \* the metric btpmanager_certs_regenerations_total
  \* ---- history and bounds
  stale,    \* passes that started before an event of a Secret arrived
  edits, fails, crashes

server == <<ca, wh, bundles>>
plan   == <<newCa, newWh, bundle>>
counts == <<gen, regens, stale, edits, fails, crashes>>
vars   == <<server, state, cca, cwh, pend, queue, pc, seen, plan, counts>>

Webhooks == {"mutating", "validating"}
Objects == {"ca", "wh"} \cup Webhooks
Keys == {"good", "junk", "empty"}
Secrets == [crt : Nat, key : Keys, age : {"valid", "expiring"}]
Absent == [crt |-> None, key |-> "empty", age |-> "valid"]
Fresh(g) == [crt |-> g, key |-> "good", age |-> "valid"]

TypeOK ==
  /\ ca \in Secrets /\ wh \in Secrets /\ cca \in Secrets /\ cwh \in Secrets
  /\ seen \in Secrets /\ newCa \in Secrets /\ newWh \in Secrets
  /\ bundles \in [Webhooks -> Nat] /\ bundle \in Nat
  /\ state \in {"Processing", "Ready", "Error"} /\ pend \subseteq Objects /\ queue \subseteq {"cr"}
  /\ pc \in {"idle", "readWh", "applyCa", "applyWh", "mutating", "validating"}
  /\ gen \in Nat /\ regens \in Nat /\ stale \in Nat
  /\ edits \in Nat /\ fails \in Nat /\ crashes \in Nat

\* Nothing is installed; the CR is new.
Init ==
  /\ ca = Absent /\ wh = Absent /\ bundles = [w \in Webhooks |-> None]
  /\ state = "Processing" /\ cca = Absent /\ cwh = Absent /\ pend = {} /\ queue = {"cr"}
  /\ pc = "idle" /\ seen = Absent /\ newCa = Absent /\ newWh = Absent /\ bundle = None
  /\ gen = Foreign /\ regens = 0 /\ stale = 0 /\ edits = 0 /\ fails = 0 /\ crashes = 0
-----------------------------------------------------------------------------
(* The decision of PrepareAdmissionWebhooks.                                *)

\* Mutant: an empty key is taken for a key.
validateParsed(s) == s.crt \notin {None, Junk} /\ s.age = "valid"
\* A certificate that parses and does not expire soon, and a key that is not
\* empty; the key is not looked at any further.
validateCert(s) == s.crt \notin {None, Junk} /\ s.key # "empty" /\ s.age = "valid"

\* A certificate names its signer.
VerifyIfLeafIsSignedByGivenCA(caSecret, leaf) == leaf.crt = caSecret.crt

Return == pc' = "idle" /\ seen' = Absent /\ newCa' = Absent /\ newWh' = Absent /\ bundle' = None
\* A pass that fails puts the CR into the state Error, an event that the watch
\* of the CR drops: nothing is queued, the RequeueAfter is all that is left.
GiveUp ==
  /\ Return /\ state' = "Error" /\ UNCHANGED <<ca, wh, bundles, pend, queue, gen, regens, stale>>
Fail == fails + crashes < MaxFaults /\ fails' = fails + 1 /\ GiveUp
\* A pass that ends well shows Ready; the event of a change comes back.
Finish == Return /\ state' = "Ready" /\ queue' = (IF state = "Ready" THEN queue ELSE {"cr"})
Own == UNCHANGED <<cca, cwh, edits, crashes>>

IncrementCertsRegenerationCounter == regens < MaxRegens /\ regens' = regens + 1

\* Mutant: the certificate is signed by the CA before.
regenerateWithOldSigner ==
  /\ gen' = gen + 1 /\ IncrementCertsRegenerationCounter
  /\ newCa' = Fresh(gen + 1) /\ newWh' = Fresh(gen) /\ bundle' = gen + 1
  /\ pc' = "applyCa"
\* A new CA, a certificate signed by it, and its bundles.
regenerateCertificates ==
  /\ gen' = gen + 1 /\ IncrementCertsRegenerationCounter
  /\ newCa' = Fresh(gen + 1) /\ newWh' = Fresh(gen + 1) /\ bundle' = gen + 1
  /\ pc' = "applyCa"

\* A certificate signed with the key in the CA Secret, as this pass read it.
regenerateWebhookCertificate ==
  /\ seen.key = "good" /\ IncrementCertsRegenerationCounter
  /\ newWh' = Fresh(seen.crt) /\ bundle' = seen.crt
  /\ pc' = "applyWh" /\ UNCHANGED <<gen, newCa>>

\* Nothing is to be generated: the webhooks get the bundle of the CA.
prepareWebhooksManifests ==
  bundle' = seen.crt /\ pc' = "mutating" /\ UNCHANGED <<newCa, newWh, gen, regens>>

(* In the state Error a pass only goes back to Processing; that event       *)
(* brings the next one.                                                     *)
HandleErrorState ==
  /\ pc = "idle" /\ queue # {} /\ state = "Error"
  /\ state' = "Processing" /\ queue' = {"cr"}
  /\ UNCHANGED <<server, cca, cwh, pend, pc, seen, plan, counts>>

\* The cache may not show a Secret as it is.
Behind == {"ca", "wh"} \cap pend # {}

(* The CA Secret is read and checked.                                       *)
ReadCa ==
  /\ pc = "idle" /\ queue # {} /\ state # "Error"
  /\ \/ ~Behind /\ UNCHANGED stale
     \/ Behind /\ stale < MaxStale /\ stale' = stale + 1
  /\ queue' = {} /\ seen' = cca
  /\ IF validateCert(cca)
     THEN pc' = "readWh" /\ UNCHANGED <<plan, gen, regens>>
     ELSE regenerateCertificates
  /\ UNCHANGED <<server, state, pend, fails>> /\ Own

(* The webhook's Secret is read and checked against the CA read before. A   *)
(* key of the CA that does not fit makes the signature fail.                *)
ReadWh ==
  /\ pc = "readWh"
  /\ \/ ~validateCert(cwh) /\ regenerateWebhookCertificate /\ UNCHANGED <<seen, state, queue>>
     \/ ~validateCert(cwh) /\ seen.key # "good" /\ GiveUp
     \/ /\ validateCert(cwh) /\ ~VerifyIfLeafIsSignedByGivenCA(seen, cwh)
        /\ regenerateCertificates /\ UNCHANGED <<seen, state, queue>>
     \/ /\ validateCert(cwh) /\ VerifyIfLeafIsSignedByGivenCA(seen, cwh)
        /\ prepareWebhooksManifests /\ UNCHANGED <<seen, state, queue>>
  /\ UNCHANGED <<server, pend, stale, fails>> /\ Own
-----------------------------------------------------------------------------
(* ApplyOrUpdateResources, one object after the other.                      *)
Applied == UNCHANGED <<gen, regens, stale, fails>>
Then(next) == pc' = next /\ UNCHANGED <<state, queue, seen, plan>>

WriteCa ==
  /\ ca' = newCa /\ pend' = pend \cup {"ca"} /\ Then("applyWh") /\ Applied
  /\ UNCHANGED <<wh, bundles>>
WriteWh ==
  /\ wh' = newWh /\ pend' = pend \cup {"wh"} /\ Then("mutating") /\ Applied
  /\ UNCHANGED <<ca, bundles>>
\* Only a change of the bundles passes the predicates of the webhook watches.
WriteWebhook(w) ==
  /\ bundles' = [bundles EXCEPT ![w] = bundle] /\ UNCHANGED <<ca, wh>>
  /\ pend' = (IF bundles[w] = bundle THEN pend ELSE pend \cup {w})
  /\ Applied
WriteMutating == WriteWebhook("mutating") /\ Then("validating")
WriteValidating == WriteWebhook("validating") /\ Finish

ApplyCa == pc = "applyCa" /\ (Fail \/ WriteCa) /\ Own
ApplyWh == pc = "applyWh" /\ (Fail \/ WriteWh) /\ Own
ApplyMutating == pc = "mutating" /\ (Fail \/ WriteMutating) /\ Own
ApplyValidating == pc = "validating" /\ (Fail \/ WriteValidating) /\ Own
-----------------------------------------------------------------------------
(* The environment.                                                         *)
Edit == edits < MaxEdits /\ edits' = edits + 1
        /\ UNCHANGED <<state, cca, cwh, queue, pc, seen, plan, gen, regens, stale, fails, crashes>>

\* A user deletes a Secret, spoils its certificate, puts a valid one in its
\* place, with the key that belongs to it, or changes the key alone.
Edited(s) ==
  {Absent, [crt |-> Junk, key |-> s.key, age |-> s.age], Fresh(Foreign)}
  \cup {[crt |-> s.crt, key |-> k, age |-> s.age] : k \in Keys \ {s.key}}
UserEditsCa ==
  /\ Edit /\ ca.crt # None /\ ca' \in Edited(ca) /\ pend' = pend \cup {"ca"}
  /\ UNCHANGED <<wh, bundles>>
UserEditsWh ==
  /\ Edit /\ wh.crt # None /\ wh' \in Edited(wh) /\ pend' = pend \cup {"wh"}
  /\ UNCHANGED <<ca, bundles>>
UserEditsWebhook ==
  /\ Edit /\ \E w \in Webhooks, b \in {None, Foreign} :
       /\ bundles[w] \notin {None, b} /\ bundles' = [bundles EXCEPT ![w] = b]
       /\ pend' = pend \cup {w}
  /\ UNCHANGED <<ca, wh>>

\* A certificate comes within ExpirationBoundary of its end. Nothing is
\* written, no event is sent: both copies of the Secret get old.
Aged(s) == [crt |-> s.crt, key |-> s.key, age |-> "expiring"]
Expires ==
  /\ edits < MaxEdits /\ edits' = edits + 1
  /\ \/ /\ ca.crt # None /\ ca.age = "valid" /\ ca' = Aged(ca)
        /\ cca' = (IF cca.crt = ca.crt THEN Aged(cca) ELSE cca) /\ UNCHANGED <<wh, cwh>>
     \/ /\ wh.crt # None /\ wh.age = "valid" /\ wh' = Aged(wh)
        /\ cwh' = (IF cwh.crt = wh.crt THEN Aged(cwh) ELSE cwh) /\ UNCHANGED <<ca, cca>>
  /\ UNCHANGED <<bundles, state, pend, queue, pc, seen, plan, gen, regens, stale, fails, crashes>>

\* Mutant: changes of the Secrets do not wake the reconciler.
DeliverWebhooksOnly(o) ==
  /\ o \in pend /\ pend' = pend \ {o} /\ queue' = (IF o \in Webhooks THEN {"cr"} ELSE queue)
  /\ cca' = (IF o = "ca" THEN ca ELSE cca) /\ cwh' = (IF o = "wh" THEN wh ELSE cwh)
  /\ UNCHANGED <<server, state, pc, seen, plan, counts>>
\* The watches of Secrets and webhook configurations wake the reconciler.
Deliver(o) ==
  /\ o \in pend /\ pend' = pend \ {o} /\ queue' = {"cr"}
  /\ cca' = (IF o = "ca" THEN ca ELSE cca) /\ cwh' = (IF o = "wh" THEN wh ELSE cwh)
  /\ UNCHANGED <<server, state, pc, seen, plan, counts>>

\* The RequeueAfter of the last pass.
Timer ==
  /\ pc = "idle" /\ queue = {} /\ queue' = {"cr"}
  /\ UNCHANGED <<server, state, cca, cwh, pend, pc, seen, plan, counts>>

Crash ==
  /\ fails + crashes < MaxFaults /\ crashes' = crashes + 1
  /\ Return /\ queue' = {"cr"} /\ pend' = {} /\ cca' = ca /\ cwh' = wh
  /\ UNCHANGED <<server, state, gen, regens, stale, edits, fails>>

Worker ==
  \/ HandleErrorState \/ ReadCa \/ ReadWh
  \/ ApplyCa \/ ApplyWh \/ ApplyMutating \/ ApplyValidating
Next ==
  \/ Worker \/ UserEditsCa \/ UserEditsWh \/ UserEditsWebhook \/ Expires
  \/ (\E o \in Objects : Deliver(o)) \/ Timer \/ Crash
Spec == Init /\ [][Next]_vars
\* The worker runs, the informers deliver, the RequeueAfter comes due.
FairSpec ==
  Spec /\ WF_vars(Worker) /\ WF_vars(Timer) /\ \A o \in Objects : WF_vars(Deliver(o))
-----------------------------------------------------------------------------
Agree == ca.crt \notin {None, Junk} /\ wh.crt = ca.crt /\ \A w \in Webhooks : bundles[w] = ca.crt
Quiet == pc = "idle" /\ queue = {} /\ pend = {}

(* While the CR shows Ready, no event is on its way and nothing is queued,  *)
(* the webhook's certificate is signed by the CA and every bundle holds     *)
(* that CA, whatever users, failures, restarts and stale caches did before: *)
(* a disagreement that waits for the timer is one the state Error reports.  *)
AgreeWhenQuiet == Quiet /\ state = "Ready" => Agree

(* Certificates are regenerated only for a reason: the events of the        *)
(* worker's own writes do not set off another regeneration. A pass that     *)
(* starts while the cache is behind costs up to two: one for what it does   *)
(* not see, and one for a certificate it signs with a CA that is gone.      *)
EachRegenerationHasACause == regens <= 1 + edits + fails + crashes + 2 * stale

(* Secrets and bundles agree in the end and no certificate stays about to   *)
(* expire, unless a user left the CA a key that does not fit: nothing looks *)
(* at the key before it has to sign.                                        *)
Settles ==
  <>[](ca.key = "junk" \/ (Agree /\ ca.age = "valid" /\ wh.age = "valid"))

(* A webhook certificate about to expire is regenerated.                    *)
RenewedInAdvance == (wh.age = "expiring") ~> (wh.age = "valid")
=============================================================================
