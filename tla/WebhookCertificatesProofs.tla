--------------------- MODULE WebhookCertificatesProofs ---------------------
(***************************************************************************)
(* Theorems of WebhookCertificates, for any number of changes, failures,   *)
(* restarts and regenerations, and for caches that lag without bound.      *)
(*                                                                         *)
(* The argument: everything a pass writes, and everything a user changes,  *)
(* leaves an event that is delivered or queued. A pass without any such    *)
(* event wrote nothing, so what it read is what the server has, and it     *)
(* read a CA, a certificate signed by it and, in the end, its bundles. A   *)
(* pass that fails leaves the state Error instead.                         *)
(***************************************************************************)
EXTENDS WebhookCertificates, TLAPS

\* Each leaf is given to Zenon and then to SMT, with time for slow machines.
USE ZenonT(10), SMTT(20)

Awake == queue # {} \/ pend # {}

\* A copy in the cache that is out of date has an event on its way.
Cached ==
  /\ "ca" \in pend \/ cca.crt = ca.crt
  /\ "wh" \in pend \/ cwh.crt = wh.crt

\* What a pass that nothing interferes with knows of the server.
PassKnows ==
  /\ pc = "readWh" => seen.crt \notin {None, Junk}
  /\ pc = "readWh" => Awake \/ seen.crt = ca.crt
  /\ pc \in Webhooks => Awake \/ (ca.crt \notin {None, Junk} /\ wh.crt = ca.crt /\ bundle =
    ca.crt)
  /\ pc = "validating" => Awake \/ bundles["mutating"] = ca.crt
  /\ pc = "idle" => Awake \/ state # "Ready" \/ Agree

IInv == TypeOK /\ Cached /\ PassKnows
-----------------------------------------------------------------------------
(* A pass that gives up leaves everything well typed.                       *)
LEMMA GiveUpType == IInv /\ GiveUp /\ Own /\ fails' \in Nat => TypeOK'
<1> SUFFICES ASSUME IInv, GiveUp, Own, fails' \in Nat PROVE TypeOK'
  OBVIOUS
<1>1. Absent \in Secrets
  BY DEF Absent, Secrets, Keys, None
<1>2. seen' \in Secrets /\ newCa' \in Secrets /\ newWh' \in Secrets /\ bundle' \in Nat
  BY <1>1 DEF GiveUp, Return, None
<1> QED BY <1>2 DEF IInv, TypeOK, GiveUp, Return, Own
LEMMA FailType == IInv /\ Fail /\ Own => TypeOK'
BY SMTT(20), GiveUpType DEF Fail, IInv, TypeOK
LEMMA ErrorType == IInv /\ HandleErrorState => TypeOK'
BY SMTT(20) DEF IInv, TypeOK, Objects, server, plan, counts, HandleErrorState
LEMMA ErrorCached == IInv /\ HandleErrorState => Cached'
BY DEF IInv, Cached, server, HandleErrorState
LEMMA ErrorKnows == IInv /\ HandleErrorState => PassKnows'
BY DEF IInv, PassKnows, Awake, Agree, HandleErrorState, server, plan
LEMMA ReadCaType == IInv /\ ReadCa => TypeOK'
BY SMTT(20), CertificatesAssumption DEF IInv, TypeOK, Secrets, Keys, Webhooks, Objects, None, Junk,
  Foreign, server, plan, counts, ReadCa, Behind, regenerateCertificates,
  IncrementCertsRegenerationCounter, validateCert, Own, Fresh
LEMMA ReadCaCached == IInv /\ ReadCa => Cached'
BY CertificatesAssumption DEF IInv, Cached, TypeOK, Secrets, Keys, Webhooks, Objects, None,
  Junk, Foreign, server, plan, counts, ReadCa, Behind, regenerateCertificates,
  IncrementCertsRegenerationCounter, validateCert, Own, Fresh
LEMMA ReadCaKnows == IInv /\ ReadCa => PassKnows'
BY CertificatesAssumption DEF IInv, Cached, PassKnows, Awake, Agree, TypeOK, Secrets, Keys,
  Webhooks, Objects, None, Junk, Foreign, server, plan, counts, ReadCa, Behind,
  regenerateCertificates,
  IncrementCertsRegenerationCounter, validateCert, Own, Fresh
LEMMA ReadWhType == IInv /\ ReadWh => TypeOK'
<1> SUFFICES ASSUME IInv, ReadWh PROVE TypeOK'
  OBVIOUS
<1>1. CASE GiveUp
  BY <1>1, GiveUpType DEF ReadWh, IInv, TypeOK
<1>2. seen.crt \in Nat /\ gen + 1 \in Nat /\ gen \in Nat
  BY SMTT(20) DEF IInv, TypeOK, Secrets
<1>3. Fresh(seen.crt) \in Secrets /\ Fresh(gen + 1) \in Secrets
  BY <1>2 DEF Fresh, Secrets, Keys
<1>4. CASE regenerateCertificates /\ UNCHANGED <<seen, state, queue>>
  BY SMTT(20), <1>2, <1>3, <1>4 DEF IInv, TypeOK, ReadWh, Own, server, regenerateCertificates,
    IncrementCertsRegenerationCounter
<1>5. CASE regenerateWebhookCertificate /\ UNCHANGED <<seen, state, queue>>
  BY SMTT(20), <1>2, <1>3, <1>5 DEF IInv, TypeOK, ReadWh, Own, server, regenerateWebhookCertificate,
    IncrementCertsRegenerationCounter
<1>6. CASE prepareWebhooksManifests /\ UNCHANGED <<seen, state, queue>>
  BY <1>2, <1>6 DEF IInv, TypeOK, ReadWh, Own, server, prepareWebhooksManifests
<1> QED BY <1>1, <1>4, <1>5, <1>6 DEF ReadWh
LEMMA ReadWhCached == IInv /\ ReadWh => Cached'
BY CertificatesAssumption DEF IInv, Cached, TypeOK, Secrets, Keys, Webhooks, Objects, None,
  Junk, Foreign, server, plan, counts, ReadWh, VerifyIfLeafIsSignedByGivenCA,
  prepareWebhooksManifests, regenerateCertificates, regenerateWebhookCertificate,
  IncrementCertsRegenerationCounter, validateCert, Own, Fresh,
  GiveUp, Return, Absent
LEMMA ReadWhKnows == IInv /\ ReadWh => PassKnows'
BY SMTT(20), CertificatesAssumption
   DEF IInv, Cached, PassKnows, Awake, Agree, TypeOK, Secrets, Keys,
  Webhooks, Objects, None, Junk, Foreign, server, plan, counts, ReadWh,
  VerifyIfLeafIsSignedByGivenCA,
  prepareWebhooksManifests, regenerateCertificates, regenerateWebhookCertificate,
  IncrementCertsRegenerationCounter, validateCert, Own, Fresh, GiveUp, Return, Absent
LEMMA ApplyCaType == IInv /\ ApplyCa => TypeOK'
<1> SUFFICES ASSUME IInv, ApplyCa PROVE TypeOK'
  OBVIOUS
<1>1. CASE Fail
  BY <1>1, FailType DEF ApplyCa
<1>2. CASE WriteCa
  <2>1. pend' \subseteq Objects
    <3> SUFFICES ASSUME NEW x \in pend' PROVE x \in Objects
      OBVIOUS
    <3>1. x \in pend \/ x = "ca"
      BY <1>2 DEF WriteCa, Then, Applied, Own
    <3> QED BY <3>1, ZenonT(30) DEF IInv, TypeOK, Objects, Webhooks
  <2>2. Absent \in Secrets
    BY DEF Absent, Secrets, Keys, None
  <2>3. bundles' \in [Webhooks -> Nat]
    BY <1>2 DEF IInv, TypeOK, Webhooks, WriteCa, Then, Applied, Own
  <2> QED BY <1>2, <2>1, <2>2, <2>3 DEF IInv, TypeOK, ApplyCa, WriteCa, Then, Applied, Own,
    plan, None
<1> QED BY <1>1, <1>2 DEF ApplyCa
LEMMA ApplyCaCached == IInv /\ ApplyCa => Cached'
BY CertificatesAssumption DEF IInv, Cached, TypeOK, Secrets, Keys, Webhooks, Objects, None,
  Junk, Foreign, server, plan, counts, ApplyCa, WriteCa, Fail, GiveUp, Return, Absent, Then,
  Applied, Own
LEMMA ApplyCaKnows == IInv /\ ApplyCa => PassKnows'
BY CertificatesAssumption DEF IInv, Cached, PassKnows, Awake, Agree, TypeOK, Secrets, Keys,
  Webhooks, Objects, None, Junk, Foreign, server, plan, counts, ApplyCa, WriteCa, Fail, GiveUp,
  Return, Absent, Then, Applied, Own
LEMMA ApplyWhType == IInv /\ ApplyWh => TypeOK'
<1> SUFFICES ASSUME IInv, ApplyWh PROVE TypeOK'
  OBVIOUS
<1>1. CASE Fail
  BY <1>1, FailType DEF ApplyWh
<1>2. CASE WriteWh
  <2>1. pend' \subseteq Objects
    <3> SUFFICES ASSUME NEW x \in pend' PROVE x \in Objects
      OBVIOUS
    <3>1. x \in pend \/ x = "wh"
      BY <1>2 DEF WriteWh, Then, Applied, Own
    <3> QED BY <3>1, ZenonT(30) DEF IInv, TypeOK, Objects, Webhooks
  <2>2. Absent \in Secrets
    BY DEF Absent, Secrets, Keys, None
  <2>3. bundles' \in [Webhooks -> Nat]
    BY <1>2 DEF IInv, TypeOK, Webhooks, WriteWh, Then, Applied, Own
  <2> QED BY <1>2, <2>1, <2>2, <2>3 DEF IInv, TypeOK, ApplyWh, WriteWh, Then, Applied, Own,
    plan, None
<1> QED BY <1>1, <1>2 DEF ApplyWh
LEMMA ApplyWhCached == IInv /\ ApplyWh => Cached'
BY CertificatesAssumption DEF IInv, Cached, TypeOK, Secrets, Keys, Webhooks, Objects, None,
  Junk, Foreign, server, plan, counts, ApplyWh, WriteWh, Fail, GiveUp, Return, Absent, Then,
  Applied, Own
LEMMA ApplyWhKnows == IInv /\ ApplyWh => PassKnows'
BY CertificatesAssumption DEF IInv, Cached, PassKnows, Awake, Agree, TypeOK, Secrets, Keys,
  Webhooks, Objects, None, Junk, Foreign, server, plan, counts, ApplyWh, WriteWh, Fail, GiveUp,
  Return, Absent, Then, Applied, Own
LEMMA ApplyMutatingType == IInv /\ ApplyMutating => TypeOK'
<1> SUFFICES ASSUME IInv, ApplyMutating PROVE TypeOK'
  OBVIOUS
<1>1. CASE Fail
  BY <1>1, FailType DEF ApplyMutating
<1>2. CASE WriteMutating
  <2>1. pend' \subseteq Objects
    <3> SUFFICES ASSUME NEW x \in pend' PROVE x \in Objects
      OBVIOUS
    <3>1. x \in pend \/ x = "mutating"
      BY <1>2 DEF WriteMutating, WriteWebhook, Then, Applied, Own
    <3> QED BY <3>1, ZenonT(30) DEF IInv, TypeOK, Objects, Webhooks
  <2>2. Absent \in Secrets
    BY DEF Absent, Secrets, Keys, None
  <2>3. bundles' \in [Webhooks -> Nat]
    BY <1>2 DEF IInv, TypeOK, Webhooks, WriteMutating, WriteWebhook, Then, Applied, Own
  <2> QED BY <1>2, <2>1, <2>2, <2>3 DEF IInv, TypeOK, ApplyMutating, WriteMutating,
    WriteWebhook, Then, Applied, Own, plan, None
<1> QED BY <1>1, <1>2 DEF ApplyMutating
LEMMA ApplyMutatingCached == IInv /\ ApplyMutating => Cached'
BY CertificatesAssumption DEF IInv, Cached, TypeOK, Secrets, Keys, Webhooks, Objects, None,
  Junk, Foreign, server, plan, counts, ApplyMutating, WriteMutating, WriteWebhook, Fail, GiveUp,
  Return, Absent, Then, Applied, Own
LEMMA ApplyMutatingKnows == IInv /\ ApplyMutating => PassKnows'
BY CertificatesAssumption DEF IInv, Cached, PassKnows, Awake, Agree, TypeOK, Secrets, Keys,
  Webhooks, Objects, None, Junk, Foreign, server, plan, counts, ApplyMutating, WriteMutating,
  WriteWebhook, Fail, GiveUp, Return, Absent, Then, Applied, Own
LEMMA ApplyValidatingType == IInv /\ ApplyValidating => TypeOK'
<1> SUFFICES ASSUME IInv, ApplyValidating PROVE TypeOK'
  OBVIOUS
<1>1. CASE Fail
  BY <1>1, FailType DEF ApplyValidating
<1>2. CASE WriteValidating
  <2>1. pend' \subseteq Objects
    <3> SUFFICES ASSUME NEW x \in pend' PROVE x \in Objects
      OBVIOUS
    <3>1. x \in pend \/ x = "validating"
      BY <1>2 DEF WriteValidating, WriteWebhook, Finish, Return, Applied, Own
    <3> QED BY <3>1, ZenonT(30) DEF IInv, TypeOK, Objects, Webhooks
  <2>2. Absent \in Secrets
    BY DEF Absent, Secrets, Keys, None
  <2>3. bundles' \in [Webhooks -> Nat]
    BY <1>2 DEF IInv, TypeOK, Webhooks, WriteValidating, WriteWebhook, Finish, Return, Applied, Own
  <2> QED BY <1>2, <2>1, <2>2, <2>3 DEF IInv, TypeOK, ApplyValidating, WriteValidating,
    WriteWebhook, Finish, Return, Applied, Own, plan, None
<1> QED BY <1>1, <1>2 DEF ApplyValidating
LEMMA ApplyValidatingCached == IInv /\ ApplyValidating => Cached'
BY CertificatesAssumption DEF IInv, Cached, TypeOK, Secrets, Keys, Webhooks, Objects, None,
  Junk, Foreign, server, plan, counts, ApplyValidating, WriteValidating, WriteWebhook, Fail,
  GiveUp, Finish, Return, Absent, Applied, Own
LEMMA ApplyValidatingKnows == IInv /\ ApplyValidating => PassKnows'
BY SMTT(20), CertificatesAssumption
   DEF IInv, Cached, PassKnows, Awake, Agree, TypeOK, Secrets, Keys,
  Webhooks, Objects, None, Junk, Foreign, server, plan, counts, ApplyValidating,
  WriteValidating, WriteWebhook, Fail, GiveUp, Finish, Return, Absent, Applied, Own
LEMMA UserEditsCaType == IInv /\ UserEditsCa => TypeOK'
<1> SUFFICES ASSUME IInv, UserEditsCa PROVE TypeOK'
  OBVIOUS
<1>1. ca' \in Secrets
  <2>1. ca' \in Edited(ca) /\ ca \in Secrets
    BY DEF UserEditsCa, IInv, TypeOK
  <2> QED BY SMTT(20), <2>1, CertificatesAssumption
             DEF Edited, Fresh, Absent, Secrets, Keys, None, Junk, Foreign
<1>2. pend' \subseteq Objects
  BY DEF IInv, TypeOK, Objects, UserEditsCa
<1> QED BY SMTT(20), <1>1, <1>2, CertificatesAssumption
           DEF IInv, TypeOK, UserEditsCa, Edit, server, plan,
  counts
LEMMA UserEditsCaCached == IInv /\ UserEditsCa => Cached'
BY CertificatesAssumption DEF IInv, Cached, TypeOK, Secrets, Keys, Webhooks, Objects, None,
  Junk, Foreign, server, plan, counts, UserEditsCa, Edit
LEMMA UserEditsCaKnows == IInv /\ UserEditsCa => PassKnows'
BY CertificatesAssumption DEF IInv, Cached, PassKnows, Awake, Agree, TypeOK, Secrets, Keys,
  Webhooks, Objects, None, Junk, Foreign, server, plan, counts, UserEditsCa, Edit
LEMMA UserEditsWhType == IInv /\ UserEditsWh => TypeOK'
<1> SUFFICES ASSUME IInv, UserEditsWh PROVE TypeOK'
  OBVIOUS
<1>1. wh' \in Secrets
  <2>1. wh' \in Edited(wh) /\ wh \in Secrets
    BY DEF UserEditsWh, IInv, TypeOK
  <2> QED BY SMTT(20), <2>1, CertificatesAssumption
             DEF Edited, Fresh, Absent, Secrets, Keys, None, Junk, Foreign
<1>2. pend' \subseteq Objects
  BY DEF IInv, TypeOK, Objects, UserEditsWh
<1> QED BY SMTT(20), <1>1, <1>2, CertificatesAssumption
           DEF IInv, TypeOK, UserEditsWh, Edit, server, plan,
  counts
LEMMA UserEditsWhCached == IInv /\ UserEditsWh => Cached'
BY CertificatesAssumption DEF IInv, Cached, TypeOK, Secrets, Keys, Webhooks, Objects, None,
  Junk, Foreign, server, plan, counts, UserEditsWh, Edit
LEMMA UserEditsWhKnows == IInv /\ UserEditsWh => PassKnows'
BY CertificatesAssumption DEF IInv, Cached, PassKnows, Awake, Agree, TypeOK, Secrets, Keys,
  Webhooks, Objects, None, Junk, Foreign, server, plan, counts, UserEditsWh, Edit
LEMMA UserEditsWebhookType == IInv /\ UserEditsWebhook => TypeOK'
BY SMTT(20), CertificatesAssumption DEF IInv, TypeOK, Secrets, Keys, Webhooks, Objects, None, Junk,
  Foreign, server, plan, counts, UserEditsWebhook, Edit
LEMMA UserEditsWebhookCached == IInv /\ UserEditsWebhook => Cached'
BY CertificatesAssumption DEF IInv, Cached, TypeOK, Secrets, Keys, Webhooks, Objects, None,
  Junk, Foreign, server, plan, counts, UserEditsWebhook, Edit
LEMMA UserEditsWebhookKnows == IInv /\ UserEditsWebhook => PassKnows'
BY CertificatesAssumption DEF IInv, Cached, PassKnows, Awake, Agree, TypeOK, Secrets, Keys,
  Webhooks, Objects, None, Junk, Foreign, server, plan, counts, UserEditsWebhook, Edit
LEMMA ExpiresType == IInv /\ Expires => TypeOK'
BY SMTT(20), CertificatesAssumption DEF IInv, TypeOK, Secrets, Keys, Webhooks, Objects, None, Junk,
  Foreign, server, plan, counts, Expires, Aged
LEMMA ExpiresCached == IInv /\ Expires => Cached'
BY SMTT(20), CertificatesAssumption
   DEF IInv, Cached, TypeOK, Secrets, Keys, Webhooks, Objects, None,
  Junk, Foreign, server, plan, counts, Expires, Aged
LEMMA ExpiresKnows == IInv /\ Expires => PassKnows'
BY SMTT(20), CertificatesAssumption
   DEF IInv, Cached, PassKnows, Awake, Agree, TypeOK, Secrets, Keys,
  Webhooks, Objects, None, Junk, Foreign, server, plan, counts, Expires, Aged
LEMMA TimerType == IInv /\ Timer => TypeOK'
BY SMTT(20), CertificatesAssumption DEF IInv, TypeOK, Secrets, Keys, Webhooks, Objects, None, Junk,
  Foreign, server, plan, counts, Timer
LEMMA TimerCached == IInv /\ Timer => Cached'
BY CertificatesAssumption DEF IInv, Cached, TypeOK, Secrets, Keys, Webhooks, Objects, None,
  Junk, Foreign, server, plan, counts, Timer
LEMMA TimerKnows == IInv /\ Timer => PassKnows'
BY CertificatesAssumption DEF IInv, Cached, PassKnows, Awake, Agree, TypeOK, Secrets, Keys,
  Webhooks, Objects, None, Junk, Foreign, server, plan, counts, Timer
LEMMA CrashType == IInv /\ Crash => TypeOK'
BY SMTT(20), CertificatesAssumption DEF IInv, TypeOK, Secrets, Keys, Webhooks, Objects, None, Junk,
  Foreign, server, plan, counts, Crash, Return, Absent
LEMMA CrashCached == IInv /\ Crash => Cached'
BY CertificatesAssumption DEF IInv, Cached, TypeOK, Secrets, Keys, Webhooks, Objects, None,
  Junk, Foreign, server, plan, counts, Crash, Return, Absent
LEMMA CrashKnows == IInv /\ Crash => PassKnows'
BY CertificatesAssumption DEF IInv, Cached, PassKnows, Awake, Agree, TypeOK, Secrets, Keys,
  Webhooks, Objects, None, Junk, Foreign, server, plan, counts, Crash, Return, Absent
LEMMA DeliverType == IInv /\ (\E x \in Objects : Deliver(x)) => TypeOK'
BY SMTT(20) DEF IInv, TypeOK, Secrets, Keys, Webhooks, Objects, None, Junk, Foreign, server, plan,
  counts, Deliver
LEMMA DeliverCached == IInv /\ (\E x \in Objects : Deliver(x)) => Cached'
BY DEF IInv, Cached, TypeOK, Secrets, Keys, Webhooks, Objects, None, Junk, Foreign, server,
  plan, counts, Deliver
LEMMA DeliverKnows == IInv /\ (\E x \in Objects : Deliver(x)) => PassKnows'
BY DEF IInv, PassKnows, Awake, Agree, TypeOK, Secrets, Keys, Webhooks, Objects, None, Junk,
  Foreign, server, plan, counts, Deliver
-----------------------------------------------------------------------------
LEMMA Initial == Init => IInv
BY SMTT(20), CertificatesAssumption DEF Init, IInv, Cached, PassKnows, Awake, Agree, Absent, TypeOK,
  Secrets, Keys, Webhooks, Objects, None, Junk, Foreign

LEMMA Stutter == IInv /\ UNCHANGED vars => IInv'
BY SMTT(20)
   DEF IInv, Cached, PassKnows, Awake, Agree, TypeOK, Secrets, Keys, Webhooks, Objects, None, Junk,
  Foreign, vars, server, plan, counts

LEMMA Step == IInv /\ [Next]_vars => IInv'
<1> SUFFICES ASSUME IInv, [Next]_vars PROVE IInv'
  OBVIOUS
<1>1. CASE ReadCa
  BY <1>1, ReadCaType, ReadCaCached, ReadCaKnows DEF IInv
<1>2. CASE ReadWh
  BY <1>2, ReadWhType, ReadWhCached, ReadWhKnows DEF IInv
<1>3. CASE ApplyCa
  BY <1>3, ApplyCaType, ApplyCaCached, ApplyCaKnows DEF IInv
<1>4. CASE ApplyWh
  BY <1>4, ApplyWhType, ApplyWhCached, ApplyWhKnows DEF IInv
<1>5. CASE ApplyMutating
  BY <1>5, ApplyMutatingType, ApplyMutatingCached, ApplyMutatingKnows DEF IInv
<1>6. CASE ApplyValidating
  BY <1>6, ApplyValidatingType, ApplyValidatingCached, ApplyValidatingKnows DEF IInv
<1>7. CASE UserEditsCa
  BY <1>7, UserEditsCaType, UserEditsCaCached, UserEditsCaKnows DEF IInv
<1>8. CASE UserEditsWh
  BY <1>8, UserEditsWhType, UserEditsWhCached, UserEditsWhKnows DEF IInv
<1>9. CASE UserEditsWebhook
  BY <1>9, UserEditsWebhookType, UserEditsWebhookCached, UserEditsWebhookKnows DEF IInv
<1>10. CASE Expires
  BY <1>10, ExpiresType, ExpiresCached, ExpiresKnows DEF IInv
<1>11. CASE Timer
  BY <1>11, TimerType, TimerCached, TimerKnows DEF IInv
<1>12. CASE Crash
  BY <1>12, CrashType, CrashCached, CrashKnows DEF IInv
<1>13. CASE \E x \in Objects : Deliver(x)
  BY <1>13, DeliverType, DeliverCached, DeliverKnows DEF IInv
<1>14. CASE UNCHANGED vars
  BY <1>14, Stutter
<1>15. CASE HandleErrorState
  BY <1>15, ErrorType, ErrorCached, ErrorKnows DEF IInv
<1> QED BY <1>1, <1>2, <1>3, <1>4, <1>5, <1>6, <1>7, <1>8, <1>9, <1>10, <1>11, <1>12, <1>13,
  <1>14, <1>15 DEF Next, Worker

(* The inductive invariant holds in every reachable state.                  *)
THEOREM Inductive == Spec => []IInv
BY Initial, Step, PTL DEF Spec

(* Every behaviour of the certificate manager stays well typed.             *)
THEOREM TypeCorrect == Spec => []TypeOK
<1>1. IInv => TypeOK
  BY DEF IInv
<1> QED BY <1>1, Inductive, PTL

(* While the CR shows Ready, no event is on its way and nothing is queued,  *)
(* the CA, the certificate of the webhook server and the bundles agree,     *)
(* whatever users, failed passes, restarts and stale caches did before.     *)
THEOREM QuietCertificatesAgree == Spec => []AgreeWhenQuiet
<1>1. IInv => AgreeWhenQuiet
  BY DEF IInv, PassKnows, Awake, AgreeWhenQuiet, Quiet
<1> QED BY <1>1, Inductive, PTL
-----------------------------------------------------------------------------
(* EachRegenerationHasACause. A server whose Secrets are valid and agree    *)
(* owes no regeneration, any other one; a pass that has read the CA Secret  *)
(* may regenerate for what it reads next and once more when the CA Secret   *)
(* changed meanwhile. Every regeneration that is owed has been paid by a    *)
(* change, a failure or a crash before, or by a start on a stale cache,     *)
(* which pays for two.                                                      *)
Owed(c, w) == IF validateCert(c) /\ validateCert(w) /\ w.crt = c.crt THEN 0 ELSE 1

\* Owed by a pass that read the CA Secret s and is going to read w, when the
\* server holds the Secrets c and x.
OwedInPass(c, s, w, x) ==
  IF ~validateCert(w) /\ s.key = "good" THEN 1 + Owed(c, Fresh(s.crt))
  ELSE IF validateCert(w) /\ w.crt # s.crt THEN 1 ELSE Owed(c, x)

Causes == edits + fails + crashes + 2 * stale
Paid(n) == regens + n <= 1 + Causes
AllPaid ==
  /\ pc = "readWh" => Paid(OwedInPass(ca, seen, cwh, wh)) /\ Paid(OwedInPass(ca, seen, wh, wh))
  /\ pc = "applyCa" => Paid(0)
  /\ pc = "applyWh" => Paid(Owed(ca, newWh))
  /\ pc \in {"idle", "mutating", "validating"} => Paid(Owed(ca, wh))

\* A copy in the cache without an event on its way is exact.
CachedExactly == ("ca" \in pend \/ cca = ca) /\ ("wh" \in pend \/ cwh = wh)

\* The CAs generated here are none of the users'.
PlanFresh ==
  /\ gen >= Foreign
  /\ pc = "applyCa" => newCa = Fresh(gen) /\ newWh = Fresh(gen) /\ gen > Foreign
-----------------------------------------------------------------------------
(* What is owed.                                                            *)
LEMMA OwedRange == \A c, w : Owed(c, w) \in {0, 1}
BY DEF Owed

LEMMA OwedInPassRange ==
  \A c, s, w, x : /\ OwedInPass(c, s, w, x) \in {0, 1, 2}
                  /\ OwedInPass(c, s, w, x) <= 1 + Owed(c, Fresh(s.crt))
BY SMTT(20), OwedRange DEF OwedInPass

LEMMA FreshValid == ASSUME NEW n \in Nat, n \notin {None, Junk} PROVE validateCert(Fresh(n))
BY DEF Fresh, validateCert, None, Junk

\* The webhook's Secret that is on the server owes a changed CA Secret too.
LEMMA OwedForCa ==
  ASSUME NEW c, NEW s \in Secrets, NEW x, s.crt \notin {None, Junk}
  PROVE  Owed(c, Fresh(s.crt)) <= OwedInPass(c, s, x, x)
<1>1. validateCert(Fresh(s.crt)) /\ Fresh(s.crt).crt = s.crt
  BY FreshValid DEF Secrets, Keys, Fresh
<1>2. CASE validateCert(x) /\ x.crt = s.crt
  BY SMTT(20), <1>1, <1>2 DEF Owed, OwedInPass
<1>3. CASE ~(validateCert(x) /\ x.crt = s.crt)
  BY SMTT(20), <1>1, <1>3, OwedRange DEF OwedInPass, Owed
<1> QED BY <1>2, <1>3

\* Only the CA Secret changes.
LEMMA OwedForOneMore ==
  ASSUME NEW c, NEW d, NEW s, NEW w, NEW x
  PROVE  OwedInPass(d, s, w, x) <= OwedInPass(c, s, w, x) + 1
BY SMTT(20), OwedRange DEF OwedInPass

LEMMA PaidSoFar == ASSUME IInv, AllPaid PROVE Paid(0)
<1>1. regens \in Nat /\ Causes \in Nat
  BY SMTT(20) DEF IInv, TypeOK, Causes
<1>2. \E n \in {0, 1, 2} : Paid(n)
  BY OwedRange, OwedInPassRange DEF IInv, TypeOK, AllPaid
<1> QED BY SMTT(20), <1>1, <1>2 DEF Paid
-----------------------------------------------------------------------------
(* Steps that are a cause, and steps that are none.                         *)
OneCause == Causes' = Causes + 1 /\ regens' = regens
NoCause == Causes' = Causes /\ regens' = regens

LEMMA CauseOutside ==
  ASSUME IInv, IInv', AllPaid, OneCause, pc' # "readWh"
  PROVE  AllPaid'
<1>1. regens \in Nat /\ Causes \in Nat
  BY SMTT(20) DEF IInv, TypeOK, Causes
<1>2. Paid(0)' /\ Paid(1)'
  BY SMTT(20), <1>1, PaidSoFar DEF Paid, OneCause
<1>3. Owed(ca, wh)' \in {0, 1} /\ Owed(ca, newWh)' \in {0, 1}
  BY OwedRange
<1>4. Paid(Owed(ca, wh))' /\ Paid(Owed(ca, newWh))'
  BY <1>2, <1>3 DEF Paid
<1> QED BY <1>2, <1>4 DEF AllPaid

LEMMA CauseInPass ==
  ASSUME IInv, AllPaid, OneCause, pc = "readWh", UNCHANGED <<pc, seen>>,
         UNCHANGED ca \/ UNCHANGED <<wh, cwh>>
  PROVE  AllPaid'
<1>1. regens \in Nat /\ Causes \in Nat /\ seen \in Secrets /\ seen.crt \notin {None, Junk}
  BY SMTT(20) DEF IInv, TypeOK, Causes, PassKnows
<1>2. Paid(OwedInPass(ca, seen, cwh, wh)) /\ Paid(OwedInPass(ca, seen, wh, wh))
  BY DEF AllPaid
<1>3. ASSUME NEW m \in {0, 1, 2}, NEW n \in {0, 1, 2}, Paid(m), n <= m + 1
      PROVE  regens' + n <= 1 + Causes'
  BY SMTT(20), <1>1, <1>3 DEF Paid, OneCause
<1>4. CASE UNCHANGED <<wh, cwh>>
  <2>1. /\ OwedInPass(ca', seen, cwh, wh) <= OwedInPass(ca, seen, cwh, wh) + 1
        /\ OwedInPass(ca', seen, wh, wh) <= OwedInPass(ca, seen, wh, wh) + 1
    BY OwedForOneMore
  <2> QED BY <1>2, <1>3, <1>4, <2>1, OwedInPassRange DEF AllPaid, Paid
<1>5. CASE UNCHANGED ca
  <2>1. Owed(ca, Fresh(seen.crt)) <= OwedInPass(ca, seen, wh, wh)
    BY <1>1, OwedForCa
  <2>2. /\ OwedInPass(ca, seen, cwh', wh') <= 1 + Owed(ca, Fresh(seen.crt))
        /\ OwedInPass(ca, seen, wh', wh') <= 1 + Owed(ca, Fresh(seen.crt))
    BY OwedInPassRange
  <2>3. /\ OwedInPass(ca, seen, cwh', wh') <= OwedInPass(ca, seen, wh, wh) + 1
        /\ OwedInPass(ca, seen, wh', wh') <= OwedInPass(ca, seen, wh, wh) + 1
    BY SMTT(20), <2>1, <2>2, OwedRange, OwedInPassRange
  <2> QED BY <1>2, <1>3, <1>5, <2>3, OwedInPassRange DEF AllPaid, Paid
<1> QED BY <1>4, <1>5

\* A step that neither changes the server nor the plan.
LEMMA NoCauseKept ==
  ASSUME AllPaid, NoCause, UNCHANGED <<ca, wh, newWh, seen, pc>>, cwh' \in {cwh, wh}
  PROVE  AllPaid'
<1>1. /\ Paid(OwedInPass(ca, seen, wh, wh)) => Paid(OwedInPass(ca, seen, wh, wh))'
      /\ Paid(OwedInPass(ca, seen, wh, wh)) /\ Paid(OwedInPass(ca, seen, cwh, wh))
           => Paid(OwedInPass(ca, seen, cwh, wh))'
      /\ Paid(0) => Paid(0)'
      /\ Paid(Owed(ca, wh)) => Paid(Owed(ca, wh))'
      /\ Paid(Owed(ca, newWh)) => Paid(Owed(ca, newWh))'
  BY DEF Paid, NoCause
<1> QED BY <1>1 DEF AllPaid
-----------------------------------------------------------------------------
(* The steps of the worker.                                                 *)
CInv == IInv /\ CachedExactly /\ PlanFresh /\ AllPaid

\* The first read finds the server as it is.
LEMMA FreshReadCaPaid == ASSUME CInv, ReadCa, ~Behind PROVE AllPaid'
<1>1. cca = ca /\ cwh = wh /\ Paid(Owed(ca, wh))
  BY DEF CInv, CachedExactly, ReadCa, Behind, AllPaid
<1>2. Causes' = Causes /\ Causes \in Nat /\ regens \in Nat /\ ca \in Secrets
  <2>1. UNCHANGED <<edits, fails, crashes, stale>>
    BY DEF ReadCa, Own
  <2> QED BY SMTT(20), <2>1 DEF CInv, IInv, TypeOK, Causes
<1>3. CASE validateCert(ca)
  <2>1. regens' = regens /\ seen' = ca /\ pc' = "readWh" /\ ca' = ca /\ wh' = wh /\ cwh' = wh
    BY <1>1, <1>3 DEF ReadCa, server, Own
  <2>2. validateCert(Fresh(ca.crt)) /\ Fresh(ca.crt).crt = ca.crt
    BY <1>2, <1>3, FreshValid DEF Secrets, Keys, Fresh, validateCert
  <2>3. OwedInPass(ca, ca, wh, wh) = Owed(ca, wh)
    BY SMTT(20), <1>3, <2>2 DEF OwedInPass, Owed
  <2> QED BY <1>1, <1>2, <2>1, <2>3 DEF AllPaid, Paid
<1>4. CASE ~validateCert(ca)
  <2>1. regens' = regens + 1 /\ pc' = "applyCa"
    BY <1>1, <1>4 DEF ReadCa, regenerateCertificates, IncrementCertsRegenerationCounter
  <2>2. Owed(ca, wh) = 1
    BY <1>4 DEF Owed
  <2> QED BY SMTT(20), <1>1, <1>2, <2>1, <2>2 DEF AllPaid, Paid
<1> QED BY <1>3, <1>4

\* A read that may find an old Secret is a cause by itself, for two.
LEMMA StaleReadCaPaid == ASSUME CInv, ReadCa, Behind PROVE AllPaid'
<1>1. Paid(0) /\ regens \in Nat /\ Causes \in Nat
  BY SMTT(20), PaidSoFar DEF CInv, IInv, TypeOK, Causes
<1>2. Causes' = Causes + 2
  <2>1. UNCHANGED <<edits, fails, crashes>> /\ stale' = stale + 1
    BY DEF ReadCa, Own
  <2> QED BY SMTT(20), <2>1 DEF CInv, IInv, TypeOK, Causes
<1>3. CASE validateCert(cca)
  <2>1. regens' = regens /\ pc' = "readWh"
    BY <1>3 DEF ReadCa
  <2>2. \A n \in {0, 1, 2} : regens' + n <= 1 + Causes'
    BY SMTT(20), <1>1, <1>2, <2>1 DEF Paid
  <2> QED BY <2>1, <2>2, OwedInPassRange DEF AllPaid, Paid
<1>4. CASE ~validateCert(cca)
  <2>1. regens' = regens + 1 /\ pc' = "applyCa"
    BY <1>4 DEF ReadCa, regenerateCertificates, IncrementCertsRegenerationCounter
  <2> QED BY SMTT(20), <1>1, <1>2, <2>1 DEF AllPaid, Paid
<1> QED BY <1>3, <1>4

LEMMA ReadCaPaid == ASSUME CInv, ReadCa PROVE AllPaid'
BY FreshReadCaPaid, StaleReadCaPaid

\* The second read regenerates for what it finds, and owes the rest.
LEMMA ReadWhPaid == ASSUME CInv, ReadWh PROVE AllPaid'
<1>1. Paid(OwedInPass(ca, seen, cwh, wh)) /\ seen \in Secrets
  BY DEF CInv, ReadWh, AllPaid, IInv, TypeOK
<1>2. /\ Causes' = Causes /\ Causes \in Nat /\ regens \in Nat
      /\ ca' = ca /\ wh' = wh
  BY SMTT(20) DEF CInv, IInv, TypeOK, ReadWh, Own, Causes, server
<1>3. CASE ~validateCert(cwh) /\ regenerateWebhookCertificate
  <2>1. regens' = regens + 1 /\ pc' = "applyWh" /\ newWh' = Fresh(seen.crt)
    BY <1>3 DEF regenerateWebhookCertificate, IncrementCertsRegenerationCounter
  <2>2. OwedInPass(ca, seen, cwh, wh) = 1 + Owed(ca, Fresh(seen.crt))
    BY <1>3 DEF OwedInPass, regenerateWebhookCertificate
  <2> QED BY SMTT(20), <1>1, <1>2, <2>1, <2>2, OwedRange DEF AllPaid, Paid
<1>4. CASE ~validateCert(cwh) /\ seen.key # "good" /\ GiveUp
  <2>1. regens' = regens /\ pc' = "idle"
    BY <1>4 DEF GiveUp, Return
  <2>2. OwedInPass(ca, seen, cwh, wh) = Owed(ca, wh)
    BY <1>4 DEF OwedInPass
  <2> QED BY <1>1, <1>2, <2>1, <2>2 DEF AllPaid, Paid
<1>5. CASE validateCert(cwh) /\ cwh.crt # seen.crt /\ regenerateCertificates
  <2>1. regens' = regens + 1 /\ pc' = "applyCa"
    BY <1>5 DEF regenerateCertificates, IncrementCertsRegenerationCounter
  <2>2. OwedInPass(ca, seen, cwh, wh) = 1
    BY <1>5 DEF OwedInPass
  <2> QED BY SMTT(20), <1>1, <1>2, <2>1, <2>2 DEF AllPaid, Paid
<1>6. CASE validateCert(cwh) /\ cwh.crt = seen.crt /\ prepareWebhooksManifests
  <2>1. regens' = regens /\ pc' = "mutating"
    BY <1>6 DEF prepareWebhooksManifests
  <2>2. OwedInPass(ca, seen, cwh, wh) = Owed(ca, wh)
    BY <1>6 DEF OwedInPass
  <2> QED BY <1>1, <1>2, <2>1, <2>2 DEF AllPaid, Paid
<1> QED BY <1>3, <1>4, <1>5, <1>6 DEF ReadWh, VerifyIfLeafIsSignedByGivenCA

LEMMA FailPaid == ASSUME CInv, IInv', Fail, Own PROVE AllPaid'
<1>1. OneCause
  BY SMTT(20) DEF CInv, IInv, TypeOK, Fail, GiveUp, Own, OneCause, Causes
<1>2. pc' # "readWh"
  BY DEF Fail, GiveUp, Return
<1> QED BY <1>1, <1>2, CauseOutside DEF CInv

\* A write brings the server in line with the plan.
LEMMA ApplyPaid ==
  ASSUME CInv, IInv', ApplyCa \/ ApplyWh \/ ApplyMutating \/ ApplyValidating
  PROVE  AllPaid'
<1> USE DEF CInv
<1>1. CASE Fail
  BY <1>1, FailPaid DEF ApplyCa, ApplyWh, ApplyMutating, ApplyValidating
<1>2. CASE ApplyCa /\ WriteCa
  <2>1. ca' = Fresh(gen) /\ newWh' = Fresh(gen) /\ pc' = "applyWh" /\ Paid(0)
    BY <1>2 DEF ApplyCa, WriteCa, Then, plan, PlanFresh, AllPaid
  <2>2. validateCert(Fresh(gen))
    BY SMTT(20), <1>2, FreshValid DEF ApplyCa, PlanFresh, IInv, TypeOK, Foreign, None, Junk
  <2>3. Owed(Fresh(gen), Fresh(gen)) = 0
    BY <2>2 DEF Owed
  <2>4. NoCause
    BY <1>2 DEF ApplyCa, WriteCa, Applied, Own, NoCause, Causes
  <2> QED BY <2>1, <2>3, <2>4 DEF AllPaid, Paid, NoCause
<1>3. CASE ApplyWh /\ WriteWh
  <2>1. ca' = ca /\ wh' = newWh /\ pc' = "mutating" /\ Paid(Owed(ca, newWh))
    BY <1>3 DEF ApplyWh, WriteWh, Then, AllPaid
  <2>2. NoCause
    BY <1>3 DEF ApplyWh, WriteWh, Applied, Own, NoCause, Causes
  <2> QED BY <2>1, <2>2 DEF AllPaid, Paid, NoCause
<1>4. CASE (ApplyMutating /\ WriteMutating) \/ (ApplyValidating /\ WriteValidating)
  <2>1. /\ ca' = ca /\ wh' = wh /\ pc' \in {"validating", "idle"}
        /\ Paid(Owed(ca, wh))
    BY <1>4 DEF ApplyMutating, ApplyValidating, WriteMutating, WriteValidating, WriteWebhook,
      Then, Finish, Return, AllPaid
  <2>2. NoCause
    BY <1>4 DEF ApplyMutating, ApplyValidating, WriteMutating, WriteValidating, WriteWebhook,
      Applied, Own, NoCause, Causes
  <2> QED BY <2>1, <2>2 DEF AllPaid, Paid, NoCause
<1> QED BY <1>1, <1>2, <1>3, <1>4 DEF ApplyCa, ApplyWh, ApplyMutating, ApplyValidating
-----------------------------------------------------------------------------
(* The steps of the environment: changes and crashes are causes.            *)
LEMMA EditPaid ==
  ASSUME CInv, IInv', UserEditsCa \/ UserEditsWh \/ UserEditsWebhook \/ Expires
  PROVE  AllPaid'
<1>1. OneCause
  <2>1. edits' = edits + 1 /\ UNCHANGED <<fails, crashes, stale, regens>>
    BY DEF UserEditsCa, UserEditsWh, UserEditsWebhook, Expires, Edit
  <2> QED BY SMTT(20), <2>1 DEF CInv, IInv, TypeOK, OneCause, Causes
<1>2. UNCHANGED <<pc, seen>>
  BY DEF UserEditsCa, UserEditsWh, UserEditsWebhook, Expires, Edit
<1>3. UNCHANGED ca \/ UNCHANGED <<wh, cwh>>
  BY DEF UserEditsCa, UserEditsWh, UserEditsWebhook, Expires, Edit
<1> QED BY <1>1, <1>2, <1>3, CauseOutside, CauseInPass DEF CInv

LEMMA CrashPaid == ASSUME CInv, IInv', Crash PROVE AllPaid'
<1>1. OneCause
  BY SMTT(20) DEF CInv, IInv, TypeOK, Crash, OneCause, Causes
<1>2. pc' # "readWh"
  BY DEF Crash, Return
<1> QED BY <1>1, <1>2, CauseOutside DEF CInv

LEMMA QuietStepPaid ==
  ASSUME CInv, (\E o \in Objects : Deliver(o)) \/ Timer \/ HandleErrorState \/ UNCHANGED vars
  PROVE  AllPaid'
<1>1. NoCause
  BY DEF Deliver, Timer, HandleErrorState, vars, counts, NoCause, Causes
<1>2. UNCHANGED <<ca, wh, newWh, seen, pc>> /\ cwh' \in {cwh, wh}
  BY DEF Deliver, Timer, HandleErrorState, vars, server, plan
<1> QED BY <1>1, <1>2, NoCauseKept DEF CInv
-----------------------------------------------------------------------------
(* What the argument needs of the caches and of the plan.                   *)
LEMMA ExactStep == ASSUME CInv, [Next]_vars PROVE CachedExactly'
<1>1. CachedExactly
  BY DEF CInv
<1>2. CASE Worker
  <2>1. UNCHANGED <<cca, cwh>> /\ pend \subseteq pend'
    BY <1>2 DEF Worker, HandleErrorState, ReadCa, ReadWh, ApplyCa, ApplyWh, ApplyMutating,
                ApplyValidating, Own,
      Fail, GiveUp, WriteCa, WriteWh, WriteMutating, WriteValidating, WriteWebhook
  <2>2. ("ca" \in pend' \/ ca' = ca) /\ ("wh" \in pend' \/ wh' = wh)
    BY <1>2 DEF Worker, HandleErrorState, ReadCa, ReadWh, ApplyCa, ApplyWh, ApplyMutating,
                ApplyValidating,
      server, Fail, GiveUp, WriteCa, WriteWh, WriteMutating, WriteValidating, WriteWebhook
  <2> QED BY <1>1, <2>1, <2>2 DEF CachedExactly
<1>3. CASE UserEditsCa \/ UserEditsWh \/ UserEditsWebhook
  BY <1>1, <1>3 DEF UserEditsCa, UserEditsWh, UserEditsWebhook, Edit, CachedExactly
<1>4. CASE Expires
  BY <1>1, <1>4 DEF Expires, CachedExactly
<1>5. CASE \E o \in Objects : Deliver(o)
  BY <1>1, <1>5 DEF Deliver, server, CachedExactly
<1>6. CASE Timer \/ UNCHANGED vars
  BY <1>1, <1>6 DEF Timer, vars, server, CachedExactly
<1>7. CASE Crash
  BY <1>7 DEF Crash, server, CachedExactly
<1> QED BY <1>2, <1>3, <1>4, <1>5, <1>6, <1>7 DEF Next

LEMMA PlanStep == ASSUME CInv, [Next]_vars PROVE PlanFresh'
<1>1. PlanFresh /\ gen \in Nat /\ Foreign \in Nat
  BY DEF CInv, IInv, TypeOK, Foreign
<1>2. CASE regenerateCertificates
  BY SMTT(20), <1>1, <1>2 DEF regenerateCertificates, PlanFresh
<1>3. CASE gen' = gen /\ (pc' # "applyCa" \/ UNCHANGED <<pc, newCa, newWh>>)
  BY <1>1, <1>3 DEF PlanFresh
<1>4. CASE ReadCa \/ ReadWh
  BY <1>2, <1>3, <1>4 DEF ReadCa, ReadWh, regenerateWebhookCertificate,
    prepareWebhooksManifests, GiveUp, Return
<1>5. CASE ApplyCa \/ ApplyWh \/ ApplyMutating \/ ApplyValidating
  BY <1>3, <1>5 DEF ApplyCa, ApplyWh, ApplyMutating, ApplyValidating, Fail, GiveUp, Return,
    Finish, Then, Applied, WriteCa, WriteWh, WriteMutating, WriteValidating, WriteWebhook
<1>6. CASE UserEditsCa \/ UserEditsWh \/ UserEditsWebhook \/ Expires
  BY <1>3, <1>6 DEF UserEditsCa, UserEditsWh, UserEditsWebhook, Expires, Edit, plan
<1>7. CASE (\E o \in Objects : Deliver(o)) \/ Timer \/ HandleErrorState \/ UNCHANGED vars
  BY <1>3, <1>7 DEF Deliver, Timer, HandleErrorState, vars, plan, counts
<1>8. CASE Crash
  BY <1>3, <1>8 DEF Crash, Return
<1> QED BY <1>4, <1>5, <1>6, <1>7, <1>8 DEF Next, Worker

LEMMA CauseInitial == Init => CInv
<1> SUFFICES ASSUME Init PROVE CInv
  OBVIOUS
<1>1. CachedExactly /\ PlanFresh
  BY SMTT(20) DEF Init, CachedExactly, PlanFresh, Foreign
<1>2. AllPaid
  BY SMTT(20), OwedRange DEF Init, AllPaid, Paid, Causes
<1> QED BY <1>1, <1>2, Initial DEF CInv

LEMMA CauseStep == CInv /\ [Next]_vars => CInv'
<1> SUFFICES ASSUME CInv, [Next]_vars PROVE CInv'
  OBVIOUS
<1>1. IInv'
  BY Step DEF CInv
<1>2. AllPaid'
  BY <1>1, ReadCaPaid, ReadWhPaid, ApplyPaid, EditPaid, CrashPaid, QuietStepPaid DEF Next, Worker
<1> QED BY <1>1, <1>2, ExactStep, PlanStep DEF CInv

(* Certificates are regenerated once, and then at most once for each change *)
(* of a Secret or a bundle, each certificate that gets old, each request    *)
(* that fails and each restart, and twice for each pass that starts before  *)
(* an event of a Secret has arrived: the events of the worker's own writes  *)
(* regenerate nothing.                                                      *)
THEOREM RegeneratedForACause == Spec => []EachRegenerationHasACause
<1>1. CInv => EachRegenerationHasACause
  <2> SUFFICES ASSUME CInv PROVE EachRegenerationHasACause
    OBVIOUS
  <2>1. Paid(0) /\ regens \in Nat /\ edits \in Nat /\ fails \in Nat /\ crashes \in Nat
        /\ stale \in Nat
    BY PaidSoFar DEF CInv, IInv, TypeOK
  <2> QED BY SMTT(20), <2>1 DEF Paid, Causes, EachRegenerationHasACause
<1> QED BY <1>1, CauseInitial, CauseStep, PTL DEF Spec
=============================================================================
