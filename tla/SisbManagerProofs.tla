------------------------- MODULE SisbManagerProofs -------------------------
(* Type correctness and OneManagerAtMost, for any number of managers and    *)
(* of failures. r.stopper cancels the context of the last Enable only, so   *)
(* the argument is that Disable leaves nothing that is not cancelled, and   *)
(* that Enable does nothing while the controller is enabled.                *)
EXTENDS SisbManager, FiniteSetTheorems, TLAPS

\* Each leaf is given to Zenon and then to SMT, with time for slow machines.
USE ZenonT(10), SMTT(20)

\* A goroutine finds a manager to start.
ManagerToStart == \A n \in Managers : goroutine[n] # "none" => mgr # 0

\* OneManagerAtMost without the count.
Owned == (~enabled => Active = {}) /\ Active \subseteq {stopper}

IInv == TypeOK /\ ManagerToStart /\ Owned
-----------------------------------------------------------------------------
LEMMA InitInv == ASSUME Init PROVE IInv
<1>1. enabled \in BOOLEAN
  BY DEF Init
<1>2. TypeOK
  BY SMTT(20), <1>1, SisbAssumption DEF Init, TypeOK
<1>3. Active = {} /\ ManagerToStart
  BY SMTT(20) DEF Init, Active, ManagerToStart
<1> QED BY <1>2, <1>3 DEF IInv, Owned

\* EnableSISBController with the mutex held.
LEMMA EnableInv == ASSUME IInv, Provision PROVE IInv'
<1>1. CASE created' = created
  <2>1. UNCHANGED <<enabled, mgr, sisbReconciler, stopper, created, registered, goroutine,
                    cancelled, started, runs>> /\ cr' = "Ready"
    BY SMTT(20), <1>1 DEF IInv, TypeOK, Provision, EnableSISBController
  <2>2. fails' \in 0 .. MaxFails
    BY SMTT(20), SisbAssumption DEF IInv, TypeOK, Provision, EnableSISBController
  <2> QED BY <2>1, <2>2 DEF IInv, TypeOK, ManagerToStart, Owned, Active
<1>2. CASE created' # created
  <2>1. /\ ~enabled /\ enabled' = TRUE /\ created < MaxManagers /\ cr' = "Ready"
        /\ created' = created + 1 /\ mgr' = created + 1 /\ stopper' = created + 1
        /\ registered' \subseteq registered \cup {created + 1}
        /\ goroutine' = [goroutine EXCEPT ![created + 1] = "created"]
        /\ UNCHANGED <<sisbReconciler, cancelled, started, runs, fails>>
    BY <1>2 DEF Provision, EnableSISBController
  <2>2. created + 1 \in Managers /\ created + 1 \notin cancelled /\ created + 1 # 0
    BY SMTT(20), <2>1, SisbAssumption DEF IInv, TypeOK, Managers
  <2>3. TypeOK'
    BY SMTT(20), <2>1, <2>2, SisbAssumption DEF IInv, TypeOK, Managers
  <2>4. ManagerToStart'
    BY <2>1, <2>2 DEF ManagerToStart
  <2>5. Owned'
    BY SMTT(20), <2>1, <2>2 DEF IInv, TypeOK, Owned, Active
  <2> QED BY <2>3, <2>4, <2>5 DEF IInv
<1> QED BY <1>1, <1>2

\* DisableSISBController with the mutex held.
LEMMA DisableInv == ASSUME IInv, Deprovision PROVE IInv'
<1>1. /\ enabled' = FALSE /\ cr' \in {"none", "Deleting"}
      /\ UNCHANGED <<mgr, sisbReconciler, stopper, created, registered, goroutine, started, runs,
                     fails>>
      /\ cancelled' = (IF enabled /\ stopper # 0 THEN cancelled \cup {stopper} ELSE cancelled)
  BY DEF Deprovision, DisableSISBController
<1>2. cancelled \subseteq cancelled' /\ cancelled' \subseteq 1 .. created
  BY SMTT(20), <1>1 DEF IInv, TypeOK
<1>3. TypeOK'
  BY <1>1, <1>2 DEF IInv, TypeOK
<1>4. Active' \subseteq Active
  BY <1>1, <1>2 DEF Active
<1>5. ASSUME enabled, stopper # 0 PROVE stopper \notin Active'
  <2>1. stopper \in cancelled'
    BY <1>1, <1>5
  <2> QED BY <2>1 DEF Active
<1>6. 0 \notin Active
  BY SMTT(20) DEF Active, Managers
<1>7. Active' = {}
  BY <1>4, <1>5, <1>6 DEF IInv, Owned
<1> QED BY <1>1, <1>3, <1>7 DEF IInv, ManagerToStart, Owned

LEMMA StartInv == ASSUME IInv, NEW n \in Managers, Start(n) PROVE IInv'
<1>1. /\ UNCHANGED <<enabled, mgr, sisbReconciler, stopper, created, registered, cancelled, cr,
                     fails>>
      /\ goroutine[n] = "created"
      /\ started' \in {started, started \cup {mgr}}
      /\ goroutine' \in {[goroutine EXCEPT ![n] = x] : x \in {"running", "done"}}
      /\ runs' \in {runs, [runs EXCEPT ![n] = mgr]}
  BY DEF Start
<1>2. TypeOK'
  BY SMTT(20), <1>1 DEF IInv, TypeOK, ManagerToStart
<1>3. ManagerToStart'
  BY SMTT(20), <1>1 DEF IInv, TypeOK, ManagerToStart
<1>4. Active' \subseteq Active
  BY SMTT(20), <1>1 DEF IInv, TypeOK, Active
<1> QED BY <1>1, <1>2, <1>3, <1>4 DEF IInv, Owned

LEMMA StopInv == ASSUME IInv, NEW n \in Managers, Stop(n) PROVE IInv'
<1>1. /\ UNCHANGED <<enabled, mgr, sisbReconciler, stopper, created, registered, cancelled,
                     started, cr>>
      /\ goroutine[n] = "running"
      /\ goroutine' = [goroutine EXCEPT ![n] = "done"] /\ runs' = [runs EXCEPT ![n] = 0]
  BY DEF Stop
<1>2. fails' \in 0 .. MaxFails
  BY SMTT(20), SisbAssumption DEF IInv, TypeOK, Stop
<1>3. TypeOK'
  BY SMTT(20), <1>1, <1>2 DEF IInv, TypeOK
<1>4. ManagerToStart'
  BY SMTT(20), <1>1 DEF IInv, TypeOK, ManagerToStart
<1>5. Active' \subseteq Active
  BY SMTT(20), <1>1 DEF IInv, TypeOK, Active
<1> QED BY <1>1, <1>3, <1>4, <1>5 DEF IInv, Owned

LEMMA NextInv == ASSUME IInv, [Next]_vars PROVE IInv'
<1>1. CASE CrChanges
  BY <1>1 DEF CrChanges, IInv, TypeOK, ManagerToStart, Owned, Active
<1>2. CASE UNCHANGED vars
  BY <1>2 DEF vars, IInv, TypeOK, ManagerToStart, Owned, Active
<1> QED BY <1>1, <1>2, EnableInv, DisableInv, StartInv, StopInv DEF Next

\* A set with no other element than x has at most one.
LEMMA AtMostOne == ASSUME NEW x, NEW S, S \subseteq {x} PROVE Cardinality(S) <= 1
<1>1. S = {} \/ S = {x}
  OBVIOUS
<1>2. Cardinality({}) = 0 /\ Cardinality({x}) = 1
  BY FS_EmptySet, FS_Singleton
<1> QED BY SMTT(20), <1>1, <1>2
-----------------------------------------------------------------------------
LEMMA Inductive == Spec => []IInv
BY InitInv, NextInv, PTL DEF Spec

\* Every variable keeps its type: in particular a goroutine never calls Start
\* on a manager that does not exist (r.mgr is not nil when it runs).
THEOREM TypeCorrect == Spec => []TypeOK
<1>1. IInv => TypeOK
  BY DEF IInv
<1> QED BY <1>1, Inductive, PTL

\* At most one goroutine is left that nobody has told to stop; none is left
\* while the controller is disabled; and the one that is left is the one that
\* DisableSISBController can stop.
THEOREM OneManager == Spec => []OneManagerAtMost
<1>1. IInv => OneManagerAtMost
  BY AtMostOne DEF IInv, Owned, OneManagerAtMost
<1> QED BY <1>1, Inductive, PTL
=============================================================================
