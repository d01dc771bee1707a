--------------------- MODULE BtpOperatorReconcilerProofs ---------------------
(* Type correctness, the pairing of states and reasons (StatusSound is      *)
(* inductive), and that a CR that is created once is never forgotten        *)
(* (WakeUps is inductive). What the user of such a CR may rely on: Ready is *)
(* shown only while the module is installed (ReadyInv is inductive), and    *)
(* the reconciler implements BtpOperatorLifecycle (LifeInv is inductive).   *)
EXTENDS BtpOperatorReconciler, TLAPS

\* Each leaf is given to Zenon and then to SMT, with time for slow machines.
USE ZenonT(10), SMTT(20)
-----------------------------------------------------------------------------
(* Types and statuses.                                                      *)
\* The statuses the code writes.
LEMMA Written ==
  /\ \A r \in ReadyReasons : <<"Ready", r>> \in Goals /\ <<"Ready", r>> \in Statuses
  /\ \A r \in ProcessingReasons : <<"Processing", r>> \in Goals /\ <<"Processing", r>> \in Statuses
  /\ \A r \in DeletingReasons : <<"Deleting", r>> \in Goals /\ <<"Deleting", r>> \in Statuses
  /\ \A r \in WarningReasons : <<"Warning", r>> \in Goals /\ <<"Warning", r>> \in Statuses
  /\ \A r \in ErrorReasons : <<"Error", r>> \in Goals /\ <<"Error", r>> \in Statuses
BY DEF Goals, States, Statuses, Reasons

\* The reasons the code writes.
LEMMA Known ==
  /\ "ReconcileSucceeded" \in ReadyReasons
  /\ "Initialized" \in ProcessingReasons /\ "Updated" \in ProcessingReasons
  /\ "CredentialsNamespaceChanged" \in ProcessingReasons
  /\ "ClusterIdChanged" \in ProcessingReasons
  /\ "HardDeleting" \in DeletingReasons /\ "SoftDeleting" \in DeletingReasons
  /\ "MissingSecret" \in WarningReasons /\ NotCleaned \in WarningReasons
BY DEF ReadyReasons, ProcessingReasons, DeletingReasons, WarningReasons, NotCleaned

\* The error reasons the code writes.
LEMMA Errors ==
  /\ FailureReasons \subseteq ErrorReasons
  /\ {"InvalidSecret", "ResourceRemovalFailed", "ReconcileFailed",
      "GettingDefaultCredentialsSecretFailed",
      "GettingSapBtpServiceOperatorConfigMapFailed"} \subseteq ErrorReasons
BY ConstantsAssumption DEF ErrorReasons

\* A status is a pair.
LEMMA GoalParts ==
  \A s \in Goals : s = <<s[1], s[2]>> /\ s[1] \in States /\ s[2] \in Reasons
BY SMTT(20) DEF Goals

\* The CR before it has a status.
LEMMA FirstVersions ==
  /\ Gone \in Versions /\ <<Gone.st, Gone.rs>> \in Statuses
  /\ New \in Versions /\ <<New.st, New.rs>> \in Statuses
<1>1. Gone \in Versions /\ New \in Versions
  BY DEF Versions, States, Gone, New
<1>2. Gone.st = "absent" /\ Gone.rs = "none" /\ New.st = "initial" /\ New.rs = "none"
  BY DEF Gone, New
<1>3. <<"absent", "none">> \in Statuses /\ <<"initial", "none">> \in Statuses
  BY DEF Statuses
<1> QED
  BY <1>1, <1>2, <1>3

\* A version with a new status is a version.
LEMMA NewStatus ==
  ASSUME NEW v \in Versions, NEW s \in Goals
  PROVE  /\ [v EXCEPT !.st = s[1], !.rs = s[2]] \in Versions
         /\ <<[v EXCEPT !.st = s[1], !.rs = s[2]].st, [v EXCEPT !.st = s[1], !.rs = s[2]].rs>> = s
<1> DEFINE u == [v EXCEPT !.st = s[1], !.rs = s[2]]
<1>1. s = <<s[1], s[2]>> /\ s[1] \in States /\ s[2] \in Reasons
  BY GoalParts
<1>2. u.st = s[1] /\ u.rs = s[2]
  BY DEF Versions
<1>3. u \in Versions
  BY <1>1, ZenonT(30) DEF Versions
<1> QED
  BY <1>1, <1>2, <1>3

\* A version with new finalizers or a deletionTimestamp is a version.
LEMMA NewMarks ==
  ASSUME NEW v \in Versions, NEW m \in SUBSET {"fin", "foreign", "del"}
  PROVE  /\ [v EXCEPT !.marks = m] \in Versions
         /\ [v EXCEPT !.marks = m].st = v.st
         /\ [v EXCEPT !.marks = m].rs = v.rs
BY DEF Versions

\* The initial states are well typed and consistent.
LEMMA InitType == Init => TypeOK /\ StatusSound
<1> SUFFICES ASSUME Init PROVE TypeOK /\ StatusSound
  OBVIOUS
<1>1. Flags
  BY ZenonT(30) DEF Init, Flags
<1>2. Shapes
  BY SMTT(20), ConstantsAssumption, Written, Known, FirstVersions DEF Init, Shapes
<1>3. StatusSound
  BY FirstVersions DEF Init, StatusSound, StatusConsistent
<1> QED
  BY <1>1, <1>2, <1>3 DEF TypeOK

\* A stored version of the CR is the new one, unless the CR is dropped.
LEMMA StoreType ==
  ASSUME TypeOK, NEW new \in Versions, Store(new), <<new.st, new.rs>> \in Statuses
  PROVE  /\ cr' \in Versions /\ stream' \in Seq(Versions) /\ Len(stream') <= MaxLag
         /\ StatusConsistent'
<1>1. cr' \in Versions /\ StatusConsistent'
  BY FirstVersions DEF Store, Kept, StatusConsistent
<1>2. stream \in Seq(Versions) /\ Len(stream) < MaxLag /\ stream' = Append(stream, cr')
  BY DEF Store, TypeOK, Shapes
<1>3. stream' \in Seq(Versions) /\ Len(stream') <= MaxLag
  BY SMTT(20), <1>1, <1>2, ConstantsAssumption
<1> QED BY <1>1, <1>3
-----------------------------------------------------------------------------
(* The actions keep TypeOK and StatusSound.                                 *)
\* The step A keeps the types and the statuses.
KeepsTypes(A) == TypeOK /\ StatusSound /\ A => TypeOK' /\ StatusSound'

-----------------------------------------------------------------------------
\* Every step keeps TypeOK and StatusSound.
LEMMA NextType ==
  TypeOK /\ StatusSound /\ [Next]_vars
    => TypeOK' /\ StatusSound'
<1>1. KeepsTypes(Reconcile)
  <2> SUFFICES ASSUME TypeOK, StatusSound, Reconcile PROVE TypeOK' /\ StatusSound'
    BY DEF KeepsTypes
  <2> USE DEF TypeOK, Reconcile, Run, SetStatus, HandleWarningState, Dispatch, Update, world, loop,
        bounds, process, Ok, Fail
  <2>1. Flags'
    BY ZenonT(30) DEF Flags
  <2>2. Shapes'
    BY SMTT(20), ConstantsAssumption, Written, Known, Errors DEF Shapes
  <2>3. StatusSound'
    BY Written, Known, Errors DEF StatusSound, StatusConsistent, Shapes
  <2> QED BY <2>1, <2>2, <2>3
<1>2. KeepsTypes(GetStatus)
  <2> SUFFICES ASSUME TypeOK, StatusSound, GetStatus PROVE TypeOK' /\ StatusSound'
    BY DEF KeepsTypes
  <2> USE DEF TypeOK, GetStatus, UpdateReturns, UpdateFails, Return, ReturnError, RestoreAndFail,
        Restore, TryInstall, AfterHandled, Requeue, world, loop, bounds, process, Ok, Fail
  <2>1. Flags'
    BY ZenonT(30) DEF Flags
  <2>2. mine' \in Versions
    <3>1. [cache EXCEPT !.st = goal[1], !.rs = goal[2]] \in Versions
      BY NewStatus, ZenonT(30) DEF Shapes
    <3>2. \/ mine' = mine \/ mine' = cache
          \/ mine' = [cache EXCEPT !.st = goal[1], !.rs = goal[2]]
      BY ZenonT(30)
    <3> QED BY <3>1, <3>2 DEF Shapes
  <2>3. Shapes'
    BY SMTT(20), <2>2, ConstantsAssumption DEF Shapes
  <2>4. StatusSound'
    BY DEF StatusSound, StatusConsistent, Shapes
  <2> QED BY <2>1, <2>3, <2>4
<1>3. KeepsTypes(SendStatus)
  <2> SUFFICES ASSUME TypeOK, StatusSound, SendStatus PROVE TypeOK' /\ StatusSound'
    BY DEF KeepsTypes
  <2> USE DEF TypeOK, SendStatus, world, loop, bounds, process, Ok, Fail
  <2>1. Flags'
    BY ZenonT(30) DEF Flags, Store
  <2>2. Store([cr EXCEPT !.st = goal[1], !.rs = goal[2]]) =>
          cr' \in Versions /\ stream' \in Seq(Versions) /\ Len(stream') <= MaxLag /\ StatusConsistent'
    <3>1. [cr EXCEPT !.st = goal[1], !.rs = goal[2]] \in Versions
      BY NewStatus, ZenonT(30) DEF Shapes
    <3>2. <<([cr EXCEPT !.st = goal[1], !.rs = goal[2]]).st,
            ([cr EXCEPT !.st = goal[1], !.rs = goal[2]]).rs>> \in Statuses
      BY NewStatus, ZenonT(30) DEF StatusSound, Shapes
    <3> QED BY <3>1, <3>2, StoreType, ZenonT(30)
  <2>3. cr' \in Versions /\ stream' \in Seq(Versions) /\ Len(stream') <= MaxLag /\ StatusConsistent'
    BY <2>2 DEF Shapes, StatusSound, StatusConsistent
  <2>5. Shapes'
    BY SMTT(20), <2>3, ConstantsAssumption DEF Shapes
  <2>6. StatusSound'
    BY <2>3 DEF StatusSound
  <2> QED BY <2>1, <2>5, <2>6
<1>4. KeepsTypes(StatusUpdateTimeout)
  <2> SUFFICES ASSUME TypeOK, StatusSound, StatusUpdateTimeout PROVE TypeOK' /\ StatusSound'
    BY DEF KeepsTypes
  <2> USE DEF TypeOK, StatusUpdateTimeout, UpdateReturns, UpdateFails, Return, ReturnError,
        RestoreAndFail, Restore, TryInstall, AfterHandled, Requeue, world, loop, bounds,
        process, Ok, Fail
  <2>1. Flags'
    BY ZenonT(30) DEF Flags
  <2>2. Shapes'
    BY ConstantsAssumption, Written, Known, Errors DEF Shapes
  <2>3. StatusSound'
    BY Written, Known, Errors DEF StatusSound, StatusConsistent, Shapes
  <2> QED BY <2>1, <2>2, <2>3
<1>5. KeepsTypes(AddFinalizer)
  <2> SUFFICES ASSUME TypeOK, StatusSound, AddFinalizer PROVE TypeOK' /\ StatusSound'
    BY DEF KeepsTypes
  <2> USE DEF TypeOK, AddFinalizer, ReturnError, world, loop, bounds, process, Ok, Fail
  <2>1. Flags'
    BY ZenonT(30) DEF Flags, Store
  <2>2. Store([cr EXCEPT !.marks = @ \cup {"fin"}]) =>
          cr' \in Versions /\ stream' \in Seq(Versions) /\ Len(stream') <= MaxLag /\ StatusConsistent'
    <3> HIDE DEF AddFinalizer
    <3>0. cr \in Versions /\ cr.marks \cup {"fin"} \in SUBSET {"fin", "foreign", "del"}
      BY DEF Shapes, Versions
    <3>1. [cr EXCEPT !.marks = @ \cup {"fin"}] \in Versions
      BY <3>0, NewMarks
    <3>2. <<([cr EXCEPT !.marks = @ \cup {"fin"}]).st,
            ([cr EXCEPT !.marks = @ \cup {"fin"}]).rs>> \in Statuses
      BY <3>0, NewMarks DEF StatusSound, StatusConsistent
    <3> QED BY <3>1, <3>2, StoreType, ZenonT(30)
  <2>3. cr' \in Versions /\ stream' \in Seq(Versions) /\ Len(stream') <= MaxLag /\ StatusConsistent'
    BY <2>2 DEF Shapes, StatusSound, StatusConsistent
  <2>5. Shapes'
    BY SMTT(20), <2>3, ConstantsAssumption DEF Shapes
  <2>6. StatusSound'
    BY <2>3 DEF StatusSound
  <2> QED BY <2>1, <2>5, <2>6
<1>6. KeepsTypes(Provision)
  <2> SUFFICES ASSUME TypeOK, StatusSound, Provision PROVE TypeOK' /\ StatusSound'
    BY DEF KeepsTypes
  <2> USE DEF TypeOK, Provision, Update, TryInstall, SecretProblem, ProvisionFailure, world, loop,
        bounds, process, Ok, Fail
  <2>1. Flags'
    BY ZenonT(30) DEF Flags
  <2>2. Shapes'
    BY SMTT(20), ConstantsAssumption, Written, Known, Errors DEF Shapes
  <2>3. StatusSound'
    BY Written, Known, Errors DEF StatusSound, StatusConsistent, Shapes
  <2> QED BY <2>1, <2>2, <2>3
<1>7. KeepsTypes(CheckReady)
  <2> SUFFICES ASSUME TypeOK, StatusSound, CheckReady PROVE TypeOK' /\ StatusSound'
    BY DEF KeepsTypes
  <2> USE DEF TypeOK, CheckReady, Update, TryInstall, SecretProblem, Requeue, world, loop, bounds,
        process, Ok, Fail
  <2>1. Flags'
    BY ZenonT(30) DEF Flags
  <2>2. Shapes'
    BY SMTT(20), ConstantsAssumption, Written, Known, Errors DEF Shapes
  <2>3. StatusSound'
    BY Written, Known, Errors DEF StatusSound, StatusConsistent, Shapes
  <2> QED BY <2>1, <2>2, <2>3
<1>8. KeepsTypes(Deprovision)
  <2> SUFFICES ASSUME TypeOK, StatusSound, Deprovision PROVE TypeOK' /\ StatusSound'
    BY DEF KeepsTypes
  <2> USE DEF TypeOK, Deprovision, AfterHandled, Restore, TryInstall, RestoreAndFail, ReturnError,
        Update, world, loop, bounds, process, Ok, Fail
  <2>1. Flags'
    BY ZenonT(30) DEF Flags
  <2>2. Shapes'
    BY SMTT(20), ConstantsAssumption, Written, Known, Errors DEF Shapes
  <2>3. StatusSound'
    BY Written, Known, Errors DEF StatusSound, StatusConsistent, Shapes
  <2> QED BY <2>1, <2>2, <2>3
<1>9. KeepsTypes(HardDelete)
  <2> SUFFICES ASSUME TypeOK, StatusSound, HardDelete PROVE TypeOK' /\ StatusSound'
    BY DEF KeepsTypes
  <2> USE DEF TypeOK, HardDelete, Update, world, loop, bounds, process, Ok, Fail
  <2>1. Flags'
    BY ZenonT(30) DEF Flags
  <2>2. Shapes'
    BY SMTT(20), ConstantsAssumption, Written, Known, Errors DEF Shapes
  <2>3. StatusSound'
    BY Written, Known, Errors DEF StatusSound, StatusConsistent, Shapes
  <2> QED BY <2>1, <2>2, <2>3
<1>10. KeepsTypes(RemoveResources)
  <2> SUFFICES ASSUME TypeOK, StatusSound, RemoveResources PROVE TypeOK' /\ StatusSound'
    BY DEF KeepsTypes
  <2> USE DEF TypeOK, RemoveResources, RestoreRemoved, Update, world, loop, bounds, process, Ok, Fail
  <2>1. Flags'
    BY ZenonT(30) DEF Flags
  <2>2. Shapes'
    BY SMTT(20), ConstantsAssumption, Written, Known, Errors DEF Shapes
  <2>3. StatusSound'
    BY Written, Known, Errors DEF StatusSound, StatusConsistent, Shapes
  <2> QED BY <2>1, <2>2, <2>3
<1>11. KeepsTypes(SoftDelete)
  <2> SUFFICES ASSUME TypeOK, StatusSound, SoftDelete PROVE TypeOK' /\ StatusSound'
    BY DEF KeepsTypes
  <2> USE DEF TypeOK, SoftDelete, RestoreRemoved, ReturnError, world, loop, bounds, process, Ok, Fail
  <2>1. Flags'
    BY ZenonT(30) DEF Flags
  <2>2. Shapes'
    BY SMTT(20), ConstantsAssumption, Written, Known, Errors DEF Shapes
  <2>3. StatusSound'
    BY Written, Known, Errors DEF StatusSound, StatusConsistent, Shapes
  <2> QED BY <2>1, <2>2, <2>3
<1>12. KeepsTypes(Recount)
  <2> SUFFICES ASSUME TypeOK, StatusSound, Recount PROVE TypeOK' /\ StatusSound'
    BY DEF KeepsTypes
  <2> USE DEF TypeOK, Recount, Return, Requeue, ReturnError, world, loop, bounds, process, Ok, Fail
  <2>1. Flags'
    BY ZenonT(30) DEF Flags
  <2>2. Shapes'
    BY SMTT(20), ConstantsAssumption, Written, Known, Errors DEF Shapes
  <2>3. StatusSound'
    BY Written, Known, Errors DEF StatusSound, StatusConsistent, Shapes
  <2> QED BY <2>1, <2>2, <2>3
<1>13. KeepsTypes(RemoveFinalizer)
  <2> SUFFICES ASSUME TypeOK, StatusSound, RemoveFinalizer PROVE TypeOK' /\ StatusSound'
    BY DEF KeepsTypes
  <2> USE DEF TypeOK, RemoveFinalizer, Return, Requeue, ReturnError, world, loop, bounds, process, Ok,
        Fail
  <2>1. Flags'
    BY ZenonT(30) DEF Flags, Store
  <2>2. Store([cr EXCEPT !.marks = @ \ {"fin"}]) =>
          cr' \in Versions /\ stream' \in Seq(Versions) /\ Len(stream') <= MaxLag /\ StatusConsistent'
    <3> HIDE DEF RemoveFinalizer
    <3>0. cr \in Versions /\ cr.marks \ {"fin"} \in SUBSET {"fin", "foreign", "del"}
      BY DEF Shapes, Versions
    <3>1. [cr EXCEPT !.marks = @ \ {"fin"}] \in Versions
      BY <3>0, NewMarks
    <3>2. <<([cr EXCEPT !.marks = @ \ {"fin"}]).st,
            ([cr EXCEPT !.marks = @ \ {"fin"}]).rs>> \in Statuses
      BY <3>0, NewMarks DEF StatusSound, StatusConsistent
    <3> QED BY <3>1, <3>2, StoreType, ZenonT(30)
  <2>3. cr' \in Versions /\ stream' \in Seq(Versions) /\ Len(stream') <= MaxLag /\ StatusConsistent'
    BY <2>2 DEF Shapes, StatusSound, StatusConsistent
  <2>5. Shapes'
    BY SMTT(20), <2>3, ConstantsAssumption DEF Shapes
  <2>6. StatusSound'
    BY <2>3 DEF StatusSound
  <2> QED BY <2>1, <2>5, <2>6
<1>14. KeepsTypes(UserCreatesCr)
  <2> SUFFICES ASSUME TypeOK, StatusSound, UserCreatesCr PROVE TypeOK' /\ StatusSound'
    BY DEF KeepsTypes
  <2> USE DEF TypeOK, UserCreatesCr, world, loop, bounds, process, Ok, Fail
  <2>1. Flags'
    BY ZenonT(30) DEF Flags, Store
  <2>2. Store(New) =>
          cr' \in Versions /\ stream' \in Seq(Versions) /\ Len(stream') <= MaxLag /\ StatusConsistent'
    <3>1. New \in Versions
      BY FirstVersions DEF Shapes
    <3>2. <<(New).st, (New).rs>> \in Statuses
      BY FirstVersions DEF StatusSound, StatusConsistent, Shapes, Versions
    <3> QED BY <3>1, <3>2, StoreType
  <2>3. cr' \in Versions /\ stream' \in Seq(Versions) /\ Len(stream') <= MaxLag /\ StatusConsistent'
    BY <2>2 DEF Shapes, StatusSound, StatusConsistent
  <2>5. Shapes'
    BY SMTT(20), <2>3, ConstantsAssumption DEF Shapes
  <2>6. StatusSound'
    BY <2>3 DEF StatusSound
  <2> QED BY <2>1, <2>5, <2>6
<1>15. KeepsTypes(UserDeletesCr)
  <2> SUFFICES ASSUME TypeOK, StatusSound, UserDeletesCr PROVE TypeOK' /\ StatusSound'
    BY DEF KeepsTypes
  <2> USE DEF TypeOK, UserDeletesCr, world, loop, bounds, process, Ok, Fail
  <2>1. Flags'
    BY ZenonT(30) DEF Flags, Store
  <2>2. PICK m \in {{"del"}, {"del", "foreign"}} : Store([cr EXCEPT !.marks = @ \cup m])
    OBVIOUS
  <2>3. [cr EXCEPT !.marks = @ \cup m] \in Versions
    BY FirstVersions DEF Shapes, Versions
  <2>4. cr' \in Versions /\ stream' \in Seq(Versions) /\ Len(stream') <= MaxLag /\ StatusConsistent'
    BY <2>2, <2>3, StoreType, ZenonT(30) DEF StatusSound, StatusConsistent, Shapes, Versions
  <2>5. Shapes'
    BY SMTT(20), <2>4, ConstantsAssumption DEF Shapes
  <2>6. StatusSound'
    BY <2>4 DEF StatusSound
  <2> QED BY <2>1, <2>5, <2>6
<1>16. KeepsTypes(UserEditsCr)
  <2> SUFFICES ASSUME TypeOK, StatusSound, UserEditsCr PROVE TypeOK' /\ StatusSound'
    BY DEF KeepsTypes
  <2> USE DEF TypeOK, UserEditsCr, Edit, world, loop, bounds, process, Ok, Fail
  <2>1. Flags'
    BY ZenonT(30) DEF Flags, Store
  <2>2. Store(cr) =>
          cr' \in Versions /\ stream' \in Seq(Versions) /\ Len(stream') <= MaxLag /\ StatusConsistent'
    <3>1. cr \in Versions
      BY FirstVersions DEF Shapes, Versions
    <3>2. <<(cr).st, (cr).rs>> \in Statuses
      BY FirstVersions DEF StatusSound, StatusConsistent, Shapes, Versions
    <3> QED BY <3>1, <3>2, StoreType
  <2>3. cr' \in Versions /\ stream' \in Seq(Versions) /\ Len(stream') <= MaxLag /\ StatusConsistent'
    BY <2>2 DEF Shapes, StatusSound, StatusConsistent
  <2>5. Shapes'
    BY SMTT(20), <2>3, ConstantsAssumption DEF Shapes
  <2>6. StatusSound'
    BY <2>3 DEF StatusSound
  <2> QED BY <2>1, <2>5, <2>6
<1>17. KeepsTypes(UserEditsSecret)
  <2> SUFFICES ASSUME TypeOK, StatusSound, UserEditsSecret PROVE TypeOK' /\ StatusSound'
    BY DEF KeepsTypes
  <2> USE DEF TypeOK, UserEditsSecret, Edit, world, loop, bounds, process, Ok, Fail
  <2>1. Flags'
    BY ZenonT(30) DEF Flags
  <2>2. Shapes'
    BY SMTT(20), ConstantsAssumption, Written, Known, Errors DEF Shapes
  <2>3. StatusSound'
    BY Written, Known, Errors DEF StatusSound, StatusConsistent, Shapes
  <2> QED BY <2>1, <2>2, <2>3
<1>18. KeepsTypes(UserBlocks)
  <2> SUFFICES ASSUME TypeOK, StatusSound, UserBlocks PROVE TypeOK' /\ StatusSound'
    BY DEF KeepsTypes
  <2> USE DEF TypeOK, UserBlocks, Edit, world, loop, bounds, process, Ok, Fail
  <2>1. Flags'
    BY ZenonT(30) DEF Flags
  <2>2. Shapes'
    BY SMTT(20), ConstantsAssumption, Written, Known, Errors DEF Shapes
  <2>3. StatusSound'
    BY Written, Known, Errors DEF StatusSound, StatusConsistent, Shapes
  <2> QED BY <2>1, <2>2, <2>3
<1>19. KeepsTypes(GarbageCollect)
  <2> SUFFICES ASSUME TypeOK, StatusSound, GarbageCollect PROVE TypeOK' /\ StatusSound'
    BY DEF KeepsTypes
  <2> USE DEF TypeOK, GarbageCollect, world, loop, bounds, process, Ok, Fail
  <2>1. Flags'
    BY ZenonT(30) DEF Flags, Store
  <2>2. Store([cr EXCEPT !.marks = @ \ {"foreign"}]) =>
          cr' \in Versions /\ stream' \in Seq(Versions) /\ Len(stream') <= MaxLag /\ StatusConsistent'
    <3> HIDE DEF GarbageCollect
    <3>0. cr \in Versions /\ cr.marks \ {"foreign"} \in SUBSET {"fin", "foreign", "del"}
      BY DEF Shapes, Versions
    <3>1. [cr EXCEPT !.marks = @ \ {"foreign"}] \in Versions
      BY <3>0, NewMarks
    <3>2. <<([cr EXCEPT !.marks = @ \ {"foreign"}]).st,
            ([cr EXCEPT !.marks = @ \ {"foreign"}]).rs>> \in Statuses
      BY <3>0, NewMarks DEF StatusSound, StatusConsistent
    <3> QED BY <3>1, <3>2, StoreType, ZenonT(30)
  <2>3. cr' \in Versions /\ stream' \in Seq(Versions) /\ Len(stream') <= MaxLag /\ StatusConsistent'
    BY <2>2 DEF Shapes, StatusSound, StatusConsistent
  <2>5. Shapes'
    BY SMTT(20), <2>3, ConstantsAssumption DEF Shapes
  <2>6. StatusSound'
    BY <2>3 DEF StatusSound
  <2> QED BY <2>1, <2>5, <2>6
<1>20. KeepsTypes(ModuleEvent)
  <2> SUFFICES ASSUME TypeOK, StatusSound, ModuleEvent PROVE TypeOK' /\ StatusSound'
    BY DEF KeepsTypes
  <2> USE DEF TypeOK, ModuleEvent, world, loop, bounds, process, Ok, Fail
  <2>1. Flags'
    BY ZenonT(30) DEF Flags
  <2>2. Shapes'
    BY SMTT(20), ConstantsAssumption, Written, Known, Errors DEF Shapes
  <2>3. StatusSound'
    BY Written, Known, Errors DEF StatusSound, StatusConsistent, Shapes
  <2> QED BY <2>1, <2>2, <2>3
<1>21. KeepsTypes(InformerDelivers)
  <2> SUFFICES ASSUME TypeOK, StatusSound, InformerDelivers PROVE TypeOK' /\ StatusSound'
    BY DEF KeepsTypes
  <2> USE DEF TypeOK, InformerDelivers, Wakes, world, loop, bounds, process, Ok, Fail
  <2>1. Flags'
    BY ZenonT(30) DEF Flags
  <2>2. Shapes'
    BY SMTT(20), ConstantsAssumption, Written, Known, Errors DEF Shapes
  <2>3. StatusSound'
    BY Written, Known, Errors DEF StatusSound, StatusConsistent, Shapes
  <2> QED BY <2>1, <2>2, <2>3
<1>22. KeepsTypes(TimerFires)
  <2> SUFFICES ASSUME TypeOK, StatusSound, TimerFires PROVE TypeOK' /\ StatusSound'
    BY DEF KeepsTypes
  <2> USE DEF TypeOK, TimerFires, world, loop, bounds, process, Ok, Fail
  <2>1. Flags'
    BY ZenonT(30) DEF Flags
  <2>2. Shapes'
    BY SMTT(20), ConstantsAssumption, Written, Known, Errors DEF Shapes
  <2>3. StatusSound'
    BY Written, Known, Errors DEF StatusSound, StatusConsistent, Shapes
  <2> QED BY <2>1, <2>2, <2>3
<1>23. KeepsTypes(Crash)
  <2> SUFFICES ASSUME TypeOK, StatusSound, Crash PROVE TypeOK' /\ StatusSound'
    BY DEF KeepsTypes
  <2> USE DEF TypeOK, Crash, world, loop, bounds, process, Ok, Fail
  <2>1. Flags'
    BY ZenonT(30) DEF Flags
  <2>2. Shapes'
    BY SMTT(20), ConstantsAssumption, Written, Known, Errors DEF Shapes
  <2>3. StatusSound'
    BY Written, Known, Errors DEF StatusSound, StatusConsistent, Shapes
  <2> QED BY <2>1, <2>2, <2>3
<1> SUFFICES ASSUME TypeOK, StatusSound, [Next]_vars
             PROVE  TypeOK' /\ StatusSound'
  OBVIOUS
<1>24. CASE Handler
  BY <1>24, <1>5, <1>6, <1>7, <1>8, <1>9, <1>10, <1>11, <1>12, <1>13 DEF Handler, KeepsTypes
<1>25. CASE Worker
  BY <1>25, <1>24, <1>1, <1>2, <1>3, <1>4 DEF Worker, StatusUpdate, KeepsTypes
<1>26. CASE Users
  BY <1>26, <1>14, <1>15, <1>16, <1>17, <1>18 DEF Users, KeepsTypes
<1>27. CASE GarbageCollect \/ ModuleEvent \/ InformerDelivers \/ TimerFires \/ Crash
  BY <1>27, <1>19, <1>20, <1>21, <1>22, <1>23 DEF KeepsTypes
<1>28. CASE UNCHANGED vars
  <2> USE <1>28 DEF vars, world, loop, bounds
  <2>1. Flags'
    BY DEF TypeOK, Flags
  <2>2. Shapes'
    BY SMTT(20) DEF TypeOK, Shapes
  <2>3. StatusSound'
    BY DEF StatusSound, StatusConsistent
  <2> QED BY <2>1, <2>2, <2>3 DEF TypeOK
<1> QED
  BY <1>25, <1>26, <1>27, <1>28 DEF Next

\* Every variable keeps its type in every behaviour.
THEOREM TypeCorrect == Spec => []TypeOK
<1>1. TypeOK /\ StatusSound /\ [Next]_vars => (TypeOK /\ StatusSound)'
  BY NextType
<1> QED
  BY InitType, <1>1, PTL DEF Spec

\* Whatever the order of passes, events, failures and restarts, the state of
\* the CR is the one its reason stands for.
THEOREM StatusIsConsistent == Spec => []StatusConsistent
<1>1. TypeOK /\ StatusSound /\ [Next]_vars => (TypeOK /\ StatusSound)'
  BY NextType
<1>2. StatusSound => StatusConsistent
  BY DEF StatusSound
<1> QED
  BY InitType, <1>1, <1>2, PTL DEF Spec
-----------------------------------------------------------------------------
(* No wake-up is lost.                                                      *)
\* What a step may do to the CR: deletion and our finalizer are not undone
\* while the CR lives, and the CR does not come back.
Advances ==
  /\ Dying => Dying'
  /\ "fin" \in cr.marks => Dying' \/ "fin" \in cr'.marks
  /\ cr' # Gone => cr # Gone

\* A stored version goes to the end of the stream.
LEMMA StreamGrows ==
  ASSUME TypeOK, TypeOK', NEW v, Store(v), cache' = cache
  PROVE  /\ LastVersion' = cr'
         /\ WakeUpComing => WakeUpComing'
         /\ Wakes(LastVersion, cr') => WakeUpComing'
         /\ \A i \in 1..Len(stream') :
              stream'[i] = cr' \/ (i \in 1..Len(stream) /\ stream'[i] = stream[i])
<1>1. stream \in Seq(Versions) /\ stream' = Append(stream, cr') /\ cr' \in Versions
  BY DEF Store, TypeOK, Shapes
<1>2. /\ Len(stream') = Len(stream) + 1 /\ stream'[Len(stream) + 1] = cr'
      /\ \A i \in 1..Len(stream) : stream'[i] = stream[i]
      /\ Len(stream) \in Nat /\ stream' # <<>>
  BY SMTT(20), <1>1
<1>3. LastVersion' = cr'
  BY <1>2 DEF LastVersion
<1>4. WakeUpComing => WakeUpComing'
  <2> SUFFICES ASSUME NEW i \in 1..Len(stream),
                      Wakes(IF i = 1 THEN cache ELSE stream[i-1], stream[i])
               PROVE  WakeUpComing'
    BY DEF WakeUpComing
  <2>1. /\ i \in 1..Len(stream') /\ stream'[i] = stream[i]
        /\ i # 1 => stream'[i-1] = stream[i-1]
    BY SMTT(20), <1>2
  <2>2. Wakes(IF i = 1 THEN cache' ELSE stream'[i-1], stream'[i])
    BY <2>1 DEF Wakes
  <2> QED BY <2>1, <2>2 DEF WakeUpComing, Wakes
<1>5. Wakes(LastVersion, cr') => WakeUpComing'
  <2> SUFFICES ASSUME Wakes(LastVersion, cr') PROVE WakeUpComing'
    OBVIOUS
  <2> DEFINE n == Len(stream) + 1
  <2>1. n \in 1..Len(stream') /\ stream'[n] = cr'
    BY SMTT(20), <1>2
  <2>2. (IF n = 1 THEN cache' ELSE stream'[n-1]) = LastVersion
    <3>1. CASE stream = <<>>
      BY SMTT(20), <3>1 DEF LastVersion
    <3>2. CASE stream # <<>>
      <4>1. Len(stream) \in 1..Len(stream)
        BY SMTT(20), <1>1, <3>2
      <4> QED BY SMTT(20), <4>1, <1>2, <3>2 DEF LastVersion
    <3> QED BY <3>1, <3>2
  <2>3. Wakes(IF n = 1 THEN cache' ELSE stream'[n-1], stream'[n])
    BY <2>1, <2>2
  <2> HIDE DEF n
  <2> QED BY <2>1, <2>3 DEF WakeUpComing, Wakes
<1>6. \A i \in 1..Len(stream') :
        stream'[i] = cr' \/ (i \in 1..Len(stream) /\ stream'[i] = stream[i])
  BY SMTT(20), <1>2
<1> QED BY <1>3, <1>4, <1>5, <1>6

\* A delivered version leaves the stream at its head.
LEMMA StreamShrinks ==
  ASSUME TypeOK, stream # <<>>, cache' = Head(stream), stream' = Tail(stream)
  PROVE  /\ LastVersion' = LastVersion
         /\ WakeUpComing => Wakes(cache, Head(stream)) \/ WakeUpComing'
         /\ \A i \in 1..Len(stream') : i + 1 \in 1..Len(stream) /\ stream'[i] = stream[i+1]
         /\ 1 \in 1..Len(stream) /\ Head(stream) = stream[1]
<1>1. stream \in Seq(Versions)
  BY DEF TypeOK, Shapes
<1>2. /\ Len(stream) \in Nat \ {0} /\ Len(stream') = Len(stream) - 1
      /\ Head(stream) = stream[1]
      /\ \A i \in 1..Len(stream') : stream'[i] = stream[i+1]
      /\ stream' = <<>> <=> Len(stream) = 1
  <2>1. Len(stream) \in Nat \ {0} /\ Head(stream) = stream[1]
    BY SMTT(20), <1>1
  <2>2. Len(stream') = Len(stream) - 1 /\ \A i \in 1..Len(stream') : stream'[i] = stream[i+1]
    BY SMTT(20), <1>1
  <2>3. stream' \in Seq(Versions)
    BY SMTT(20), <1>1
  <2>4. stream' = <<>> <=> Len(stream) = 1
    BY SMTT(20), <2>1, <2>2, <2>3
  <2> QED BY <2>1, <2>2, <2>4
<1>3. LastVersion' = LastVersion
  BY SMTT(20), <1>2 DEF LastVersion
<1>4. WakeUpComing => Wakes(cache, Head(stream)) \/ WakeUpComing'
  <2> SUFFICES ASSUME NEW i \in 1..Len(stream),
                      Wakes(IF i = 1 THEN cache ELSE stream[i-1], stream[i]),
                      i # 1
               PROVE  WakeUpComing'
    BY <1>2 DEF WakeUpComing
  <2> DEFINE j == i - 1
  <2>1. /\ j \in 1..Len(stream') /\ stream'[j] = stream[i]
        /\ (IF j = 1 THEN cache' ELSE stream'[j-1]) = stream[i-1]
    BY SMTT(20), <1>2
  <2>2. Wakes(IF j = 1 THEN cache' ELSE stream'[j-1], stream'[j])
    BY <2>1
  <2> HIDE DEF j
  <2> QED BY <2>1, <2>2 DEF WakeUpComing, Wakes
<1> QED BY SMTT(20), <1>2, <1>3, <1>4

\* An existing CR that the cache does not show yet will be reported.
LEMMA Announced ==
  ASSUME TypeOK, StreamSound, cache = Gone, cr # Gone
  PROVE  WakeUpComing
<1>1. stream \in Seq(Versions) /\ stream # <<>>
  BY DEF TypeOK, Shapes, StreamSound, LastVersion
<1>2. 1 \in 1..Len(stream)
  BY SMTT(20), <1>1
<1> QED BY <1>2 DEF WakeUpComing, Wakes

\* What was settled stays settled.
LEMMA SettledStays ==
  ASSUME Advances, NEW v, Settled(v)
  PROVE  /\ "del" \in v.marks \/ v.st = "Deleting" \/ v.rs = NotCleaned => Dying'
         /\ "fin" \in v.marks => Dying' \/ "fin" \in cr'.marks
BY DEF Advances, Settled

\* A step that stores a version keeps the stream sound if the version fits.
LEMMA StreamStored ==
  ASSUME TypeOK, TypeOK', StreamSound, NEW v, Store(v), cache' = cache, Advances,
         Settled(cr)', Untouched'
  PROVE  StreamSound'
<1>1. /\ LastVersion' = cr'
      /\ \A i \in 1..Len(stream') :
           stream'[i] = cr' \/ (i \in 1..Len(stream) /\ stream'[i] = stream[i])
  BY StreamGrows
<1>2. Settled(cache)'
  BY DEF StreamSound, Settled, Advances
<1>3. ASSUME NEW i \in 1..Len(stream')
      PROVE  Settled(stream[i])' /\ (cr' # Gone => stream'[i] # Gone)
  <2>1. CASE stream'[i] = cr'
    BY <2>1 DEF Settled
  <2>2. CASE i \in 1..Len(stream) /\ stream'[i] = stream[i]
    <3>1. Settled(stream[i]) /\ (cr # Gone => stream[i] # Gone)
      BY <2>2 DEF StreamSound
    <3> QED BY <3>1, <2>2 DEF Settled, Advances
  <2> QED BY <1>1, <2>1, <2>2
<1> QED BY <1>1, <1>2, <1>3 DEF StreamSound

\* The first creation of the CR finds nothing left of an earlier one.
LEMMA Creation ==
  ASSUME TypeOK, TypeOK', WakeUps, UserCreatesCr, MaxCreates \in {0, 1}
  PROVE  /\ creates' = 1 /\ cr' = New /\ cache' = Gone /\ pc' = "idle"
         /\ stream' = <<New>> /\ LastVersion = Gone /\ fresh' = FALSE
<1>1. creates = 0 /\ creates' = 1
  BY SMTT(20), ConstantsAssumption DEF UserCreatesCr, TypeOK, Shapes
<1>2. cache = Gone /\ stream = <<>> /\ pc = "idle"
  BY <1>1 DEF WakeUps, NothingYet
<1>3. cr' = New /\ stream' = Append(stream, New)
  BY DEF UserCreatesCr, Store, Kept, New
<1> QED BY SMTT(20), <1>1, <1>2, <1>3 DEF UserCreatesCr, process, LastVersion

\* A step that leaves the CR and its versions alone keeps the stream sound.
LEMMA StreamKept == ASSUME StreamSound, UNCHANGED <<cr, stream, cache>>
                    PROVE  StreamSound' /\ Advances /\ (WakeUpComing => WakeUpComing')
BY DEF Advances, WakeUpComing, Wakes, StreamSound, Settled, Untouched, Dying, LastVersion

-----------------------------------------------------------------------------
(* What the steps do to the worker's pass. A step of one of these kinds     *)
(* leaves the CR and its versions alone.                                    *)
Still == UNCHANGED <<cr, stream, cache, doomed, creates>>

\* Nothing happens to the pass, and a request for a reconcile is not dropped.
Apart ==
  /\ Still /\ UNCHANGED <<installed, pc, job, mine, fresh, goal, after, sent>>
  /\ queued => queued'
  /\ timer => queued' \/ timer'

\* Provisioning and the check of a Ready module rest or report.
Provisions ==
  /\ Still /\ UNCHANGED <<job, mine, fresh>> /\ pc \in {"provision", "ready"}
  /\ installed => installed'
  /\ \/ pc' = "idle" /\ timer'
     \/ /\ pc' = "get" /\ after' = "return" /\ sent' = "nothing"
        /\ goal'[1] # "Deleting" /\ goal'[2] # NotCleaned
        /\ goal'[1] = "Ready" => installed' /\ pc = "provision"

\* Deprovisioning goes on, reports, or rests with a request left.
Deprovisions ==
  /\ Still /\ UNCHANGED <<job, mine, fresh>> /\ pc \in Steps
  /\ \/ pc' = "idle" /\ (queued' \/ timer')
     \/ pc' \in Steps /\ (pc' = "recount" => mine.rs = NotCleaned)
     \/ /\ pc' = "get" /\ after' # "return" /\ sent' = "nothing"
        /\ IF after' = "error" THEN goal'[1] = "Error" ELSE goal'[1] \in {"Deleting", "Warning"}

\* The update of the status is over: the CR is gone, shows the status, or
\* accepted it.
Ended ==
  \/ cache = Gone /\ UNCHANGED <<mine, fresh>>
  \/ cache # Gone /\ <<cache.st, cache.rs>> = goal /\ mine' = cache /\ fresh' = (stream = <<>>)
  \/ sent = "accepted" /\ UNCHANGED <<mine, fresh>>

\* The update of the status sends, goes on to deprovision, or rests.
Updates ==
  /\ Still /\ UNCHANGED <<job, goal, after, sent>> /\ pc = "get"
  /\ installed => installed'
  /\ \/ pc' = "idle" /\ (cr = Gone \/ queued' \/ timer' \/ WakeUpComing)
     \/ /\ pc' \in Steps /\ after \notin {"return", "error"}
        /\ pc' = "recount" => mine'.rs = NotCleaned
        /\ Ended
     \/ pc' = "send" /\ mine'.st = goal[1] /\ fresh' = (stream = <<>>) /\ queued' = queued

\* The steps outside the pass.
LEMMA ApartSteps ==
  UserEditsSecret \/ UserBlocks \/ ModuleEvent \/ TimerFires \/ UNCHANGED vars => Apart
<1>1. UserEditsSecret => Apart
  BY DEF UserEditsSecret, Edit, process, loop, Apart, Still
<1>2. UserBlocks => Apart
  BY SMTT(20) DEF UserBlocks, Edit, process, loop, Apart, Still
<1>3. ModuleEvent => Apart
  BY DEF ModuleEvent, world, bounds, process, loop, Apart, Still
<1>4. TimerFires => Apart
  BY DEF TimerFires, world, bounds, loop, Apart, Still
<1>5. UNCHANGED vars => Apart
  BY SMTT(20) DEF vars, world, bounds, loop, Apart, Still
<1> QED BY <1>1, <1>2, <1>3, <1>4, <1>5

\* The steps of the handlers of Processing and Ready.
LEMMA ProvisionSteps ==
  ASSUME TypeOK, WakeUps, Provision \/ CheckReady
  PROVE  Provisions
<1>1. CASE Provision
  <2>1. Still /\ UNCHANGED <<job, mine, fresh>> /\ pc = "provision"
    BY <1>1 DEF Provision, bounds, Still
  <2>2. /\ pc' = "get" /\ after' = "return" /\ sent' = "nothing"
        /\ goal'[1] # "Deleting" /\ goal'[2] # NotCleaned
        /\ goal'[1] = "Ready" => installed'
    BY SMTT(20), <1>1, ConstantsAssumption
    DEF Provision, Update, SecretProblem, ProvisionFailure, NotCleaned, ErrorReasons
  <2>3. installed => installed'
    BY <1>1, ZenonT(30) DEF Provision, TryInstall
  <2> QED BY <2>1, <2>2, <2>3, ZenonT(30) DEF Provisions
<1>2. CASE CheckReady
  <2>1. Still /\ UNCHANGED <<job, mine, fresh>> /\ pc = "ready"
    BY <1>2 DEF CheckReady, bounds, Still
  <2>2. \/ pc' = "idle" /\ timer' = (timer \/ Requeue(mine.rs))
        \/ /\ pc' = "get" /\ after' = "return" /\ sent' = "nothing"
           /\ goal'[1] \notin {"Deleting", "Ready"} /\ goal'[2] # NotCleaned
    <3>1. drift \in {"none", "CredentialsNamespaceChanged", "ClusterIdChanged"}
      BY DEF TypeOK, Shapes
    <3> QED BY SMTT(20), <1>2, <3>1 DEF CheckReady, Update, SecretProblem, NotCleaned
  <2>3. installed => installed'
    BY <1>2, ZenonT(30) DEF CheckReady, TryInstall
  <2>4. Requeue(mine.rs)
    BY <2>1 DEF WakeUps, PassSound, Requeue
  <2> QED BY <2>1, <2>2, <2>3, <2>4, ZenonT(30) DEF Provisions
<1> QED BY <1>1, <1>2

\* The steps of the handler of Deleting.
LEMMA DeprovisionSteps ==
  ASSUME WakeUps, Deprovision \/ HardDelete \/ RemoveResources \/ SoftDelete \/ Recount
  PROVE  Deprovisions
<1>1. CASE Deprovision
  <2>1. Still /\ UNCHANGED <<job, mine, fresh>> /\ pc \in Steps
    BY <1>1 DEF Deprovision, bounds, Still, Steps
  <2>2. \/ pc' = "idle" /\ queued'
        \/ pc' \in Steps /\ (pc' = "recount" => mine.rs = NotCleaned)
        \/ /\ pc' = "get" /\ after' \in {"blocked", "hard"} /\ sent' = "nothing"
           /\ goal'[1] \in {"Deleting", "Warning"}
    BY SMTT(20), <1>1 DEF Deprovision, AfterHandled, Update, RestoreAndFail, ReturnError, Steps
  <2> QED BY <2>1, <2>2, ZenonT(30) DEF Deprovisions
<1>2. CASE HardDelete
  <2>1. Still /\ UNCHANGED <<job, mine, fresh>> /\ pc \in Steps
    BY <1>2 DEF HardDelete, bounds, Still, Steps
  <2>2. \/ pc' \in Steps \ {"recount"}
        \/ pc' = "get" /\ after' = "soft" /\ sent' = "nothing" /\ goal'[1] = "Deleting"
    BY SMTT(20), <1>2 DEF HardDelete, Update, Steps
  <2> QED BY <2>1, <2>2, ZenonT(30) DEF Deprovisions
<1>3. CASE RemoveResources
  <2>1. Still /\ UNCHANGED <<job, mine, fresh>> /\ pc \in Steps
    BY <1>3 DEF RemoveResources, bounds, Still, Steps
  <2>2. \/ pc' \in Steps /\ (pc' = "recount" => mine.rs = NotCleaned)
        \/ pc' = "get" /\ after' = "error" /\ sent' = "nothing" /\ goal'[1] = "Error"
    BY SMTT(20), <1>3 DEF RemoveResources, Update, Steps
  <2> QED BY <2>1, <2>2, ZenonT(30) DEF Deprovisions
<1>4. CASE SoftDelete
  <2>1. Still /\ UNCHANGED <<job, mine, fresh>> /\ pc \in Steps
    BY <1>4 DEF SoftDelete, bounds, loop, Still, Steps
  <2>2. \/ pc' = "idle" /\ queued'
        \/ pc' \in Steps /\ (pc' = "recount" => mine.rs = NotCleaned)
    BY <1>4 DEF SoftDelete, ReturnError, Steps
  <2> QED BY <2>1, <2>2 DEF Deprovisions
<1>5. CASE Recount
  <2>1. Still /\ UNCHANGED <<job, mine, fresh>> /\ pc = "recount"
    BY <1>5 DEF Recount, bounds, loop, Still
  <2>2. Requeue(mine.rs)
    BY <2>1 DEF WakeUps, PassSound, Requeue
  <2>3. \/ pc' = "idle" /\ (queued' \/ timer')
        \/ pc' = "removeFinalizer"
    BY <1>5, <2>2, ZenonT(30) DEF Recount, Return, ReturnError
  <2> QED BY <2>1, <2>3 DEF Deprovisions, Steps
<1> QED BY <1>1, <1>2, <1>3, <1>4, <1>5

\* The steps of UpdateBtpOperatorStatus that do not write.
LEMMA UpdateSteps ==
  ASSUME TypeOK, WakeUps, GetStatus \/ StatusUpdateTimeout
  PROVE  Updates
<1>1. Still /\ UNCHANGED <<job, goal, after, sent>> /\ pc = "get"
  <2>1. CASE GetStatus
    BY <2>1 DEF GetStatus, loop, bounds, Still
  <2>2. CASE StatusUpdateTimeout
    BY <2>2 DEF StatusUpdateTimeout, loop, bounds, Still
  <2> QED BY <2>1, <2>2
<1>2. /\ job = "deprovision" <=> after # "return"
      /\ job \in {"status", "provision", "ready", "deprovision"}
  BY <1>1 DEF WakeUps, PassSound, TypeOK, Shapes
<1>3. ASSUME UpdateReturns, job = "status" => cr = Gone \/ queued \/ WakeUpComing
      PROVE  /\ installed => installed'
             /\ \/ pc' = "idle" /\ (cr = Gone \/ queued' \/ timer' \/ WakeUpComing)
                \/ /\ pc' \in Steps /\ after \notin {"return", "error"}
                   /\ pc' = "recount" => mine'.rs = NotCleaned
  <2>1. CASE after = "return" /\ Return(mine'.rs)
    <3>1. job # "status" => Requeue(mine'.rs)
      BY <1>2, <2>1 DEF Requeue
    <3> QED BY <1>3, <2>1, <3>1, ZenonT(30) DEF Return
  <2>2. CASE after = "blocked" /\ AfterHandled(mine'.rs)
    <3>1. installed => installed'
      BY <2>2, ZenonT(30) DEF AfterHandled, Restore, TryInstall
    <3> QED BY <2>2, <3>1 DEF AfterHandled, Steps
  <2>3. CASE after = "error" /\ RestoreAndFail
    <3>1. pc' = "idle" /\ queued'
      BY <2>3 DEF RestoreAndFail, ReturnError
    <3>2. installed => installed'
      BY <2>3, ZenonT(30) DEF RestoreAndFail, Restore, TryInstall
    <3> QED BY <3>1, <3>2
  <2>4. CASE after \in {"hard", "soft"} /\ pc' \in {"hardDelete", "softDelete"} /\ UNCHANGED installed
    BY <2>4 DEF Steps
  <2> QED BY <1>3, <2>1, <2>2, <2>3, <2>4 DEF UpdateReturns
<1>4. CASE cache = Gone /\ UNCHANGED <<mine, fresh>> /\ UpdateReturns
  <2>1. cr = Gone \/ WakeUpComing
    BY <1>4, Announced DEF WakeUps
  <2> QED BY <1>1, <1>3, <1>4, <2>1, ZenonT(30) DEF Updates, Ended
<1>5. CASE /\ cache # Gone /\ <<cache.st, cache.rs>> = goal
           /\ mine' = cache /\ fresh' = (stream = <<>>) /\ UpdateReturns
  <2>1. job = "status" => queued
    BY <1>1, <1>5 DEF WakeUps, StatusEventComing
  <2> QED BY <1>1, <1>3, <1>5, <2>1, ZenonT(30) DEF Updates, Ended
<1>6. CASE /\ mine' = [cache EXCEPT !.st = goal[1], !.rs = goal[2]] /\ fresh' = (stream = <<>>)
           /\ pc' = "send" /\ UNCHANGED <<queued, timer, installed>>
  <2>1. mine'.st = goal[1]
    BY <1>6 DEF TypeOK, Shapes, Versions
  <2> QED BY <1>1, <1>6, <2>1, ZenonT(30) DEF Updates
<1>7. CASE sent = "accepted" /\ UNCHANGED <<mine, fresh>> /\ UpdateReturns
  <2>1. job = "status" => queued \/ WakeUpComing
    BY <1>1, <1>7 DEF WakeUps, StatusEventComing
  <2> QED BY <1>1, <1>3, <1>7, <2>1, ZenonT(30) DEF Updates, Ended
<1>8. CASE UpdateFails
  <2>1. pc' = "idle" /\ queued'
    BY <1>8 DEF UpdateFails, RestoreAndFail, ReturnError
  <2>2. installed => installed'
    BY <1>8, ZenonT(30) DEF UpdateFails, RestoreAndFail, Restore, TryInstall
  <2> QED BY <1>1, <2>1, <2>2, ZenonT(30) DEF Updates
<1>9. GetStatus => Updates
  BY <1>4, <1>5, <1>6, ZenonT(30) DEF GetStatus
<1>10. StatusUpdateTimeout => Updates
  BY <1>7, <1>8, ZenonT(30) DEF StatusUpdateTimeout
<1> QED BY <1>9, <1>10
-----------------------------------------------------------------------------
(* A step of each kind keeps WakeUps.                                       *)

\* The versions alone decide what is settled and what is coming.
LEMMA StillSound ==
  ASSUME WakeUps, Still
  PROVE  StreamSound' /\ (Dying' <=> Dying) /\ (WakeUpComing => WakeUpComing')
BY StreamKept DEF WakeUps, Still, Dying

LEMMA ApartWakes ==
  ASSUME WakeUps, Apart
  PROVE  WakeUps'
<1>1. StreamSound' /\ (Dying' <=> Dying) /\ (WakeUpComing => WakeUpComing')
  BY StillSound DEF Apart
<1>2. NothingYet' /\ PassSound'
  BY <1>1 DEF WakeUps, NothingYet, PassSound, Apart, Still
<1>3. StatusEventComing' /\ NoLostWakeup'
  BY <1>1, ZenonT(30) DEF WakeUps, StatusEventComing, NoLostWakeup, Apart, Still
<1> QED BY <1>1, <1>2, <1>3 DEF WakeUps

LEMMA ProvisionsWakes ==
  ASSUME WakeUps, Provisions
  PROVE  WakeUps'
<1>1. StreamSound' /\ (Dying' <=> Dying) /\ (WakeUpComing => WakeUpComing')
  BY StillSound DEF Provisions
<1>2. /\ pc \in {"provision", "ready"} /\ UNCHANGED <<job, mine, cr, creates>>
      /\ \/ pc' = "idle" /\ timer'
         \/ pc' = "get" /\ after' = "return" /\ goal'[1] # "Deleting" /\ goal'[2] # NotCleaned
  BY DEF Provisions, Still
<1>3. job \in {"provision", "ready"} /\ (Dying \/ "fin" \in cr.marks) /\ creates # 0
  BY <1>2 DEF WakeUps, PassSound, NothingYet
<1>4. NothingYet' /\ PassSound'
  BY <1>1, <1>2, <1>3 DEF NothingYet, PassSound
<1>5. StatusEventComing' /\ NoLostWakeup'
  BY <1>2, <1>3, ZenonT(30) DEF StatusEventComing, NoLostWakeup
<1> QED BY <1>1, <1>4, <1>5 DEF WakeUps

LEMMA DeprovisionsWakes ==
  ASSUME WakeUps, Deprovisions
  PROVE  WakeUps'
<1>1. StreamSound' /\ (Dying' <=> Dying) /\ (WakeUpComing => WakeUpComing')
  BY StillSound DEF Deprovisions
<1>2. /\ pc \in Steps /\ UNCHANGED <<job, mine, cr, creates>>
      /\ \/ pc' = "idle" /\ (queued' \/ timer')
         \/ pc' \in Steps /\ (pc' = "recount" => mine.rs = NotCleaned)
         \/ pc' = "get" /\ after' # "return"
  BY DEF Deprovisions, Still
<1>3. job = "deprovision" /\ Dying /\ creates # 0
  BY <1>2 DEF WakeUps, PassSound, NothingYet, Steps
<1>4. NothingYet' /\ PassSound'
  BY <1>1, <1>2, <1>3 DEF NothingYet, PassSound, Steps
<1>5. StatusEventComing' /\ NoLostWakeup'
  BY <1>2, <1>3 DEF StatusEventComing, NoLostWakeup, Steps
<1> QED BY <1>1, <1>4, <1>5 DEF WakeUps

LEMMA UpdatesWakes ==
  ASSUME WakeUps, Updates
  PROVE  WakeUps'
<1>1. StreamSound' /\ (Dying' <=> Dying) /\ (WakeUpComing => WakeUpComing')
  BY StillSound DEF Updates
<1>2. /\ pc = "get" /\ UNCHANGED <<job, goal, after, sent, cr, creates, cache>>
      /\ \/ pc' = "idle" /\ (cr = Gone \/ queued' \/ timer' \/ WakeUpComing)
         \/ /\ pc' \in Steps /\ after \notin {"return", "error"}
            /\ pc' = "recount" => mine'.rs = NotCleaned
         \/ pc' = "send" /\ queued' = queued
  BY ZenonT(30) DEF Updates, Still
<1>3. /\ creates # 0 /\ job # "addFinalizer" /\ (Dying \/ "fin" \in cr.marks)
      /\ job = "deprovision" <=> after # "return"
      /\ job = "deprovision" => Dying
      /\ goal[1] = "Deleting" \/ goal[2] = NotCleaned => Dying
  BY <1>2 DEF WakeUps, PassSound, NothingYet
<1>4. NothingYet' /\ PassSound'
  BY <1>1, <1>2, <1>3 DEF NothingYet, PassSound, Steps
<1>5. StatusEventComing' /\ NoLostWakeup'
  BY <1>1, <1>2, <1>3, ZenonT(30) DEF WakeUps, StatusEventComing, NoLostWakeup, Steps
<1> QED BY <1>1, <1>4, <1>5 DEF WakeUps
-----------------------------------------------------------------------------
(* The start of a pass and the writes of the CR.                            *)
\* A pass begins with the version in the cache, and chooses its handler.
Begins ==
  /\ Still /\ UNCHANGED <<installed, timer>>
  /\ pc = "idle" /\ mine' = cache /\ fresh' = (stream = <<>>)
  /\ \/ cache = Gone /\ pc' = "idle"
     \/ cache # Gone /\ "fin" \notin cache.marks /\ pc' = "addFinalizer" /\ job' = "addFinalizer"
     \/ /\ "fin" \in cache.marks /\ "del" \in cache.marks /\ ~Ending(cache)
        /\ pc' = "get" /\ job' = "status" /\ after' = "return" /\ sent' = "nothing"
        /\ goal' = <<"Deleting", "HardDeleting">>
     \/ /\ "fin" \in cache.marks /\ ("del" \in cache.marks => Ending(cache))
        /\ \/ /\ pc' = "get" /\ job' = "status" /\ after' = "return" /\ sent' = "nothing"
              /\ goal'[1] = "Processing" /\ goal'[2] # NotCleaned
              /\ cache.st \in {"initial", "Error", "Warning"}
              /\ cache.st = "Warning" => cache.rs # NotCleaned
           \/ pc' = "provision" /\ job' = "provision" /\ cache.st = "Processing"
           \/ pc' = "ready" /\ job' = "ready" /\ cache.st = "Ready"
           \/ pc' = "deprovision" /\ job' = "deprovision" /\ Ending(cache)

\* The CR is stored with the marks m: a deletion stays, and so does our
\* finalizer unless the CR is deleted.
Marked(m) ==
  /\ cr # Gone /\ Store([cr EXCEPT !.marks = m]) /\ UNCHANGED <<cache, creates>>
  /\ "del" \in cr.marks => "del" \in m
  /\ "fin" \in cr.marks => "fin" \in m \/ "del" \in m

\* Somebody else stores the CR with the marks m.
Touched(m) ==
  /\ Marked(m) /\ fresh' = FALSE /\ ("fin" \in m <=> "fin" \in cr.marks)
  /\ UNCHANGED <<installed, queued, timer, pc, job, mine, goal, after, sent>>

\* The new status is accepted or refused.
Sends ==
  /\ pc = "send" /\ pc' = "get"
  /\ UNCHANGED <<installed, cache, queued, timer, job, mine, fresh, goal, after, creates>>
  /\ \/ sent' = "refused" /\ UNCHANGED <<cr, stream, doomed>>
     \/ sent' = "accepted" /\ Current /\ Store([cr EXCEPT !.st = goal[1], !.rs = goal[2]])

\* The finalizer of the pass's job is set or removed, or the pass fails.
Finalizes(step, m) ==
  /\ pc = step /\ pc' = "idle" /\ UNCHANGED <<installed, cache, creates, job, mine, fresh>>
  /\ \/ queued' /\ UNCHANGED <<cr, stream, doomed>>
     \/ Current /\ Marked(m) /\ (cr.st = "initial" \/ "del" \in m)

LEMMA ReconcileBegins ==
  ASSUME Reconcile
  PROVE  Begins
<1>1. Still /\ UNCHANGED <<installed, timer>> /\ pc = "idle" /\ mine' = cache /\ fresh' = (stream = <<>>)
  BY DEF Reconcile, world, bounds, Still
<1>2. CASE cache = Gone /\ UNCHANGED <<pc, job, loop>>
  BY <1>1, <1>2, ZenonT(30) DEF Begins
<1>3. CASE cache # Gone /\ "fin" \notin cache.marks /\ Run("addFinalizer")
  BY <1>1, <1>3, ZenonT(30) DEF Begins, Run
<1>4. CASE "fin" \in cache.marks /\ DeletionDetected(cache) /\ SetStatus("Deleting", "HardDeleting")
  BY <1>1, <1>4, ZenonT(30) DEF Begins, SetStatus, Update, DeletionDetected, Ending
<1>5. CASE "fin" \in cache.marks /\ ~DeletionDetected(cache) /\ Dispatch
  <2>1. "del" \in cache.marks => Ending(cache)
    BY <1>5 DEF DeletionDetected, Ending
  <2>2. \/ /\ pc' = "get" /\ job' = "status" /\ after' = "return" /\ sent' = "nothing"
           /\ goal'[1] = "Processing" /\ goal'[2] # NotCleaned
           /\ cache.st \in {"initial", "Error", "Warning"}
           /\ cache.st = "Warning" => cache.rs # NotCleaned
        \/ pc' = "provision" /\ job' = "provision" /\ cache.st = "Processing"
        \/ pc' = "ready" /\ job' = "ready" /\ cache.st = "Ready"
        \/ pc' = "deprovision" /\ job' = "deprovision" /\ Ending(cache)
    BY SMTT(20), <1>5 DEF Dispatch, HandleWarningState, SetStatus, Run, Update, NotCleaned, Ending
  <2> QED BY <1>1, <1>5, <2>1, <2>2, ZenonT(30) DEF Begins
<1> QED BY <1>2, <1>3, <1>4, <1>5 DEF Reconcile

LEMMA SendStatusSends ==
  ASSUME SendStatus
  PROVE  Sends
BY DEF SendStatus, world, bounds, Sends

\* The writes of users, the garbage collector and the worker change marks.
LEMMA TouchedSteps ==
  ASSUME TypeOK, UserDeletesCr \/ UserEditsCr \/ GarbageCollect
  PROVE  \E m \in SUBSET {"fin", "foreign", "del"} : Touched(m)
<1>1. cr.marks \in SUBSET {"fin", "foreign", "del"} /\ cr = [cr EXCEPT !.marks = cr.marks]
  BY DEF TypeOK, Shapes, Versions
<1>2. CASE UserDeletesCr
  <2>1. PICK n \in {{"del"}, {"del", "foreign"}} : Store([cr EXCEPT !.marks = @ \cup n])
    BY <1>2 DEF UserDeletesCr
  <2> DEFINE m == cr.marks \cup n
  <2>2. cr # Gone /\ fresh' = FALSE
        /\ UNCHANGED <<cache, creates, installed, queued, timer, pc, job, mine, goal, after, sent>>
    BY <1>2 DEF UserDeletesCr, world, process, bounds, loop
  <2>3. Touched(m)
    BY <2>1, <2>2 DEF Touched, Marked
  <2> QED BY <1>1, <2>3
<1>3. CASE UserEditsCr
  <2>1. cr # Gone /\ fresh' = FALSE /\ Store(cr)
        /\ UNCHANGED <<cache, creates, installed, queued, timer, pc, job, mine, goal, after, sent>>
    BY <1>3 DEF UserEditsCr, Edit, world, process, loop
  <2>2. Touched(cr.marks)
    BY <1>1, <2>1 DEF Touched, Marked
  <2> QED BY <1>1, <2>2
<1>4. CASE GarbageCollect
  <2> DEFINE m == cr.marks \ {"foreign"}
  <2>1. cr # Gone /\ fresh' = FALSE /\ Store([cr EXCEPT !.marks = @ \ {"foreign"}])
        /\ UNCHANGED <<cache, creates, installed, queued, timer, pc, job, mine, goal, after, sent>>
    BY <1>4 DEF GarbageCollect, world, process, bounds, loop
  <2>2. Touched(m)
    BY <2>1 DEF Touched, Marked
  <2> QED BY <1>1, <2>2
<1> QED BY <1>2, <1>3, <1>4

LEMMA AddFinalizerStep ==
  ASSUME WakeUps, AddFinalizer
  PROVE  Finalizes("addFinalizer", cr.marks \cup {"fin"})
<1>1. pc = "addFinalizer" /\ UNCHANGED <<installed, cache, creates, job, mine, fresh>>
  BY DEF AddFinalizer, world, bounds
<1>2. CASE ReturnError /\ UNCHANGED <<cr, stream, doomed>>
  BY <1>1, <1>2 DEF ReturnError, Finalizes
<1>3. CASE /\ Current /\ "del" \notin cr.marks /\ pc' = "idle"
           /\ Store([cr EXCEPT !.marks = @ \cup {"fin"}])
  <2>1. cr.st = "initial"
    BY <1>1, <1>3 DEF WakeUps, PassSound, StreamSound, Untouched, Current
  <2>2. Marked(cr.marks \cup {"fin"})
    BY <1>1, <1>3 DEF Marked, Current
  <2> QED BY <1>1, <1>3, <2>1, <2>2 DEF Finalizes
<1> QED BY <1>2, <1>3 DEF AddFinalizer

LEMMA RemoveFinalizerStep ==
  ASSUME WakeUps, RemoveFinalizer
  PROVE  Finalizes("removeFinalizer", cr.marks \ {"fin"})
<1>1. pc = "removeFinalizer" /\ UNCHANGED <<cache, creates, job, mine, fresh>>
  BY DEF RemoveFinalizer, bounds
<1>2. CASE ReturnError /\ UNCHANGED <<cr, stream, doomed, installed>>
  BY <1>1, <1>2 DEF ReturnError, Finalizes
<1>3. CASE Current /\ Store([cr EXCEPT !.marks = @ \ {"fin"}]) /\ Return(mine.rs)
  <2>1. "del" \in cr.marks
    BY <1>1, <1>3 DEF WakeUps, PassSound, Current, Dying
  <2>2. Marked(cr.marks \ {"fin"})
    BY <1>1, <1>3, <2>1 DEF Marked, Current
  <2> QED BY <1>1, <1>3, <2>1, <2>2 DEF Finalizes, Return
<1> QED BY <1>2, <1>3 DEF RemoveFinalizer
-----------------------------------------------------------------------------
(* The start of a pass and the writes of the CR keep WakeUps.               *)
LEMMA BeginsWakes ==
  ASSUME TypeOK, WakeUps, Begins
  PROVE  WakeUps'
<1>1. StreamSound' /\ (Dying' <=> Dying) /\ (WakeUpComing => WakeUpComing')
  BY StillSound DEF Begins
<1>2. /\ UNCHANGED <<cr, stream, cache, creates>> /\ pc = "idle"
      /\ \/ cache = Gone /\ pc' = "idle"
         \/ /\ cache # Gone /\ "fin" \notin cache.marks /\ fresh' = (stream = <<>>)
            /\ pc' = "addFinalizer" /\ job' = "addFinalizer"
         \/ /\ "fin" \in cache.marks /\ pc' = "get" /\ job' = "status" /\ after' = "return"
            /\ sent' = "nothing"
            /\ \/ "del" \in cache.marks /\ ~Ending(cache) /\ goal' = <<"Deleting", "HardDeleting">>
               \/ /\ goal'[1] = "Processing" /\ goal'[2] # NotCleaned
                  /\ cache.st \in {"initial", "Error", "Warning"}
         \/ /\ "fin" \in cache.marks
            /\ \/ pc' = "provision" /\ job' = "provision"
               \/ pc' = "ready" /\ job' = "ready"
               \/ pc' = "deprovision" /\ job' = "deprovision" /\ Ending(cache)
  BY ZenonT(30) DEF Begins, Still
<1>3. /\ "fin" \in cache.marks => Dying \/ "fin" \in cr.marks
      /\ "del" \in cache.marks \/ Ending(cache) => Dying
      /\ stream = <<>> => cache = cr
  BY DEF WakeUps, StreamSound, Settled, Ending, LastVersion
<1>4. NothingYet'
  BY SMTT(20), <1>2 DEF WakeUps, NothingYet, Gone
<1>5. PassSound'
  BY <1>1, <1>2, <1>3, ZenonT(30) DEF PassSound, NotCleaned
<1>6. StatusEventComing'
  BY SMTT(20), <1>2 DEF StatusEventComing, Ending
<1>7. NoLostWakeup'
  BY <1>1, <1>2, Announced, ZenonT(30) DEF WakeUps, NoLostWakeup
<1> QED BY <1>1, <1>4, <1>5, <1>6, <1>7 DEF WakeUps

\* A new status or new marks fit the stream.
LEMMA MarkedStream ==
  ASSUME TypeOK, TypeOK', WakeUps, NEW m, Marked(m)
  PROVE  Advances /\ StreamSound' /\ (WakeUpComing => WakeUpComing')
<1> DEFINE v == [cr EXCEPT !.marks = m]
<1>1. Store(v) /\ cache' = cache /\ cr' = Kept(v) /\ cr # Gone
  BY DEF Marked, Store
<1>2. v.st = cr.st /\ v.rs = cr.rs /\ v.marks = m
  BY DEF TypeOK, Shapes, Versions
<1> HIDE DEF v
<1>3. cr' = Gone \/ (cr' = v /\ cr'.marks = m /\ cr'.st = cr.st /\ cr'.rs = cr.rs)
  BY <1>1, <1>2 DEF Kept
<1>4. /\ "del" \in cr.marks => "del" \in m
      /\ "fin" \in cr.marks => "fin" \in m \/ "del" \in m
  BY DEF Marked
<1>5. Advances
  BY <1>1, <1>3, <1>4 DEF Advances, Dying
<1>6. Settled(cr)'
  <2>1. cr.st = "Deleting" \/ cr.rs = NotCleaned => Dying
    BY DEF WakeUps, StreamSound, Settled
  <2> QED BY <1>3, <1>5, <2>1 DEF Settled, Advances, Dying, Gone, NotCleaned
<1>7. Untouched'
  BY <1>1, <1>3, <1>4 DEF WakeUps, StreamSound, Untouched
<1> QED BY <1>1, <1>5, <1>6, <1>7, StreamStored, StreamGrows DEF WakeUps

\* A stored version that is deleted or in no trouble wakes the reconciler.
LEMMA MarkedWakes ==
  ASSUME TypeOK, TypeOK', NEW m, Marked(m), cr.st = "initial" \/ "del" \in m
  PROVE  WakeUpComing'
<1> DEFINE v == [cr EXCEPT !.marks = m]
<1>1. Store(v) /\ cache' = cache /\ cr' = Kept(v)
  BY DEF Marked, Store
<1>2. v.st = cr.st /\ v.marks = m
  BY DEF TypeOK, Shapes, Versions
<1> HIDE DEF v
<1>3. Wakes(LastVersion, cr')
  BY <1>1, <1>2 DEF Wakes, Kept
<1> QED BY <1>1, <1>3, StreamGrows

LEMMA TouchedWakes ==
  ASSUME TypeOK, TypeOK', WakeUps, NEW m, Touched(m)
  PROVE  WakeUps'
<1>1. Advances /\ StreamSound' /\ (WakeUpComing => WakeUpComing')
  BY MarkedStream DEF Touched
<1>2. /\ fresh' = FALSE /\ cr # Gone /\ UNCHANGED <<cache, creates>>
      /\ UNCHANGED <<queued, timer, pc, job, mine, goal, after, sent>>
  BY DEF Touched, Marked
<1>3. NothingYet' /\ PassSound'
  BY <1>1, <1>2 DEF WakeUps, NothingYet, PassSound, Advances
<1>4. StatusEventComing' /\ NoLostWakeup'
  BY <1>1, <1>2, ZenonT(30) DEF WakeUps, StatusEventComing, NoLostWakeup
<1> QED BY <1>1, <1>3, <1>4 DEF WakeUps

LEMMA FinalizesWakes ==
  ASSUME TypeOK, TypeOK', WakeUps, NEW step \in {"addFinalizer", "removeFinalizer"}, NEW m,
         Finalizes(step, m)
  PROVE  WakeUps'
<1>1. pc = step /\ pc' = "idle" /\ UNCHANGED <<cache, creates>>
  BY DEF Finalizes
<1>2. StreamSound' /\ (queued' \/ WakeUpComing')
  <2>1. CASE queued' /\ UNCHANGED <<cr, stream, doomed>>
    BY <1>1, <2>1, StreamKept DEF WakeUps
  <2>2. CASE Marked(m) /\ (cr.st = "initial" \/ "del" \in m)
    BY <2>2, MarkedStream, MarkedWakes
  <2> QED BY <2>1, <2>2 DEF Finalizes
<1>3. NothingYet'
  BY <1>1 DEF WakeUps, NothingYet
<1>4. PassSound' /\ StatusEventComing' /\ NoLostWakeup'
  BY <1>1, <1>2 DEF PassSound, StatusEventComing, NoLostWakeup
<1> QED BY <1>2, <1>3, <1>4 DEF WakeUps

LEMMA SendsWakes ==
  ASSUME TypeOK, TypeOK', WakeUps, Sends
  PROVE  WakeUps'
<1> DEFINE v == [cr EXCEPT !.st = goal[1], !.rs = goal[2]]
<1>1. /\ pc = "send" /\ pc' = "get" /\ UNCHANGED <<cache, queued, job, goal, after, creates>>
      /\ sent' \in {"refused", "accepted"}
  BY DEF Sends
<1>2. /\ creates # 0 /\ job # "addFinalizer" /\ (Dying \/ "fin" \in cr.marks)
      /\ job = "deprovision" <=> after # "return"
      /\ job = "deprovision" => Dying
      /\ goal[1] = "Deleting" \/ goal[2] = NotCleaned => Dying
  BY <1>1 DEF WakeUps, PassSound, NothingYet
<1>3. ASSUME sent' = "accepted"
      PROVE  Current /\ Store(v) /\ v.st = goal[1] /\ v.rs = goal[2] /\ v.marks = cr.marks
  BY <1>3 DEF Sends, TypeOK, Shapes, Versions
<1> HIDE DEF v
<1>4. Advances /\ StreamSound' /\ (WakeUpComing => WakeUpComing')
  <2>1. CASE UNCHANGED <<cr, stream, doomed>>
    BY <1>1, <2>1, StreamKept DEF WakeUps
  <2>2. CASE sent' = "accepted"
    <3>1. cr' = Gone \/ (cr' = v /\ cr'.marks = cr.marks /\ cr'.st = goal[1] /\ cr'.rs = goal[2])
      BY <1>3, <2>2 DEF Store, Kept
    <3>2. Advances
      BY <1>3, <2>2, <3>1 DEF Advances, Dying, Current
    <3>3. Settled(cr)'
      <4>1. CASE cr' = Gone
        BY <4>1 DEF Settled, Dying
      <4>2. CASE cr'.marks = cr.marks /\ cr'.st = goal[1] /\ cr'.rs = goal[2]
        BY <1>2, <3>2, <4>2 DEF Settled, Advances, Dying
      <4> QED BY <3>1, <4>1, <4>2
    <3>4. Untouched'
      BY <1>2, <1>3, <2>2, <3>1 DEF Untouched, Dying, Current
    <3> QED BY <1>1, <1>3, <2>2, <3>2, <3>3, <3>4, StreamStored, StreamGrows DEF WakeUps
  <2> QED BY <2>1, <2>2 DEF Sends
<1>5. sent' = "accepted" /\ goal[1] \in {"Processing", "Deleting"} => WakeUpComing'
  <2> SUFFICES ASSUME sent' = "accepted", goal[1] \in {"Processing", "Deleting"}
               PROVE  WakeUpComing'
    OBVIOUS
  <2>1. Wakes(LastVersion, cr')
    BY <1>3 DEF Wakes, Store, Kept
  <2> QED BY <1>1, <1>3, <2>1, StreamGrows
<1>6. NothingYet' /\ PassSound'
  BY <1>1, <1>2, <1>4 DEF NothingYet, PassSound, Advances
<1>7. StatusEventComing' /\ NoLostWakeup'
  BY <1>1, <1>5 DEF WakeUps, StatusEventComing, NoLostWakeup
<1> QED BY <1>4, <1>6, <1>7 DEF WakeUps

LEMMA InformerWakes ==
  ASSUME TypeOK, WakeUps, InformerDelivers
  PROVE  WakeUps'
<1>1. /\ cache' = Head(stream) /\ stream' = Tail(stream) /\ stream # <<>>
      /\ queued' = (queued \/ Wakes(cache, Head(stream)))
      /\ UNCHANGED <<cr, timer, pc, job, mine, fresh, goal, after, sent, creates>>
  BY DEF InformerDelivers, loop, bounds
<1>2. /\ LastVersion' = LastVersion
      /\ WakeUpComing => Wakes(cache, Head(stream)) \/ WakeUpComing'
      /\ \A i \in 1..Len(stream') : i + 1 \in 1..Len(stream) /\ stream'[i] = stream[i+1]
      /\ 1 \in 1..Len(stream) /\ Head(stream) = stream[1]
  BY <1>1, StreamShrinks
<1>3. StreamSound'
  <2>1. Settled(cache)' /\ Settled(cr)' /\ Untouched'
    BY <1>1, <1>2 DEF WakeUps, StreamSound, Settled, Untouched, Dying
  <2>2. \A i \in 1..Len(stream') : Settled(stream[i])' /\ (cr' # Gone => stream'[i] # Gone)
    BY <1>1, <1>2 DEF WakeUps, StreamSound, Settled, Dying
  <2> QED BY <1>1, <1>2, <2>1, <2>2 DEF WakeUps, StreamSound
<1>4. NothingYet' /\ PassSound'
  BY <1>1 DEF WakeUps, NothingYet, PassSound, Dying
<1>5. StatusEventComing'
  <2>1. pc \in {"get", "send"} /\ job = "status" /\ <<cache'.st, cache'.rs>> = goal
          => Wakes(cache, Head(stream))
    BY SMTT(20), <1>1 DEF WakeUps, StatusEventComing, Wakes
  <2> QED BY <1>1, <1>2, <2>1, ZenonT(30) DEF WakeUps, StatusEventComing
<1>6. NoLostWakeup'
  BY <1>1, <1>2, ZenonT(30) DEF WakeUps, NoLostWakeup
<1> QED BY <1>3, <1>4, <1>5, <1>6 DEF WakeUps

LEMMA CrashWakes ==
  ASSUME WakeUps, Crash
  PROVE  WakeUps'
<1>1. /\ pc' = "idle" /\ cache' = cr /\ stream' = <<>> /\ queued' = (cr # Gone)
      /\ UNCHANGED <<cr, creates>>
  BY DEF Crash
<1>2. StreamSound'
  BY SMTT(20), <1>1 DEF WakeUps, StreamSound, Settled, Untouched, Dying, LastVersion
<1>3. NothingYet' /\ PassSound' /\ StatusEventComing' /\ NoLostWakeup'
  BY <1>1, ZenonT(30) DEF WakeUps, NothingYet, PassSound, StatusEventComing, NoLostWakeup
<1> QED BY <1>2, <1>3 DEF WakeUps

LEMMA UserCreatesCrWakes ==
  ASSUME TypeOK, TypeOK', WakeUps, UserCreatesCr, MaxCreates \in {0, 1}
  PROVE  WakeUps'
<1>1. /\ creates' = 1 /\ cr' = New /\ cache' = Gone /\ pc' = "idle"
      /\ stream' = <<New>> /\ LastVersion = Gone /\ fresh' = FALSE
  BY Creation, ZenonT(30)
<1>2. Store(New) /\ cache' = cache
  BY DEF UserCreatesCr, process
<1>3. WakeUpComing' /\ LastVersion' = cr'
  BY <1>2, <1>1, StreamGrows DEF Wakes
<1>4. StreamSound'
  <2>1. Settled(cache)' /\ Settled(cr)' /\ Untouched'
    BY <1>1 DEF Settled, Untouched, Gone, New, NotCleaned
  <2>2. \A i \in 1..Len(stream') : stream'[i] = New
    BY SMTT(20), <1>1
  <2>3. New # Gone
    BY DEF New, Gone
  <2> QED BY <1>1, <1>3, <2>1, <2>2, <2>3 DEF StreamSound, Settled
<1> QED
  BY SMTT(20), <1>1, <1>3, <1>4
  DEF WakeUps, NothingYet, PassSound, StatusEventComing, NoLostWakeup
-----------------------------------------------------------------------------
\* Every step of a CR that is created at most once keeps WakeUps.
LEMMA NextWakes ==
  ASSUME MaxCreates \in {0, 1}, TypeOK, TypeOK', WakeUps, [Next]_vars
  PROVE  WakeUps'
<1>1. CASE Handler
  <2>1. CASE AddFinalizer
    BY <2>1, AddFinalizerStep, FinalizesWakes
  <2>2. CASE Provision \/ CheckReady
    BY <2>2, ProvisionSteps, ProvisionsWakes
  <2>3. CASE Deprovision \/ HardDelete \/ RemoveResources \/ SoftDelete \/ Recount
    BY <2>3, DeprovisionSteps, DeprovisionsWakes
  <2>4. CASE RemoveFinalizer
    BY <2>4, RemoveFinalizerStep, FinalizesWakes
  <2> QED BY <1>1, <2>1, <2>2, <2>3, <2>4 DEF Handler
<1>2. CASE Worker
  <2>1. CASE Reconcile
    BY <2>1, ReconcileBegins, BeginsWakes
  <2>2. CASE SendStatus
    BY <2>2, SendStatusSends, SendsWakes
  <2>3. CASE GetStatus \/ StatusUpdateTimeout
    BY <2>3, UpdateSteps, UpdatesWakes
  <2> QED BY <1>1, <1>2, <2>1, <2>2, <2>3 DEF Worker, StatusUpdate
<1>3. CASE UserDeletesCr \/ UserEditsCr \/ GarbageCollect
  BY <1>3, TouchedSteps, TouchedWakes
<1>4. CASE UserEditsSecret \/ UserBlocks \/ ModuleEvent \/ TimerFires \/ UNCHANGED vars
  BY <1>4, ApartSteps, ApartWakes
<1>5. CASE UserCreatesCr
  BY <1>5, UserCreatesCrWakes
<1>6. CASE InformerDelivers
  BY <1>6, InformerWakes
<1>7. CASE Crash
  BY <1>7, CrashWakes
<1> QED
  BY <1>2, <1>3, <1>4, <1>5, <1>6, <1>7 DEF Next, Users

\* A CR that is created at most once is never forgotten: when the worker rests,
\* the queue, a timer or an event that passes the predicate will wake it.
THEOREM NeverForgotten == MaxCreates \in {0, 1} /\ Spec => []NoLostWakeup
<1> SUFFICES ASSUME MaxCreates \in {0, 1} PROVE Spec => []NoLostWakeup
  OBVIOUS
<1>1. Init => WakeUps
  <2> SUFFICES ASSUME Init PROVE WakeUps
    OBVIOUS
  <2>1. cr = Gone /\ cache = Gone /\ stream = <<>> /\ pc = "idle"
    BY DEF Init
  <2>2. StreamSound
    BY <2>1 DEF StreamSound, Settled, Untouched, Dying, LastVersion
  <2> QED BY <2>1, <2>2 DEF WakeUps, NothingYet, PassSound, StatusEventComing, NoLostWakeup
<1>2. TypeOK /\ TypeOK' /\ WakeUps /\ [Next]_vars => WakeUps'
  BY NextWakes
<1>3. WakeUps => NoLostWakeup
  BY DEF WakeUps
<1> QED
  BY <1>1, <1>2, <1>3, TypeCorrect, PTL DEF Spec
-----------------------------------------------------------------------------
(* The life cycle of a CR that is created once.                              *)
\* The newest version in the window of the informer is the CR itself.
LEMMA Newest ==
  ASSUME TypeOK, WakeUps, VersionOrder
  PROVE  /\ Ending(cr) => "del" \in cache.marks
         /\ "del" \in cache.marks => Deleted(cr)
         /\ NoneEnding => ~Ending(cr)
         /\ cr.rs = NotCleaned => cr.st = "Warning"
         /\ \A i \in 1..Len(stream) :
              "del" \in stream[i].marks => Deleted(cr)
<1>1. stream \in Seq(Versions) /\ Len(stream) \in Nat /\ LastVersion = cr
  BY SMTT(20) DEF TypeOK, Shapes, WakeUps, StreamSound
<1>2. CASE stream = <<>>
  <2>1. cache = cr /\ Len(stream) = 0
    BY <1>1, <1>2 DEF LastVersion
  <2> QED BY SMTT(20), <2>1 DEF VersionOrder, NoneEnding, Deleted
<1>3. CASE stream # <<>>
  <2>1. Len(stream) \in 1..Len(stream) /\ stream[Len(stream)] = cr
    BY SMTT(20), <1>1, <1>3 DEF LastVersion
  <2>2. \A i \in 1..Len(stream) : i < Len(stream) \/ i = Len(stream)
    BY SMTT(20), <1>1
  <2> HIDE DEF Ending
  <2> QED BY <2>1, <2>2 DEF VersionOrder, NoneEnding, Deleted
<1> QED BY <1>2, <1>3

\* A version that the API server stores fits the versions before it.
LEMMA OrderGrows ==
  ASSUME TypeOK, TypeOK', WakeUps, VersionOrder, NEW v, Store(v), cache' = cache,
         cr # Gone, "del" \in cr.marks => Deleted(cr'),
         cr'.rs = NotCleaned => cr'.st = "Warning",
         Ending(cr') => "del" \in cache.marks
  PROVE  VersionOrder' /\ (NoneEnding /\ ~Ending(cr') => NoneEnding')
<1>1. stream \in Seq(Versions) /\ stream' = Append(stream, cr') /\ cr' \in Versions
  BY DEF Store, TypeOK, Shapes
<1>2. /\ Len(stream') = Len(stream) + 1 /\ stream'[Len(stream) + 1] = cr'
      /\ \A i \in 1..Len(stream) : stream'[i] = stream[i]
      /\ Len(stream) \in Nat
  BY SMTT(20), <1>1
<1>3. \A i \in 1..Len(stream) : stream[i] # Gone
  BY DEF WakeUps, StreamSound
<1>4. "del" \in cache.marks => Deleted(cr')
  BY Newest DEF Deleted
<1>5. \A i \in 1..Len(stream) : "del" \in stream[i].marks => Deleted(cr')
  BY Newest DEF Deleted
<1>6. ASSUME NEW i \in 1..Len(stream')
      PROVE  i \in 1..Len(stream) \/ (i = Len(stream) + 1 /\ stream'[i] = cr')
  BY SMTT(20), <1>2
<1>7. ASSUME NEW i \in 1..Len(stream')
      PROVE  /\ stream'[i].rs = NotCleaned => stream'[i].st = "Warning"
             /\ Ending(stream'[i]) => "del" \in cache.marks
             /\ "del" \in cache.marks => Deleted(stream'[i])
  BY <1>2, <1>4, <1>6 DEF VersionOrder
<1>8. ASSUME NEW i \in 1..Len(stream'), NEW j \in 1..Len(stream'), i < j
      PROVE  stream'[i] # Gone /\ ("del" \in stream'[i].marks => Deleted(stream'[j]))
  <2>1. i \in 1..Len(stream) /\ stream'[i] = stream[i]
    BY SMTT(20), <1>2, <1>8
  <2>2. CASE j \in 1..Len(stream)
    BY <1>2, <1>8, <2>1, <2>2 DEF VersionOrder
  <2>3. CASE stream'[j] = cr'
    BY <1>3, <1>5, <2>1, <2>3
  <2> QED BY <1>6, <2>2, <2>3
<1>9. VersionOrder'
  BY <1>7, <1>8 DEF VersionOrder, Ending, Deleted
<1>10. NoneEnding /\ ~Ending(cr') => NoneEnding'
  <2> SUFFICES ASSUME NoneEnding, ~Ending(cr')
               PROVE  NoneEnding'
    OBVIOUS
  <2>1. \A i \in 1..Len(stream') : ~Ending(stream'[i])
    BY <1>2, <1>6 DEF NoneEnding
  <2> QED BY <2>1 DEF NoneEnding, Ending
<1> QED BY <1>9, <1>10

\* A step that leaves the versions and the module alone, or installs it, keeps
\* ReadyInv if the pass stays in order.
LEMMA VersionsKeptReady ==
  ASSUME ReadyInv, UNCHANGED <<cr, stream, cache>>, cr.st = "Ready" /\ installed => installed',
         PassOrder'
  PROVE  ReadyInv'
BY DEF ReadyInv, VersionOrder, NoneEnding, Ending, Deleted

\* The window alone decides whether a deprovisioning status is in it.
LEMMA NoneEndingKept ==
  ASSUME UNCHANGED <<stream, cache>>
  PROVE  NoneEnding' <=> NoneEnding
BY DEF NoneEnding, Ending

-----------------------------------------------------------------------------
(* A step of each kind keeps ReadyInv.                                      *)
LEMMA ApartReady ==
  ASSUME ReadyInv, Apart
  PROVE  ReadyInv'
<1>1. UNCHANGED <<cr, stream, cache, installed, pc, fresh, goal, after>>
  BY DEF Apart, Still
<1>2. NoneEnding' <=> NoneEnding
  BY <1>1, NoneEndingKept
<1>3. PassOrder'
  BY <1>1, <1>2 DEF ReadyInv, PassOrder, Removing, Reporting, Deleted
<1> QED BY <1>1, <1>3, VersionsKeptReady

LEMMA BeginsReady ==
  ASSUME ReadyInv, Begins
  PROVE  ReadyInv'
<1>1. UNCHANGED <<cr, stream, cache, installed>>
  BY DEF Begins, Still
<1>2. NoneEnding' <=> NoneEnding
  BY <1>1, NoneEndingKept
<1>3. /\ cache.rs = NotCleaned => cache.st = "Warning"
      /\ Ending(cache) => cr.st # "Ready" /\ Deleted(cache)
      /\ "del" \notin cache.marks => NoneEnding
  BY DEF ReadyInv, VersionOrder, NoneEnding, Deleted
<1>4. "fin" \in cache.marks => cache # Gone
  BY SMTT(20) DEF Gone
<1>5. \/ pc' = "idle"
      \/ cache # Gone /\ pc' \in {"addFinalizer", "ready"}
      \/ /\ cache # Gone /\ pc' = "get" /\ after' = "return" /\ goal'[1] # "Ready"
         /\ goal'[1] = "Deleting" \/ goal'[2] = NotCleaned => Deleted(cache)
      \/ cache # Gone /\ pc' = "provision" /\ NoneEnding
      \/ cache # Gone /\ pc' = "deprovision" /\ Ending(cache)
  <2>1. CASE /\ "del" \in cache.marks
             /\ "fin" \in cache.marks /\ pc' = "get" /\ after' = "return"
             /\ goal' = <<"Deleting", "HardDeleting">>
    BY <1>4, <2>1 DEF Deleted
  <2>2. CASE /\ "fin" \in cache.marks /\ ("del" \in cache.marks => Ending(cache))
             /\ pc' = "provision" /\ cache.st = "Processing"
    BY <1>3, <1>4, <2>2 DEF Ending
  <2> QED BY <1>4, <2>1, <2>2, ZenonT(30) DEF Begins
<1>6. PassOrder'
  BY <1>1, <1>2, <1>3, <1>5 DEF PassOrder, Removing, Steps, Reporting, Deleted
<1> QED BY <1>1, <1>6, VersionsKeptReady

LEMMA ProvisionsReady ==
  ASSUME ReadyInv, Provisions
  PROVE  ReadyInv'
<1>1. /\ UNCHANGED <<cr, stream, cache>> /\ pc \in {"provision", "ready"}
      /\ \/ pc' = "idle"
         \/ /\ pc' = "get" /\ after' = "return" /\ goal'[1] # "Deleting" /\ goal'[2] # NotCleaned
            /\ goal'[1] = "Ready" => installed' /\ pc = "provision"
  BY ZenonT(30) DEF Provisions, Still
<1>2. NoneEnding' <=> NoneEnding
  BY <1>1, NoneEndingKept
<1>3. PassOrder'
  BY <1>1, <1>2 DEF ReadyInv, PassOrder, Removing, Steps, Reporting
<1>4. installed => installed'
  BY DEF Provisions
<1> QED BY <1>1, <1>3, <1>4, VersionsKeptReady

LEMMA DeprovisionsReady ==
  ASSUME ReadyInv, Deprovisions
  PROVE  ReadyInv'
<1>1. /\ UNCHANGED <<cr, stream, cache>> /\ pc \in Steps
      /\ \/ pc' \in Steps \cup {"idle"}
         \/ pc' = "get" /\ goal'[1] \in {"Error", "Deleting", "Warning"}
  BY ZenonT(30) DEF Deprovisions, Still
<1>2. Deleted(cache) /\ cr.st # "Ready" /\ (cache = Gone => stream = <<>>)
  BY <1>1 DEF ReadyInv, PassOrder, Removing, Steps
<1>3. PassOrder'
  BY <1>1, <1>2 DEF PassOrder, Removing, Steps, Reporting, Deleted
<1> QED BY <1>1, <1>2, <1>3, VersionsKeptReady

LEMMA UpdatesReady ==
  ASSUME ReadyInv, Updates
  PROVE  ReadyInv'
<1>1. /\ UNCHANGED <<cr, stream, cache, goal, after>> /\ pc = "get"
      /\ \/ pc' = "idle"
         \/ pc' \in Steps /\ after # "return"
         \/ pc' = "send" /\ fresh' = (stream = <<>>)
  BY ZenonT(30) DEF Updates, Still
<1>2. NoneEnding' <=> NoneEnding
  BY <1>1, NoneEndingKept
<1>3. installed => installed'
  BY DEF Updates
<1>4. CASE pc' = "send" /\ fresh' = (stream = <<>>)
  <2>1. PassOrder'
    BY <1>1, <1>2, <1>3, <1>4, ZenonT(30)
      DEF ReadyInv, PassOrder, Removing, Steps, Reporting, Deleted
  <2> QED BY <1>1, <1>3, <2>1, VersionsKeptReady
<1>5. CASE pc' = "idle" \/ (pc' \in Steps /\ after # "return")
  <2>1. pc' # "idle" => Deleted(cache) /\ cr.st # "Ready" /\ (cache = Gone => stream = <<>>)
    BY <1>1, <1>5 DEF ReadyInv, PassOrder, Removing
  <2>2. PassOrder'
    BY <1>1, <1>5, <2>1 DEF PassOrder, Removing, Steps, Reporting, Deleted
  <2> QED BY <1>1, <1>3, <2>2, VersionsKeptReady
<1> QED BY <1>1, <1>4, <1>5

\* A stored version with the same status keeps ReadyInv.
LEMMA MarkedReady ==
  ASSUME TypeOK, TypeOK', WakeUps, ReadyInv, NEW m, Marked(m), installed' = installed,
         pc' = "idle" \/ (UNCHANGED <<pc, goal, after>> /\ fresh' = FALSE)
  PROVE  ReadyInv'
<1> DEFINE v == [cr EXCEPT !.marks = m]
<1>1. Store(v) /\ cache' = cache /\ cr # Gone /\ ("del" \in cr.marks => "del" \in m)
  BY DEF Marked
<1>2. cr' = Kept(v) /\ v.st = cr.st /\ v.rs = cr.rs /\ v.marks = m
  BY <1>1 DEF Store, TypeOK, Shapes, Versions
<1> HIDE DEF v
<1>3. "del" \in cr.marks => Deleted(cr')
  BY <1>1, <1>2 DEF Kept, Deleted
<1>4. cr' = Gone \/ (cr'.st = cr.st /\ cr'.rs = cr.rs)
  BY <1>2 DEF Kept
<1>5. /\ cr'.rs = NotCleaned => cr'.st = "Warning"
      /\ Ending(cr') => Ending(cr)
      /\ cr'.st = "Ready" => cr.st = "Ready"
  BY SMTT(20), <1>4, Newest DEF ReadyInv, Gone, NotCleaned, Ending
<1>6. VersionOrder' /\ (NoneEnding => NoneEnding')
  BY <1>1, <1>3, <1>5, OrderGrows, Newest DEF ReadyInv
<1>7. cache = Gone => stream # <<>>
  BY <1>1 DEF WakeUps, StreamSound, LastVersion
<1>8. PassOrder'
  <2>1. CASE pc' = "idle"
    BY <2>1 DEF PassOrder, Removing, Steps, Reporting
  <2>2. CASE UNCHANGED <<pc, goal, after>> /\ fresh' = FALSE
    BY <1>1, <1>5, <1>6, <1>7, <2>2 DEF ReadyInv, PassOrder, Removing, Reporting, Deleted
  <2> QED BY <2>1, <2>2, ZenonT(30)
<1> QED BY <1>5, <1>6, <1>8 DEF ReadyInv

LEMMA FinalizesReady ==
  ASSUME TypeOK, TypeOK', WakeUps, ReadyInv, NEW step, NEW m, Finalizes(step, m)
  PROVE  ReadyInv'
<1>1. pc' = "idle" /\ UNCHANGED <<installed, cache>>
  BY DEF Finalizes
<1>2. CASE UNCHANGED <<cr, stream>>
  <2>1. PassOrder'
    BY <1>1 DEF PassOrder, Removing, Steps, Reporting
  <2> QED BY <1>1, <1>2, <2>1, VersionsKeptReady
<1>3. CASE Marked(m)
  BY <1>1, <1>3, MarkedReady
<1> QED BY <1>2, <1>3 DEF Finalizes

LEMMA TouchedReady ==
  ASSUME TypeOK, TypeOK', WakeUps, ReadyInv, NEW m, Touched(m)
  PROVE  ReadyInv'
<1>1. Marked(m) /\ fresh' = FALSE /\ UNCHANGED <<installed, pc, goal, after>>
  BY DEF Touched
<1> QED BY <1>1, MarkedReady, ZenonT(30)

LEMMA SendsReady ==
  ASSUME TypeOK, TypeOK', WakeUps, StatusSound, ReadyInv, Sends
  PROVE  ReadyInv'
<1> DEFINE v == [cr EXCEPT !.st = goal[1], !.rs = goal[2]]
<1>1. UNCHANGED <<cache, installed, goal, after, fresh>> /\ pc = "send" /\ pc' = "get"
  BY DEF Sends
<1>2. CASE UNCHANGED <<cr, stream>>
  <2>1. NoneEnding' <=> NoneEnding
    BY <1>1, <1>2, NoneEndingKept
  <2>2. PassOrder'
    BY <1>1, <1>2, <2>1 DEF ReadyInv, PassOrder, Removing, Steps, Reporting, Deleted
  <2> QED BY <1>1, <1>2, <2>2, VersionsKeptReady
<1>3. CASE Current /\ Store(v)
  <2>1. cache = cr /\ cr # Gone
    BY <1>1, <1>3 DEF Current, ReadyInv, PassOrder, WakeUps, StreamSound, LastVersion
  <2>2. cr' = Kept(v) /\ v.st = goal[1] /\ v.rs = goal[2] /\ v.marks = cr.marks
    BY <1>3 DEF Store, TypeOK, Shapes, Versions
  <2>3. Store(v)
    BY <1>3
  <2> HIDE DEF v
  <2>4. cr' = Gone \/ (cr'.st = goal[1] /\ cr'.rs = goal[2])
    BY <2>2 DEF Kept
  <2>5. "del" \in cr.marks => Deleted(cr')
    BY <2>2 DEF Kept, Deleted
  <2>6. goal[2] = NotCleaned => goal[1] = "Warning"
    <3>1. goal \in Statuses /\ goal \in Goals
      BY <1>1 DEF StatusSound, TypeOK, Shapes
    <3>2. goal = <<goal[1], goal[2]>>
      BY <3>1, GoalParts
    <3> QED
      BY SMTT(20), <3>1, <3>2
      DEF Statuses, NotCleaned, ReadyReasons, ProcessingReasons, DeletingReasons, WarningReasons,
          ErrorReasons
  <2>7. cr'.rs = NotCleaned => cr'.st = "Warning"
    BY SMTT(20), <2>4, <2>6 DEF Gone, NotCleaned
  <2>8. Ending(cr') => "del" \in cache.marks
    BY SMTT(20), <1>1, <2>1, <2>4 DEF ReadyInv, PassOrder, Ending, Deleted, Gone, NotCleaned
  <2>9. VersionOrder' /\ (NoneEnding /\ ~Ending(cr') => NoneEnding')
    BY <1>1, <2>1, <2>3, <2>5, <2>7, <2>8, OrderGrows DEF ReadyInv
  <2>10. goal[1] = "Ready" => NoneEnding' /\ installed' /\ after' = "return"
    <3>1. goal[1] = "Ready" => ~Ending(cr')
      BY SMTT(20), <2>4, <2>6 DEF Ending, Gone, NotCleaned
    <3> QED BY <1>1, <2>9, <3>1 DEF ReadyInv, PassOrder, Reporting
  <2>11. cr'.st = "Ready" => goal[1] = "Ready"
    BY SMTT(20), <2>4 DEF Gone
  <2>12. PassOrder'
    BY <1>1, <2>1, <2>10, <2>11 DEF ReadyInv, PassOrder, Removing, Steps, Reporting, Deleted
  <2> QED BY <2>9, <2>10, <2>11, <2>12 DEF ReadyInv
<1> QED BY <1>2, <1>3 DEF Sends

LEMMA UserCreatesCrReady ==
  ASSUME TypeOK, TypeOK', WakeUps, ReadyInv, UserCreatesCr, MaxCreates \in {0, 1}
  PROVE  ReadyInv'
<1>1. cr' = New /\ cache' = Gone /\ pc' = "idle" /\ stream' = <<New>>
  BY Creation, ZenonT(30)
<1>2. Len(stream') = 1 /\ \A i \in 1..Len(stream') : i = 1 /\ stream'[i] = New
  BY SMTT(20), <1>1
<1>3. VersionOrder'
  BY SMTT(20), <1>1, <1>2 DEF VersionOrder, Ending, Deleted, Gone, New, NotCleaned
<1>4. PassOrder'
  BY <1>1 DEF PassOrder, Removing, Steps, Reporting
<1> QED BY <1>1, <1>3, <1>4 DEF ReadyInv, New

LEMMA InformerReady ==
  ASSUME TypeOK, TypeOK', WakeUps, ReadyInv, InformerDelivers
  PROVE  ReadyInv'
<1>1. /\ cache' = stream[1] /\ 1 \in 1..Len(stream)
      /\ \A i \in 1..Len(stream') : i + 1 \in 1..Len(stream) /\ stream'[i] = stream[i+1]
      /\ UNCHANGED <<cr, installed, pc, goal, after, fresh>> /\ stream # <<>>
  BY StreamShrinks DEF InformerDelivers, world, loop
<1>2. \A i \in 1..Len(stream') : 1 < i + 1
  OBVIOUS
<1>3. NoneEnding => NoneEnding'
  BY <1>1 DEF NoneEnding, Ending
<1>4. VersionOrder'
  <2>1. /\ cache'.rs = NotCleaned => cache'.st = "Warning"
        /\ Ending(cache') => "del" \in cache'.marks
    BY SMTT(20), <1>1 DEF ReadyInv, VersionOrder, Deleted, Ending, Gone, NotCleaned
  <2>2. ASSUME NEW i \in 1..Len(stream')
        PROVE  /\ stream'[i].rs = NotCleaned => stream'[i].st = "Warning"
               /\ Ending(stream'[i]) => "del" \in cache'.marks
               /\ "del" \in cache'.marks => Deleted(stream'[i])
    BY <1>1, <1>2 DEF ReadyInv, VersionOrder, Deleted
  <2>3. ASSUME NEW i \in 1..Len(stream'), NEW j \in 1..Len(stream'), i < j
        PROVE  stream'[i] # Gone /\ ("del" \in stream'[i].marks => Deleted(stream'[j]))
    <3>1. i + 1 < j + 1
      BY SMTT(20), <2>3
    <3> QED BY <1>1, <3>1 DEF ReadyInv, VersionOrder
  <2> QED BY <2>1, <2>2, <2>3 DEF VersionOrder, Ending, Deleted
<1>5. Deleted(cache) /\ pc # "idle" => Deleted(cache')
  BY <1>1 DEF ReadyInv, PassOrder, VersionOrder, Deleted
<1>6. cache' = Gone => stream' = <<>>
  <2> SUFFICES ASSUME stream' # <<>>
               PROVE  cache' # Gone
    OBVIOUS
  <2>1. stream' \in Seq(Versions)
    BY DEF TypeOK, Shapes
  <2>2. 1 \in 1..Len(stream')
    BY SMTT(20), <2>1
  <2>3. 2 \in 1..Len(stream) /\ 1 < 2
    BY SMTT(20), <1>1, <2>2
  <2> QED BY <1>1, <2>3 DEF ReadyInv, VersionOrder
<1>7. PassOrder'
  BY <1>1, <1>3, <1>5, <1>6 DEF ReadyInv, PassOrder, Removing, Steps, Reporting, Deleted
<1> QED BY <1>1, <1>3, <1>4, <1>7 DEF ReadyInv

LEMMA CrashReady ==
  ASSUME TypeOK, WakeUps, ReadyInv, Crash
  PROVE  ReadyInv'
<1>1. cache' = cr /\ stream' = <<>> /\ pc' = "idle" /\ UNCHANGED <<cr, installed>>
  BY DEF Crash, world
<1>2. Len(stream') = 0
  BY <1>1
<1>3. Ending(cr) => "del" \in cr.marks
  BY SMTT(20), Newest DEF ReadyInv, Deleted, Ending, Gone, NotCleaned
<1>4. VersionOrder'
  BY SMTT(20), <1>1, <1>2, <1>3, Newest DEF ReadyInv, VersionOrder, Ending
<1>5. cr.st = "Ready" => NoneEnding'
  BY SMTT(20), <1>1, <1>2, Newest DEF ReadyInv, NoneEnding, Ending
<1>6. PassOrder'
  BY <1>1 DEF PassOrder, Removing, Steps, Reporting
<1> QED BY <1>1, <1>4, <1>5, <1>6 DEF ReadyInv


\* Every step of a CR that is created at most once keeps ReadyInv.
LEMMA NextReady ==
  ASSUME MaxCreates \in {0, 1}, TypeOK, TypeOK', WakeUps, StatusSound, ReadyInv, [Next]_vars
  PROVE  ReadyInv'
<1>1. CASE Handler
  <2>1. CASE AddFinalizer
    BY <2>1, AddFinalizerStep, FinalizesReady
  <2>2. CASE Provision \/ CheckReady
    BY <2>2, ProvisionSteps, ProvisionsReady
  <2>3. CASE Deprovision \/ HardDelete \/ RemoveResources \/ SoftDelete \/ Recount
    BY <2>3, DeprovisionSteps, DeprovisionsReady
  <2>4. CASE RemoveFinalizer
    BY <2>4, RemoveFinalizerStep, FinalizesReady
  <2> QED BY <1>1, <2>1, <2>2, <2>3, <2>4 DEF Handler
<1>2. CASE Worker
  <2>1. CASE Reconcile
    BY <2>1, ReconcileBegins, BeginsReady
  <2>2. CASE SendStatus
    BY <2>2, SendStatusSends, SendsReady
  <2>3. CASE GetStatus \/ StatusUpdateTimeout
    BY <2>3, UpdateSteps, UpdatesReady
  <2> QED BY <1>1, <1>2, <2>1, <2>2, <2>3 DEF Worker, StatusUpdate
<1>3. CASE UserDeletesCr \/ UserEditsCr \/ GarbageCollect
  BY <1>3, TouchedSteps, TouchedReady
<1>4. CASE UserEditsSecret \/ UserBlocks \/ ModuleEvent \/ TimerFires \/ UNCHANGED vars
  BY <1>4, ApartSteps, ApartReady
<1>5. CASE UserCreatesCr
  BY <1>5, UserCreatesCrReady
<1>6. CASE InformerDelivers
  BY <1>6, InformerReady
<1>7. CASE Crash
  BY <1>7, CrashReady
<1> QED
  BY <1>2, <1>3, <1>4, <1>5, <1>6, <1>7 DEF Next, Users

\* Both invariants hold at the start.
LEMMA InitReady == Init => WakeUps /\ ReadyInv
<1>1. Init => WakeUps
  BY ZenonT(30) DEF Init, WakeUps, StreamSound, Settled, Untouched, Dying, LastVersion, NothingYet,
         PassSound, StatusEventComing, NoLostWakeup, Gone, NotCleaned
<1>2. ASSUME Init PROVE ReadyInv
  <2>1. /\ cr = Gone /\ cache = Gone /\ stream = <<>> /\ Len(stream) = 0 /\ pc = "idle"
        /\ Gone.st = "absent" /\ Gone.rs = "none" /\ NotCleaned # "none"
    BY <1>2 DEF Init, Gone, NotCleaned
  <2>2. VersionOrder /\ PassOrder
    BY SMTT(20), <2>1 DEF VersionOrder, PassOrder, Ending, Removing, Steps, Reporting
  <2> QED BY <2>1, <2>2 DEF ReadyInv
<1> QED BY <1>1, <1>2

\* A CR that is created once shows Ready only while the module is installed
\* completely, however many events, failed requests and restarts of the manager
\* there are and however far the cache lags behind.
THEOREM ReadyIsInstalled == MaxCreates \in {0, 1} /\ Spec => []ReadyMeansInstalled
<1> SUFFICES ASSUME MaxCreates \in {0, 1} PROVE Spec => []ReadyMeansInstalled
  OBVIOUS
<1>1. Init => WakeUps /\ ReadyInv
  BY InitReady
<1>2. TypeOK /\ StatusSound /\ [Next]_vars => (TypeOK /\ StatusSound)'
  BY NextType
<1>3. TypeOK /\ TypeOK' /\ WakeUps /\ [Next]_vars => WakeUps'
  BY NextWakes
<1>4. TypeOK /\ TypeOK' /\ WakeUps /\ StatusSound /\ ReadyInv /\ [Next]_vars => ReadyInv'
  BY NextReady
<1>5. ReadyInv => ReadyMeansInstalled
  BY DEF ReadyInv, ReadyMeansInstalled
<1> QED
  BY InitType, <1>1, <1>2, <1>3, <1>4, <1>5, PTL DEF Spec
-----------------------------------------------------------------------------
(* The reconciler implements BtpOperatorLifecycle: LifeInv is inductive, and *)
(* every step from a state of LifeInv is one of the life cycle.              *)

\* What a step may do to the CR on its way through the life cycle.
Onward ==
  /\ Lost => Lost'
  /\ "fin" \in cr.marks => Lost' \/ "fin" \in cr'.marks
  /\ cr'.st = "initial" => cr.st = "initial"

\* What versions tell stays true.
LEMMA StillTells ==
  ASSUME Onward, NEW v, Tells(v)
  PROVE  /\ "fin" \in v.marks => Lost' \/ "fin" \in cr'.marks
         /\ v.st \notin {"absent", "initial"} => cr'.st # "initial"
         /\ Ending(v) => Lost'
BY DEF Onward, Tells

\* A step that leaves the versions alone keeps LifeInv if the pass does.
LEMMA VersionsKeptLife ==
  ASSUME LifeInv, UNCHANGED <<cr, stream, cache, doomed>>, PassTells'
  PROVE  LifeInv'
BY DEF LifeInv, CrOrder, Tells, Lost, Ending

\* A stored version keeps LifeInv if it leads onward.
LEMMA StoredLife ==
  ASSUME TypeOK, TypeOK', LifeInv, NEW v, Store(v), cache' = cache, Onward, CrOrder',
         Ending(cr') => Lost', PassTells'
  PROVE  LifeInv'
<1>1. \A i \in 1..Len(stream') :
        stream'[i] = cr' \/ (i \in 1..Len(stream) /\ stream'[i] = stream[i])
  BY StreamGrows
<1>2. Tells(cache)'
  BY StillTells DEF LifeInv, Tells, Ending
<1>3. ASSUME NEW i \in 1..Len(stream')
      PROVE  Tells(stream[i])'
  <2>1. CASE stream'[i] = cr'
    BY <2>1 DEF Tells, Ending
  <2>2. CASE i \in 1..Len(stream) /\ stream'[i] = stream[i]
    <3>1. Tells(stream[i])
      BY <2>2 DEF LifeInv
    <3> QED BY <2>2, <3>1, StillTells DEF Tells, Ending
  <2> QED BY <1>1, <2>1, <2>2
<1> QED BY <1>2, <1>3 DEF LifeInv

\* The CR is dropped, or has other marks and is the same otherwise.
Dropped(m) == cr' = Gone /\ doomed' = FALSE /\ "del" \in m /\ "fin" \notin m
Remarked(m) ==
  /\ cr' # Gone /\ cr'.st = cr.st /\ cr'.rs = cr.rs /\ cr'.marks = m /\ doomed' = doomed
  /\ "del" \in m => {"fin", "foreign"} \cap m # {}

\* The effect of storing the CR with other marks.
LEMMA OtherMarks ==
  ASSUME TypeOK, CrOrder, cr # Gone, NEW m, "del" \in cr.marks => "del" \in m,
         Store([cr EXCEPT !.marks = m])
  PROVE  Dropped(m) \/ Remarked(m)
<1> DEFINE v == [cr EXCEPT !.marks = m]
<1>1. cr' = Kept(v) /\ v.st = cr.st /\ v.rs = cr.rs /\ v.marks = m
  BY DEF Store, TypeOK, Shapes, Versions
<1>2. doomed' = (cr' # Gone /\ (doomed \/ v.st = "Deleting"))
  BY DEF Store
<1>3. doomed \/ v.st = "Deleting" <=> doomed
  BY <1>1 DEF CrOrder
<1>4. cr.st # "absent" /\ Gone.st = "absent"
  BY DEF CrOrder, Gone
<1>5. CASE "del" \in m /\ {"fin", "foreign"} \cap m = {}
  <2>1. cr' = Gone
    BY <1>1, <1>5 DEF Kept
  <2>2. doomed' = FALSE
    BY <1>2, <2>1, ZenonT(30)
  <2> QED BY <1>5, <2>1, <2>2 DEF Dropped
<1>6. CASE ~("del" \in m /\ {"fin", "foreign"} \cap m = {})
  <2>1. cr' = v /\ cr' # Gone
    BY <1>1, <1>4, <1>6, ZenonT(30) DEF Kept
  <2>2. doomed' = doomed
    BY <1>2, <1>3, <2>1 DEF TypeOK, Flags
  <2> QED BY <1>1, <1>6, <2>1, <2>2, ZenonT(30) DEF Remarked
<1> QED BY <1>5, <1>6

\* The newest version is the CR itself.
LEMMA Told ==
  ASSUME TypeOK, WakeUps, LifeInv
  PROVE  Ending(cr) => Lost
<1>1. stream \in Seq(Versions) /\ LastVersion = cr
  BY DEF TypeOK, Shapes, WakeUps, StreamSound
<1>2. Tells(cr)
  <2>1. stream # <<>> => Len(stream) \in 1..Len(stream)
    BY SMTT(20), <1>1
  <2> QED BY <1>1, <2>1 DEF LastVersion, LifeInv
<1> QED BY <1>2 DEF Tells

\* During a pass an empty stream means that the cache shows the CR.
LEMMA Seen ==
  ASSUME TypeOK, WakeUps, ReadyInv
  PROVE  /\ stream = <<>> => cr = cache
         /\ cache = Gone /\ pc # "idle" => cr = Gone
BY DEF WakeUps, StreamSound, LastVersion, ReadyInv, PassOrder

\* The effect of an accepted status.
LEMMA Accepted ==
  ASSUME TypeOK, CrOrder, cr # Gone, Store([cr EXCEPT !.st = goal[1], !.rs = goal[2]])
  PROVE  /\ cr' = [cr EXCEPT !.st = goal[1], !.rs = goal[2]] /\ cr' # Gone
         /\ doomed' = (doomed \/ goal[1] = "Deleting")
<1> DEFINE v == [cr EXCEPT !.st = goal[1], !.rs = goal[2]]
<1>1. cr' = Kept(v) /\ v.st = goal[1] /\ v.marks = cr.marks
  BY DEF Store, TypeOK, Shapes, Versions
<1>2. goal[1] # "absent" /\ Gone.st = "absent"
  BY GoalParts DEF TypeOK, Shapes, Goals, Gone
<1>3. cr' = v
  BY <1>1 DEF Kept, CrOrder
<1>4. cr' # Gone
  BY <1>1, <1>2, <1>3, ZenonT(30)
<1>5. doomed' = (cr' # Gone /\ (doomed \/ v.st = "Deleting"))
  BY DEF Store
<1>6. doomed' = (doomed \/ goal[1] = "Deleting")
  BY <1>1, <1>4, <1>5 DEF TypeOK, Flags
<1> QED BY <1>3, <1>4, <1>6

-----------------------------------------------------------------------------
(* A step of each kind keeps LifeInv.                                       *)
LEMMA ApartLife ==
  ASSUME LifeInv, Apart
  PROVE  LifeInv'
<1>1. UNCHANGED <<cr, stream, cache, doomed, pc, goal, after, sent, mine, fresh>>
  BY DEF Apart, Still
<1>2. PassTells'
  BY <1>1 DEF LifeInv, PassTells, Removing, Updating, Lost
<1> QED BY <1>1, <1>2, VersionsKeptLife

LEMMA BeginsLife ==
  ASSUME TypeOK, WakeUps, ReadyInv, LifeInv, Begins
  PROVE  LifeInv'
<1>1. /\ UNCHANGED <<cr, stream, cache, doomed>> /\ pc = "idle" /\ mine' = cache
      /\ fresh' = (stream = <<>>)
  BY DEF Begins, Still
<1>2. Lost' <=> Lost
  BY <1>1 DEF Lost
<1>3. /\ doomed => "del" \in cache.marks
      /\ "fin" \in cache.marks => Lost \/ "fin" \in cr.marks
      /\ cache.st \notin {"absent", "initial"} => cr.st # "initial"
      /\ Ending(cache) => Lost
      /\ cache.rs = NotCleaned => cache.st = "Warning"
  BY DEF LifeInv, CrOrder, Tells, ReadyInv, VersionOrder
<1>4. fresh' => cr = cache
  BY <1>1, Seen, ZenonT(30)
<1>5. PassTells'
  <2>1. CASE pc' \in {"idle", "addFinalizer"}
    BY <2>1 DEF PassTells, Removing, Steps, Updating
  <2>2. CASE /\ "fin" \in cache.marks /\ pc' = "get" /\ after' = "return" /\ sent' = "nothing"
             /\ goal' = <<"Deleting", "HardDeleting">>
    BY <1>1, <1>2, <1>3, <2>2 DEF PassTells, Removing, Steps, Updating, NotCleaned
  <2>3. CASE /\ "fin" \in cache.marks /\ pc' = "get" /\ after' = "return" /\ sent' = "nothing"
             /\ goal'[1] = "Processing" /\ goal'[2] # NotCleaned /\ "del" \notin cache.marks
    BY <1>1, <1>2, <1>3, <2>3 DEF PassTells, Removing, Steps, Updating
  <2>4. CASE /\ "fin" \in cache.marks /\ "del" \notin cache.marks
             /\ cache.st \in {"Processing", "Ready"} /\ pc' \in {"provision", "ready"}
    BY <1>1, <1>2, <1>3, <2>4 DEF PassTells, Removing, Steps, Updating
  <2>5. CASE "fin" \in cache.marks /\ pc' = "deprovision" /\ Ending(cache)
    <3>1. mine'.st \in {"Deleting", "Warning"} /\ (fresh' => cr'.st = mine'.st)
      BY <1>1, <1>3, <1>4, <2>5 DEF Ending
    <3> QED BY <1>1, <1>2, <1>3, <2>5, <3>1 DEF PassTells, Removing, Steps, Updating
  <2>6. cache.st \in {"initial", "Error", "Processing", "Ready"} => ~Ending(cache)
    BY <1>3 DEF Ending
  <2>7. cache.st = "Warning" /\ cache.rs # NotCleaned => ~Ending(cache)
    BY DEF Ending
  <2> QED BY <2>1, <2>2, <2>3, <2>4, <2>5, <2>6, <2>7, ZenonT(30) DEF Begins
<1> QED BY <1>1, <1>5, VersionsKeptLife

LEMMA ProvisionsLife ==
  ASSUME LifeInv, Provisions
  PROVE  LifeInv'
<1>1. /\ UNCHANGED <<cr, stream, cache, doomed>> /\ pc \in {"provision", "ready"}
      /\ \/ pc' = "idle"
         \/ /\ pc' = "get" /\ after' = "return" /\ sent' = "nothing"
            /\ goal'[1] # "Deleting" /\ goal'[2] # NotCleaned
  BY ZenonT(30) DEF Provisions, Still
<1>2. ~doomed' /\ cr'.st # "initial" /\ (Lost' \/ "fin" \in cr'.marks)
  BY <1>1 DEF LifeInv, PassTells, Lost
<1>3. PassTells'
  BY <1>1, <1>2 DEF PassTells, Removing, Steps, Updating
<1> QED BY <1>1, <1>3, VersionsKeptLife

LEMMA DeprovisionsLife ==
  ASSUME LifeInv, Deprovisions
  PROVE  LifeInv'
<1>1. /\ UNCHANGED <<cr, stream, cache, doomed, mine, fresh>> /\ pc \in Steps
      /\ \/ pc' \in Steps \cup {"idle"}
         \/ /\ pc' = "get" /\ after' # "return" /\ sent' = "nothing"
            /\ IF after' = "error" THEN goal'[1] = "Error" ELSE goal'[1] \in {"Deleting", "Warning"}
  BY ZenonT(30) DEF Deprovisions, Still
<1>2. /\ Lost /\ mine.st \in {"Deleting", "Warning"}
      /\ fresh => cr = Gone \/ cr.st = mine.st
  BY <1>1 DEF LifeInv, PassTells, Removing, Steps
<1>3. Lost'
  BY <1>1, <1>2 DEF Lost
<1>4. PassTells'
  BY <1>1, <1>2, <1>3 DEF PassTells, Removing, Steps, Updating
<1> QED BY <1>1, <1>4, VersionsKeptLife

LEMMA UpdatesLife ==
  ASSUME TypeOK, WakeUps, ReadyInv, LifeInv, Updates
  PROVE  LifeInv'
<1>1. /\ UNCHANGED <<cr, stream, cache, doomed, goal, after, sent>> /\ pc = "get"
      /\ \/ pc' = "idle"
         \/ pc' \in Steps /\ after \notin {"return", "error"} /\ Ended
         \/ pc' = "send" /\ mine'.st = goal[1]
  BY ZenonT(30) DEF Updates, Still
<1>2. CASE pc' = "idle"
  <2>1. PassTells'
    BY <1>2 DEF PassTells, Removing, Steps, Updating
  <2> QED BY <1>1, <2>1, VersionsKeptLife
<1>3. CASE pc' \in Steps /\ after \notin {"return", "error"} /\ Ended
  <2>1. after \in {"blocked", "hard", "soft"}
    BY <1>3 DEF TypeOK, Shapes
  <2>2. /\ Lost /\ mine.st \in {"Deleting", "Warning"} /\ goal[1] \in {"Deleting", "Warning"}
        /\ sent = "accepted" /\ fresh => cr = Gone \/ cr.st = mine.st
    BY <1>1, <2>1 DEF LifeInv, PassTells, Removing, Updating
  <2>3. mine'.st \in {"Deleting", "Warning"} /\ (fresh' => cr = Gone \/ cr.st = mine'.st)
    <3>1. CASE cache = Gone /\ UNCHANGED <<mine, fresh>>
      BY <1>1, <2>2, <3>1, Seen
    <3>2. CASE /\ cache # Gone /\ <<cache.st, cache.rs>> = goal
               /\ mine' = cache /\ fresh' = (stream = <<>>)
      BY <1>1, <2>2, <3>2, Seen, ZenonT(30)
    <3>3. CASE sent = "accepted" /\ UNCHANGED <<mine, fresh>>
      BY <2>2, <3>3
    <3> QED BY <1>3, <3>1, <3>2, <3>3 DEF Ended
  <2>4. Lost'
    BY <1>1, <2>2 DEF Lost
  <2>5. PassTells'
    BY <1>1, <1>3, <2>3, <2>4 DEF PassTells, Removing, Steps, Updating
  <2> QED BY <1>1, <2>5, VersionsKeptLife
<1>4. CASE pc' = "send" /\ mine'.st = goal[1]
  <2>1. Lost' <=> Lost
    BY <1>1 DEF Lost
  <2>2. PassTells'
    BY <1>1, <1>4, <2>1 DEF LifeInv, PassTells, Removing, Steps, Updating
  <2> QED BY <1>1, <2>2, VersionsKeptLife
<1> QED BY <1>1, <1>2, <1>3, <1>4

LEMMA MarkedLife ==
  ASSUME TypeOK, TypeOK', WakeUps, LifeInv, NEW m, Marked(m),
         "fin" \in cr.marks => "fin" \in m \/ doomed,
         pc' = "idle" \/ (UNCHANGED <<pc, goal, after, sent, mine>> /\ fresh' = FALSE)
  PROVE  LifeInv'
<1> DEFINE v == [cr EXCEPT !.marks = m]
<1>1. cr # Gone /\ Store(v) /\ cache' = cache /\ ("del" \in cr.marks => "del" \in m)
  BY DEF Marked
<1>2. Dropped(m) \/ Remarked(m)
  BY <1>1, OtherMarks DEF LifeInv
<1> HIDE DEF v
<1>3. Onward
  BY SMTT(20), <1>1, <1>2 DEF Dropped, Remarked, Onward, Lost, Gone
<1>4. CrOrder'
  BY SMTT(20), <1>1, <1>2 DEF Dropped, Remarked, LifeInv, CrOrder, Gone
<1>5. Ending(cr') => Lost'
  <2>1. Ending(cr) => Lost
    BY Told
  <2> QED BY <1>1, <1>2, <2>1 DEF Dropped, Remarked, Ending, Lost, Gone, NotCleaned
<1>6. PassTells'
  <2>1. doomed' => doomed
    BY <1>2, ZenonT(30) DEF Dropped, Remarked
  <2>2. cr' = Gone \/ cr'.st = cr.st
    BY <1>2 DEF Dropped, Remarked
  <2>3. CASE pc' = "idle"
    BY <2>3 DEF PassTells, Removing, Steps, Updating
  <2>4. CASE UNCHANGED <<pc, goal, after, sent, mine>> /\ fresh' = FALSE
    BY <1>3, <2>1, <2>2, <2>4 DEF LifeInv, PassTells, Onward, Removing, Updating
  <2> QED BY <2>3, <2>4, ZenonT(30)
<1> QED BY <1>1, <1>3, <1>4, <1>5, <1>6, StoredLife

LEMMA TouchedLife ==
  ASSUME TypeOK, TypeOK', WakeUps, LifeInv, NEW m, Touched(m)
  PROVE  LifeInv'
<1>1. /\ Marked(m) /\ fresh' = FALSE /\ UNCHANGED <<pc, goal, after, sent, mine>>
      /\ "fin" \in cr.marks => "fin" \in m
  BY DEF Touched
<1> QED BY <1>1, MarkedLife, ZenonT(30)

LEMMA FinalizesLife ==
  ASSUME TypeOK, TypeOK', WakeUps, LifeInv, NEW step, NEW m, Finalizes(step, m),
         "fin" \in m \/ step = "removeFinalizer"
  PROVE  LifeInv'
<1>1. pc = step /\ pc' = "idle" /\ cache' = cache
  BY DEF Finalizes
<1>2. CASE UNCHANGED <<cr, stream, doomed>>
  <2>1. PassTells'
    BY <1>1 DEF PassTells, Removing, Steps, Updating
  <2> QED BY <1>1, <1>2, <2>1, VersionsKeptLife
<1>3. CASE Marked(m)
  <2>1. step = "removeFinalizer" => doomed
    BY <1>1, <1>3 DEF Marked, LifeInv, PassTells, Removing, Steps, Lost
  <2> QED BY <1>1, <1>3, <2>1, MarkedLife
<1> QED BY <1>2, <1>3 DEF Finalizes

LEMMA SendsLife ==
  ASSUME TypeOK, TypeOK', WakeUps, ReadyInv, LifeInv, Sends
  PROVE  LifeInv'
<1> DEFINE v == [cr EXCEPT !.st = goal[1], !.rs = goal[2]]
<1>1. UNCHANGED <<cache, goal, after, mine, fresh>> /\ pc = "send" /\ pc' = "get"
  BY DEF Sends
<1>2. CASE UNCHANGED <<cr, stream, doomed>> /\ sent' = "refused"
  <2>1. Lost' <=> Lost
    BY <1>2 DEF Lost
  <2>2. PassTells'
    BY <1>1, <1>2, <2>1 DEF LifeInv, PassTells, Removing, Steps, Updating
  <2> QED BY <1>1, <1>2, <2>2, VersionsKeptLife
<1>3. CASE Current /\ Store(v)
  <2>1. cache = cr /\ cr # Gone /\ Store(v)
    BY <1>1, <1>3 DEF Current, ReadyInv, PassOrder, WakeUps, StreamSound, LastVersion
  <2>2. cr' = v /\ cr' # Gone /\ doomed' = (doomed \/ goal[1] = "Deleting")
    BY <1>3, Accepted DEF Current, LifeInv
  <2>3. cr'.st = goal[1] /\ cr'.rs = goal[2] /\ cr'.marks = cr.marks
    BY <2>2 DEF TypeOK, Shapes, Versions
  <2> HIDE DEF v
  <2>4. goal[1] \notin {"absent", "initial"}
    BY GoalParts DEF TypeOK, Shapes, Goals
  <2>5. Onward
    BY <2>1, <2>2, <2>3, <2>4, ZenonT(30) DEF Onward, Lost
  <2>6. goal[1] = "Deleting" => "del" \in cache.marks
    BY <1>1, <2>1 DEF ReadyInv, PassOrder, Deleted
  <2>7. CrOrder'
    BY <1>1, <2>2, <2>3, <2>4, <2>6, ZenonT(30) DEF LifeInv, CrOrder
  <2>8. Ending(cr') => Lost'
    <3>1. goal[2] = NotCleaned => goal[1] = "Deleting" \/ doomed
      BY <1>1, <2>1 DEF LifeInv, PassTells, Removing, Updating, Lost
    <3> QED BY <2>2, <2>3, <3>1, ZenonT(30) DEF Ending, Lost
  <2>9. PassTells'
    BY <1>1, <2>2, <2>3, <2>4, <2>5, ZenonT(30)
    DEF LifeInv, PassTells, Onward, Removing, Steps, Updating
  <2> QED BY <1>1, <2>1, <2>5, <2>7, <2>8, <2>9, StoredLife
<1> QED BY <1>2, <1>3 DEF Sends

LEMMA UserCreatesCrLife ==
  ASSUME TypeOK, TypeOK', WakeUps, ReadyInv, LifeInv, UserCreatesCr, MaxCreates \in {0, 1}
  PROVE  LifeInv'
<1>1. cr' = New /\ cache' = Gone /\ pc' = "idle" /\ stream' = <<New>>
  BY Creation, ZenonT(30)
<1>2. doomed' = FALSE
  <2>1. ~doomed
    BY DEF UserCreatesCr, LifeInv, CrOrder
  <2>2. doomed' = (cr' # Gone /\ (doomed \/ New.st = "Deleting"))
    BY DEF UserCreatesCr, Store
  <2>3. New.st # "Deleting"
    BY DEF New
  <2> QED BY <2>1, <2>2, <2>3, ZenonT(30)
<1>3. \A i \in 1..Len(stream') : stream'[i] = New
  BY SMTT(20), <1>1
<1>4. CrOrder'
  BY <1>1, <1>2 DEF CrOrder, New
<1>5. Tells(cache)' /\ \A i \in 1..Len(stream') : Tells(stream[i])'
  BY SMTT(20), <1>1, <1>3 DEF Tells, Ending, Gone, New, NotCleaned
<1>6. PassTells'
  BY <1>1 DEF PassTells, Removing, Steps, Updating
<1> QED BY <1>4, <1>5, <1>6 DEF LifeInv

LEMMA InformerLife ==
  ASSUME TypeOK, WakeUps, ReadyInv, LifeInv, InformerDelivers
  PROVE  LifeInv'
<1>1. /\ cache' = stream[1] /\ 1 \in 1..Len(stream)
      /\ \A i \in 1..Len(stream') : i + 1 \in 1..Len(stream) /\ stream'[i] = stream[i+1]
      /\ UNCHANGED <<cr, doomed, pc, goal, after, sent, mine, fresh>>
  BY StreamShrinks DEF InformerDelivers, loop
<1>2. CrOrder'
  <2>1. doomed => "del" \in cache'.marks
    BY <1>1 DEF LifeInv, CrOrder, ReadyInv, VersionOrder, Deleted, WakeUps, StreamSound
  <2> QED BY <1>1, <2>1 DEF LifeInv, CrOrder
<1>3. Tells(cache)' /\ \A i \in 1..Len(stream') : Tells(stream[i])'
  BY <1>1 DEF LifeInv, Tells, Ending, Lost
<1>4. PassTells'
  BY <1>1 DEF LifeInv, PassTells, Removing, Updating, Lost
<1> QED BY <1>2, <1>3, <1>4 DEF LifeInv

LEMMA CrashLife ==
  ASSUME TypeOK, WakeUps, ReadyInv, LifeInv, Crash
  PROVE  LifeInv'
<1>1. cache' = cr /\ stream' = <<>> /\ pc' = "idle" /\ UNCHANGED <<cr, doomed>>
  BY DEF Crash
<1>2. Len(stream') = 0
  BY <1>1
<1>3. doomed => "del" \in cr.marks
  BY Newest DEF LifeInv, CrOrder, ReadyInv, Deleted
<1>4. CrOrder'
  BY <1>1, <1>3 DEF LifeInv, CrOrder
<1>5. Tells(cache)'
  BY <1>1, Told DEF Tells, Ending, Lost
<1>6. PassTells'
  BY <1>1 DEF PassTells, Removing, Steps, Updating
<1> QED BY SMTT(20), <1>2, <1>4, <1>5, <1>6 DEF LifeInv

\* Every step of a CR that is created at most once keeps LifeInv.
LEMMA NextLife ==
  ASSUME MaxCreates \in {0, 1}, TypeOK, TypeOK', WakeUps, ReadyInv, LifeInv, [Next]_vars
  PROVE  LifeInv'
<1>1. CASE Handler
  <2>1. CASE AddFinalizer
    BY <2>1, AddFinalizerStep, FinalizesLife
  <2>2. CASE Provision \/ CheckReady
    BY <2>2, ProvisionSteps, ProvisionsLife
  <2>3. CASE Deprovision \/ HardDelete \/ RemoveResources \/ SoftDelete \/ Recount
    BY <2>3, DeprovisionSteps, DeprovisionsLife
  <2>4. CASE RemoveFinalizer
    BY <2>4, RemoveFinalizerStep, FinalizesLife
  <2> QED BY <1>1, <2>1, <2>2, <2>3, <2>4 DEF Handler
<1>2. CASE Worker
  <2>1. CASE Reconcile
    BY <2>1, ReconcileBegins, BeginsLife
  <2>2. CASE SendStatus
    BY <2>2, SendStatusSends, SendsLife
  <2>3. CASE GetStatus \/ StatusUpdateTimeout
    BY <2>3, UpdateSteps, UpdatesLife
  <2> QED BY <1>1, <1>2, <2>1, <2>2, <2>3 DEF Worker, StatusUpdate
<1>3. CASE UserDeletesCr \/ UserEditsCr \/ GarbageCollect
  BY <1>3, TouchedSteps, TouchedLife
<1>4. CASE UserEditsSecret \/ UserBlocks \/ ModuleEvent \/ TimerFires \/ UNCHANGED vars
  BY <1>4, ApartSteps, ApartLife
<1>5. CASE UserCreatesCr
  BY <1>5, UserCreatesCrLife
<1>6. CASE InformerDelivers
  BY <1>6, InformerLife
<1>7. CASE Crash
  BY <1>7, CrashLife
<1> QED
  BY <1>2, <1>3, <1>4, <1>5, <1>6, <1>7 DEF Next, Users

-----------------------------------------------------------------------------
(* The steps of the life cycle.                                             *)

\* The promise is about the CR alone.
LEMMA Stutter ==
  ASSUME UNCHANGED <<cr, doomed>>
  PROVE  UNCHANGED Lifecycle!vars
BY DEF Lifecycle!vars

LEMMA SendsRefines ==
  ASSUME TypeOK, WakeUps, ReadyInv, LifeInv, Sends
  PROVE  [Lifecycle!Next]_(Lifecycle!vars)
<1> DEFINE v == [cr EXCEPT !.st = goal[1], !.rs = goal[2]]
<1>1. pc = "send"
  BY DEF Sends
<1>2. CASE UNCHANGED <<cr, doomed>>
  BY <1>2, Stutter
<1>3. CASE Current /\ Store(v)
  <2>1. cache = cr /\ cr # Gone /\ cr.st # "absent"
    BY <1>1, <1>3
    DEF Current, ReadyInv, PassOrder, WakeUps, StreamSound, LastVersion, LifeInv, CrOrder
  <2>2. cr' = v /\ doomed' = (doomed \/ goal[1] = "Deleting")
    BY <1>3, <2>1, Accepted DEF LifeInv
  <2>3. cr'.st = goal[1] /\ cr'.marks = cr.marks
    BY <2>2 DEF TypeOK, Shapes, Versions
  <2>4. goal[1] \in {"Processing", "Ready", "Warning", "Error", "Deleting"}
    BY GoalParts DEF TypeOK, Shapes, Goals, States
  <2>5. doomed \/ "fin" \in cr.marks
    BY <1>1, <2>1, ZenonT(30) DEF LifeInv, PassTells, Lost
  <2>6. doomed \in BOOLEAN /\ cr.st \in States
    BY DEF TypeOK, Flags, Shapes, Versions
  <2>7. CASE goal[1] = "Deleting"
    <3>1. "del" \in cr.marks
      BY <1>1, <2>1, <2>7 DEF ReadyInv, PassOrder, Deleted
    <3>2. doomed' = TRUE
      BY <2>2, <2>7, ZenonT(30)
    <3>3. Lifecycle!Doom
      BY <2>1, <2>3, <2>5, <2>7, <3>1, <3>2 DEF Lifecycle!Doom
    <3> QED BY <3>3 DEF Lifecycle!Next
  <2>8. CASE goal[1] # "Deleting" /\ doomed
    <3>1. goal[1] \in {"Warning", "Error"}
      BY <1>1, <2>4, <2>8 DEF LifeInv, PassTells, Updating, TypeOK, Shapes
    <3>2. doomed' = doomed
      BY <2>2, <2>6, <2>8, ZenonT(30)
    <3>3. Lifecycle!Struggle
      BY <2>3, <2>8, <3>1, <3>2 DEF Lifecycle!Struggle
    <3> QED BY <3>3 DEF Lifecycle!Next
  <2>9. CASE goal[1] # "Deleting" /\ ~doomed
    <3>1. doomed' = doomed
      BY <2>2, <2>6, <2>9
    <3>2. "fin" \in cr.marks /\ cr.st # "Deleting"
      BY <2>5, <2>9 DEF LifeInv, CrOrder
    <3>3. goal[1] # "Processing" => cr.st # "initial"
      BY <1>1, <2>1, <2>9 DEF LifeInv, PassTells, Removing, Updating, Lost
    <3>4. cr.st \in {"initial", "Processing", "Ready", "Warning", "Error"}
      BY <2>1, <2>6, <3>2 DEF States
    <3>5. CASE cr.st = "initial"
      <4>1. Lifecycle!Start
        BY <2>3, <2>9, <3>1, <3>2, <3>3, <3>5 DEF Lifecycle!Start
      <4> QED BY <4>1 DEF Lifecycle!Next
    <3>6. CASE cr.st # "initial"
      <4>1. Lifecycle!Work
        BY <2>3, <2>4, <2>9, <3>1, <3>2, <3>4, <3>6 DEF Lifecycle!Work
      <4> QED BY <4>1 DEF Lifecycle!Next
    <3> QED BY <3>5, <3>6
  <2> QED BY <2>7, <2>8, <2>9
<1> QED BY <1>2, <1>3 DEF Sends

\* A write of somebody else deletes the CR, drops it, or is not seen.
LEMMA TouchedRefines ==
  ASSUME TypeOK, LifeInv, NEW m, Touched(m)
  PROVE  [Lifecycle!Next]_(Lifecycle!vars)
<1>1. /\ Store([cr EXCEPT !.marks = m]) /\ cr # Gone
      /\ "fin" \in m <=> "fin" \in cr.marks
      /\ "del" \in cr.marks => "del" \in m
  BY DEF Touched, Marked
<1>2. cr.st # "absent"
  BY <1>1 DEF LifeInv, CrOrder
<1>3. Dropped(m) \/ Remarked(m)
  BY <1>1, OtherMarks DEF LifeInv
<1>4. CASE Dropped(m)
  <2>1. Lifecycle!Vanish
    BY SMTT(20), <1>1, <1>2, <1>4 DEF Dropped, Gone, Lifecycle!Vanish
  <2> QED BY <2>1 DEF Lifecycle!Next
<1>5. CASE Remarked(m) /\ ("del" \in m <=> "del" \in cr.marks)
  BY SMTT(20), <1>1, <1>5 DEF Remarked, Lifecycle!vars
<1>6. CASE Remarked(m) /\ "del" \in m /\ "del" \notin cr.marks
  <2>1. Lifecycle!Delete
    BY SMTT(20), <1>1, <1>2, <1>6 DEF Remarked, Lifecycle!Delete
  <2> QED BY <2>1 DEF Lifecycle!Next
<1> QED BY <1>1, <1>3, <1>4, <1>5, <1>6

\* The finalizer is set on a CR that the user has not deleted.
LEMMA AddFinalizerRefines ==
  ASSUME TypeOK, WakeUps, LifeInv, AddFinalizer
  PROVE  [Lifecycle!Next]_(Lifecycle!vars)
<1>1. CASE UNCHANGED <<cr, doomed>>
  BY <1>1, Stutter
<1>2. CASE Current /\ "del" \notin cr.marks /\ Store([cr EXCEPT !.marks = @ \cup {"fin"}])
  <2> DEFINE m == cr.marks \cup {"fin"}
  <2>1. Store([cr EXCEPT !.marks = m]) /\ cr # Gone /\ "fin" \in m /\ "del" \notin m
    BY <1>2 DEF Current
  <2>2. "fin" \notin cr.marks
    BY <1>2 DEF AddFinalizer, Current, WakeUps, PassSound
  <2>3. cr.st # "absent"
    BY <2>1 DEF LifeInv, CrOrder
  <2> HIDE DEF m
  <2>4. Dropped(m) \/ Remarked(m)
    BY <1>2, <2>1, OtherMarks DEF LifeInv
  <2>5. Lifecycle!Hold
    BY SMTT(20), <1>2, <2>1, <2>2, <2>3, <2>4 DEF Dropped, Remarked, Lifecycle!Hold
  <2> QED BY <2>5 DEF Lifecycle!Next
<1> QED BY <1>1, <1>2 DEF AddFinalizer

\* The finalizer is given up after the CR has been in the state Deleting.
LEMMA RemoveFinalizerRefines ==
  ASSUME TypeOK, LifeInv, RemoveFinalizer
  PROVE  [Lifecycle!Next]_(Lifecycle!vars)
<1>1. CASE UNCHANGED <<cr, doomed>>
  BY <1>1, Stutter
<1>2. CASE Current /\ Store([cr EXCEPT !.marks = @ \ {"fin"}])
  <2> DEFINE m == cr.marks \ {"fin"}
  <2>1. /\ Store([cr EXCEPT !.marks = m]) /\ cr # Gone /\ fresh
        /\ "fin" \notin m /\ ("del" \in m <=> "del" \in cr.marks)
    BY <1>2 DEF Current
  <2> HIDE DEF m
  <2>2. pc = "removeFinalizer"
    BY DEF RemoveFinalizer
  <2>3. doomed /\ cr.st \in {"Deleting", "Warning"} /\ cr.st # "absent"
    BY <2>1, <2>2 DEF LifeInv, PassTells, Removing, Steps, Lost
  <2>4. Dropped(m) \/ Remarked(m)
    BY <2>1, OtherMarks DEF LifeInv
  <2>5. CASE Dropped(m)
    <3>1. Lifecycle!Vanish
      BY SMTT(20), <2>3, <2>5 DEF Dropped, Gone, Lifecycle!Vanish
    <3> QED BY <3>1 DEF Lifecycle!Next
  <2>6. CASE Remarked(m) /\ "fin" \in cr.marks
    <3>1. Lifecycle!Release
      BY SMTT(20), <2>1, <2>3, <2>6 DEF Remarked, Lifecycle!Release
    <3> QED BY <3>1 DEF Lifecycle!Next
  <2>7. CASE Remarked(m) /\ "fin" \notin cr.marks
    BY SMTT(20), <2>1, <2>7 DEF Remarked, Lifecycle!vars
  <2> QED BY <2>4, <2>5, <2>6, <2>7
<1> QED BY <1>1, <1>2 DEF RemoveFinalizer

LEMMA CreationRefines ==
  ASSUME TypeOK, LifeInv, UserCreatesCr
  PROVE  [Lifecycle!Next]_(Lifecycle!vars)
<1>1. cr = Gone /\ cr' = New
  BY DEF UserCreatesCr, Store, Kept, New
<1>2. ~doomed /\ doomed \in BOOLEAN
  BY <1>1 DEF LifeInv, CrOrder, TypeOK, Flags
<1>3. doomed' = (cr' # Gone /\ (doomed \/ New.st = "Deleting")) /\ New.st # "Deleting"
  BY DEF UserCreatesCr, Store, New
<1>4. doomed' = doomed
  BY <1>2, <1>3
<1>5. Lifecycle!Create
  BY <1>1, <1>4 DEF Gone, New, Lifecycle!Create
<1> QED BY <1>5 DEF Lifecycle!Next

\* Every step of the reconciler is a step of the life cycle or none.
LEMMA NextRefines ==
  ASSUME TypeOK, TypeOK', WakeUps, ReadyInv, LifeInv, [Next]_vars
  PROVE  [Lifecycle!Next]_(Lifecycle!vars)
<1>1. CASE Handler
  <2>1. CASE Provision \/ CheckReady
    BY <2>1, ProvisionSteps, Stutter DEF Provisions, Still
  <2>2. CASE Deprovision \/ HardDelete \/ RemoveResources \/ SoftDelete \/ Recount
    BY <2>2, DeprovisionSteps, Stutter DEF Deprovisions, Still
  <2> QED BY <1>1, <2>1, <2>2, AddFinalizerRefines, RemoveFinalizerRefines DEF Handler
<1>2. CASE Worker
  <2>1. CASE Reconcile
    BY <2>1, ReconcileBegins, Stutter DEF Begins, Still
  <2>2. CASE SendStatus
    BY <2>2, SendStatusSends, SendsRefines
  <2>3. CASE GetStatus \/ StatusUpdateTimeout
    BY <2>3, UpdateSteps, Stutter DEF Updates, Still
  <2> QED BY <1>1, <1>2, <2>1, <2>2, <2>3 DEF Worker, StatusUpdate
<1>3. CASE UserDeletesCr \/ UserEditsCr \/ GarbageCollect
  BY <1>3, TouchedSteps, TouchedRefines
<1>4. CASE UserEditsSecret \/ UserBlocks \/ ModuleEvent \/ TimerFires \/ UNCHANGED vars
  BY <1>4, ApartSteps, Stutter DEF Apart, Still
<1>5. CASE InformerDelivers \/ Crash
  BY <1>5, Stutter DEF InformerDelivers, Crash
<1> QED
  BY <1>2, <1>3, <1>4, <1>5, CreationRefines DEF Next, Users

\* LifeInv and the promise hold at the start.
LEMMA InitLife ==
  ASSUME Init
  PROVE  LifeInv /\ Lifecycle!Init
<1>1. cr = Gone /\ cache = Gone /\ stream = <<>> /\ pc = "idle" /\ doomed = FALSE
  BY DEF Init
<1>2. Len(stream) = 0
  BY <1>1
<1>3. Gone.st = "absent" /\ Gone.rs = "none" /\ Gone.marks = {} /\ NotCleaned # "none"
  BY DEF Gone, NotCleaned
<1>4. CrOrder
  BY <1>1, <1>3 DEF CrOrder
<1>5. Tells(cache)
  BY <1>1, <1>3 DEF Tells, Ending
<1>6. PassTells
  BY <1>1 DEF PassTells, Removing, Steps, Updating
<1>7. Lifecycle!Init
  BY <1>1, <1>3 DEF Lifecycle!Init
<1> QED BY SMTT(20), <1>2, <1>4, <1>5, <1>6, <1>7 DEF LifeInv

\* The reconciler keeps the promises of BtpOperatorLifecycle to the user of a CR
\* that is created at most once: whatever the cache shows and whichever request
\* fails or times out, there is no way back from Deleting to Processing or Ready,
\* and the finalizer is given up only by a deletion that has been through Deleting.
THEOREM ImplementsLifecycle == MaxCreates \in {0, 1} /\ Spec => LifecycleSpec
<1> SUFFICES ASSUME MaxCreates \in {0, 1} PROVE Spec => LifecycleSpec
  OBVIOUS
<1>1. Init => WakeUps /\ ReadyInv
  BY InitReady
<1>2. Init => LifeInv /\ Lifecycle!Init
  BY InitLife
<1>3. TypeOK /\ StatusSound /\ [Next]_vars => (TypeOK /\ StatusSound)'
  BY NextType
<1>4. TypeOK /\ TypeOK' /\ WakeUps /\ [Next]_vars => WakeUps'
  BY NextWakes
<1>5. TypeOK /\ TypeOK' /\ WakeUps /\ StatusSound /\ ReadyInv /\ [Next]_vars => ReadyInv'
  BY NextReady
<1>6. TypeOK /\ TypeOK' /\ WakeUps /\ ReadyInv /\ LifeInv /\ [Next]_vars => LifeInv'
  BY NextLife
<1>7. TypeOK /\ TypeOK' /\ WakeUps /\ ReadyInv /\ LifeInv /\ [Next]_vars
        => [Lifecycle!Next]_(Lifecycle!vars)
  BY NextRefines
<1> QED
  BY InitType, <1>1, <1>2, <1>3, <1>4, <1>5, <1>6, <1>7, PTL DEF Spec, LifecycleSpec, Lifecycle!Spec
=============================================================================
