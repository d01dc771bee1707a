------------------------ MODULE DeprovisioningProofs ------------------------
(* The safety properties of Deprovisioning hold for every number of         *)
(* objects, namespaces, goroutines, faults and restarts. The argument is    *)
(* the inductive invariant IInv, whose parts are independent of each other: *)
(*  - Draining follows the objects that existed when the pass began through *)
(*    the counts, the goroutine's answer and the soft delete;               *)
(*  - Removing follows the module's resources down to the finalizer;        *)
(*  - SecretsBound: a binding goes together with its Secret, unless the     *)
(*    Secret has a name of its own or its deletion was cut off;             *)
(*  - Doomed relates the status of the CR to the step of the pass.          *)
EXTENDS Deprovisioning, TLAPS

\* Each leaf is given to Zenon and then to SMT, with time for slow machines.
USE ZenonT(10), SMTT(20)
-----------------------------------------------------------------------------
(* Type correctness. Boolean variables (Flags) and all others (Shapes) are  *)
(* proved separately.                                                       *)
\* What the proofs need to know of the two orders of resource groups.
LEMMA Orders ==
  /\ Len(DeleteOrder) = 6 /\ Len(ApplyOrder) = 5
  /\ \A i \in 1..6 : DeleteOrder[i] \in {"crd"} \cup Groups
  /\ \A i \in 1..5 : ApplyOrder[i] \in {"crd"} \cup (Groups \ {"clusterId"})
  /\ \A i \in 1..6 : DeleteOrder[i] = "crd" <=> i = 1
  /\ \A i \in 1..6 : DeleteOrder[i] = "clusterId" <=> i = 6
  /\ \A x \in Groups : \E i \in 1..6 : DeleteOrder[i] = x
BY SMTT(20) DEF DeleteOrder, ApplyOrder, Groups

\* The initial states are well typed.
LEMMA InitType == Init => TypeOK
<1> SUFFICES ASSUME Init PROVE TypeOK
  OBVIOUS
<1>1. Flags
  BY ZenonT(30) DEF Init, Flags
<1>2. Shapes
  BY SMTT(20), ConstantsAssumption, Orders
  DEF Init, Shapes, Reasons, Groups, WorkerSteps, NoDeleter, DeleterStates, Objects
<1> QED
  BY <1>1, <1>2 DEF TypeOK
-----------------------------------------------------------------------------
(* Every action keeps TypeOK.                                               *)
\* The step A keeps the types.
KeepsTypes(A) == TypeOK /\ A => TypeOK'

\* The DeleteAllOf requests of one kind, shared by the next two lemmas.
LEMMA DeleteAllOfType ==
  ASSUME TypeOK, NEW d \in Deleters, NEW S, NEW kind \in {"sb", "si"},
         NEW next \in {"instances", "poll"}, DeleteAllOf(d, S, kind, next)
  PROVE  TypeOK'
<1> USE DEF TypeOK, DeleteAllOf, cr, world, cache, mem, scan, Ok, Fail
<1>1. Flags'
  BY ZenonT(30) DEF Flags
<1>2. objs' \in [Objects -> {"absent", "active", "deleting"}]
  BY DEF Shapes, Deleted
<1>3. g' \in [Deleters -> DeleterStates]
  BY SMTT(20) DEF Shapes, DeleterStates
<1>4. Shapes'
  BY SMTT(20), <1>2, <1>3, ConstantsAssumption DEF Shapes
<1> QED BY <1>1, <1>4

\* The count of failures stays within its bound.
LEMMA OneMoreFailure == \A n \in 0..MaxFails : n < MaxFails => n + 1 \in 0..MaxFails
BY SMTT(20), ConstantsAssumption

\* Soft deletion of one object of either kind.
LEMMA SoftItemType ==
  ASSUME TypeOK, NEW p, NEW next \in {"ensureBindings", "ensureInstances"},
         SoftItem(p, next)
  PROVE  TypeOK'
<1> USE DEF TypeOK, SoftItem, cr, world, cache, mem, scan, Ok, Fail, Goto, RestoreAndFail
<1>1. Flags'
  BY ZenonT(30) DEF Flags
<1>2. objs' \in [Objects -> {"absent", "active", "deleting"}]
  BY DEF Shapes, Deleted
<1>3. todo' \subseteq (Objects \X {"active", "deleting"}) \cup (Bindings \X {"stripped"})
  <2>1. \/ todo' = todo
        \/ \E t \in todo : todo' = (todo \ {t}) \cup ({t[1]} \cap Bindings) \X {"stripped"}
    BY ZenonT(30)
  <2> QED BY SMTT(20), <2>1 DEF Shapes
<1>4. \/ UNCHANGED <<pc, k, cont>>
      \/ pc' \in {next, "restore"} /\ k' = 1 /\ cont' \in {cont, "err"}
  BY ZenonT(30)
<1>5. fails' \in 0..MaxFails
  BY ZenonT(30), OneMoreFailure DEF Shapes
<1>6. /\ pc' \in WorkerSteps /\ k' \in 1..Len(DeleteOrder) /\ cont' \in {"err", "recount"}
      /\ pc' = "apply" => k' \in 1..Len(ApplyOrder)
  BY SMTT(20), <1>4, Orders DEF Shapes, WorkerSteps
<1>7. Shapes'
  BY <1>2, <1>3, <1>5, <1>6 DEF Shapes
<1> QED BY <1>1, <1>7

-----------------------------------------------------------------------------
\* Every step keeps TypeOK.
LEMMA NextType ==
  TypeOK /\ [Next]_vars
    => TypeOK'
<1>1. KeepsTypes(Reconcile)
  <2> SUFFICES ASSUME TypeOK, Reconcile PROVE TypeOK'
    BY DEF KeepsTypes
  <2> USE DEF TypeOK, Reconcile, cr, world, cache, mem, scan, process, Goto, Ok, Fail
  <2>1. Flags'
    BY ZenonT(30) DEF Flags
  <2>2. Shapes'
    BY SMTT(20), ConstantsAssumption, Orders
      DEF Shapes, Reasons, Groups, WorkerSteps, Objects, DeleterStates
  <2> QED BY <2>1, <2>2
<1>2. KeepsTypes(SetDeleting)
  <2> SUFFICES ASSUME TypeOK, SetDeleting PROVE TypeOK'
    BY DEF KeepsTypes
  <2> USE
  DEF TypeOK, SetDeleting, StatusWritten, StatusNotWritten, ReturnError, WokenByStatus, cr, world,
        cache, mem, scan, process, Goto, Ok, Fail
  <2>1. Flags'
    BY ZenonT(30) DEF Flags
  <2>2. Shapes'
    BY SMTT(20), ConstantsAssumption, Orders
      DEF Shapes, Reasons, Groups, WorkerSteps, Objects, DeleterStates
  <2> QED BY <2>1, <2>2
<1>3. KeepsTypes(GetSecret)
  <2> SUFFICES ASSUME TypeOK, GetSecret PROVE TypeOK'
    BY DEF KeepsTypes
  <2> USE DEF TypeOK, GetSecret, ReturnError, cr, world, cache, mem, scan, process, Goto, Ok, Fail
  <2>1. Flags'
    BY ZenonT(30) DEF Flags
  <2>2. Shapes'
    BY SMTT(20), ConstantsAssumption, Orders
      DEF Shapes, Reasons, Groups, WorkerSteps, Objects, DeleterStates
  <2> QED BY <2>1, <2>2
<1>4. KeepsTypes(ListNamespaces)
  <2> SUFFICES ASSUME TypeOK, ListNamespaces PROVE TypeOK'
    BY DEF KeepsTypes
  <2> USE
  DEF TypeOK, ListNamespaces, RestoreAndFail, Unblocked, cr, world, cache, mem, scan, process,
        Goto, Ok, Fail
  <2>1. Flags'
    BY ZenonT(30) DEF Flags
  <2>2. Shapes'
    BY SMTT(20), ConstantsAssumption, Orders
      DEF Shapes, Reasons, Groups, WorkerSteps, Objects, DeleterStates
  <2> QED BY <2>1, <2>2
<1>5. KeepsTypes(CountBindings)
  <2> SUFFICES ASSUME TypeOK, CountBindings PROVE TypeOK'
    BY DEF KeepsTypes
  <2> USE
  DEF TypeOK, CountBindings, RestoreAndFail, cr, world, cache, mem, scan, process, Goto, Ok, Fail
  <2>1. Flags'
    BY ZenonT(30) DEF Flags, AnyOf, CrdExists
  <2>2. Shapes'
    BY SMTT(20), ConstantsAssumption, Orders
      DEF Shapes, Reasons, Groups, WorkerSteps, Objects, DeleterStates
  <2> QED BY <2>1, <2>2
<1>6. KeepsTypes(CountInstances)
  <2> SUFFICES ASSUME TypeOK, CountInstances PROVE TypeOK'
    BY DEF KeepsTypes
  <2> USE
  DEF TypeOK, CountInstances, RestoreAndFail, Unblocked, cr, world, cache, mem, scan, process,
        Goto, Ok, Fail
  <2>1. Flags'
    BY ZenonT(30) DEF Flags
  <2>2. Shapes'
    BY SMTT(20), ConstantsAssumption, Orders
      DEF Shapes, Reasons, Groups, WorkerSteps, Objects, DeleterStates
  <2> QED BY <2>1, <2>2
<1>7. KeepsTypes(SetNotCleaned)
  <2> SUFFICES ASSUME TypeOK, SetNotCleaned PROVE TypeOK'
    BY DEF KeepsTypes
  <2> USE DEF TypeOK, SetNotCleaned, StatusWritten, StatusNotWritten, RestoreAndFail, AfterHandled,
        WokenByStatus, cr, world, cache, mem, scan, process, Goto, Ok, Fail
  <2>1. Flags'
    BY ZenonT(30) DEF Flags
  <2>2. Shapes'
    BY SMTT(20), ConstantsAssumption, Orders
      DEF Shapes, Reasons, Groups, WorkerSteps, Objects, DeleterStates
  <2> QED BY <2>1, <2>2
<1>8. KeepsTypes(SetHard)
  <2> SUFFICES ASSUME TypeOK, SetHard PROVE TypeOK'
    BY DEF KeepsTypes
  <2> USE
  DEF TypeOK, SetHard, StatusWritten, StatusNotWritten, RestoreAndFail, WokenByStatus, cr, world,
        cache, mem, scan, process, Goto, Ok, Fail
  <2>1. Flags'
    BY ZenonT(30) DEF Flags
  <2>2. Shapes'
    BY SMTT(20), ConstantsAssumption, Orders
      DEF Shapes, Reasons, Groups, WorkerSteps, Objects, DeleterStates
  <2> QED BY <2>1, <2>2
<1>9. KeepsTypes(Launch)
  <2> SUFFICES ASSUME TypeOK, Launch PROVE TypeOK'
    BY DEF KeepsTypes
  <2> USE DEF TypeOK, Launch, NoDeleter, cr, world, cache, mem, scan, process, Goto, Ok, Fail
  <2>1. Flags'
    BY ZenonT(30) DEF Flags
  <2>2. Shapes'
    BY SMTT(20), ConstantsAssumption, Orders
      DEF Shapes, Reasons, Groups, WorkerSteps, Objects, DeleterStates
  <2> QED BY <2>1, <2>2
<1>10. KeepsTypes(HardDeleteAnswered)
  <2> SUFFICES ASSUME TypeOK, HardDeleteAnswered PROVE TypeOK'
    BY DEF KeepsTypes
  <2> USE DEF TypeOK, HardDeleteAnswered, cr, world, cache, mem, scan, process, Goto, Ok, Fail
  <2>1. Flags'
    BY ZenonT(30) DEF Flags
  <2>2. Shapes'
    BY SMTT(20), ConstantsAssumption, Orders
      DEF Shapes, Reasons, Groups, WorkerSteps, Objects, DeleterStates
  <2> QED BY <2>1, <2>2
<1>11. KeepsTypes(HardDeleteTimeout)
  <2> SUFFICES ASSUME TypeOK, HardDeleteTimeout PROVE TypeOK'
    BY DEF KeepsTypes
  <2> USE DEF TypeOK, HardDeleteTimeout, cr, world, cache, mem, scan, process, Goto, Ok, Fail
  <2>1. Flags'
    BY ZenonT(30) DEF Flags
  <2>2. Shapes'
    BY SMTT(20), ConstantsAssumption, Orders
      DEF Shapes, Reasons, Groups, WorkerSteps, Objects, DeleterStates
  <2> QED BY <2>1, <2>2
<1>12. KeepsTypes(SetSoft)
  <2> SUFFICES ASSUME TypeOK, SetSoft PROVE TypeOK'
    BY DEF KeepsTypes
  <2> USE
  DEF TypeOK, SetSoft, StatusWritten, StatusNotWritten, RestoreAndFail, WokenByStatus, cr, world,
        cache, mem, scan, process, Goto, Ok, Fail
  <2>1. Flags'
    BY ZenonT(30) DEF Flags
  <2>2. Shapes'
    BY SMTT(20), ConstantsAssumption, Orders
      DEF Shapes, Reasons, Groups, WorkerSteps, Objects, DeleterStates
  <2> QED BY <2>1, <2>2
<1>13. KeepsTypes(PreSoftDelete)
  <2> SUFFICES ASSUME TypeOK, PreSoftDelete PROVE TypeOK'
    BY DEF KeepsTypes
  <2> USE
  DEF TypeOK, PreSoftDelete, RestoreAndFail, WokenByModule, cr, world, cache, mem, scan, process,
        Goto, Ok, Fail
  <2>1. Flags'
    BY ZenonT(30) DEF Flags
  <2>2. mod' \subseteq Groups
    BY DEF Shapes
  <2>3. Shapes'
    BY SMTT(20), <2>2, ConstantsAssumption, Orders DEF Shapes, WorkerSteps
  <2> QED BY <2>1, <2>3
<1>14. KeepsTypes(CheckCrds)
  <2> SUFFICES ASSUME TypeOK, CheckCrds PROVE TypeOK'
    BY DEF KeepsTypes
  <2> USE
  DEF TypeOK, CheckCrds, RestoreAndFail, BindingsFirst, cr, world, cache, mem, scan, process,
        Goto, Ok, Fail
  <2>1. Flags'
    BY ZenonT(30) DEF Flags
  <2>2. Shapes'
    BY SMTT(20), ConstantsAssumption, Orders
      DEF Shapes, Reasons, Groups, WorkerSteps, Objects, DeleterStates
  <2> QED BY <2>1, <2>2
<1>15. KeepsTypes(ListBindings)
  <2> SUFFICES ASSUME TypeOK, ListBindings PROVE TypeOK'
    BY DEF KeepsTypes
  <2> USE
  DEF TypeOK, ListBindings, SoftList, RestoreAndFail, cr, world, cache, mem, scan, process, Goto,
        Ok, Fail
  <2>1. Flags'
    BY ZenonT(30) DEF Flags
  <2>2. Shapes'
    BY SMTT(20), ConstantsAssumption, Orders
      DEF Shapes, Reasons, Groups, WorkerSteps, Objects, DeleterStates
  <2> QED BY <2>1, <2>2
<1>16. KeepsTypes(SoftBindings)
  BY SoftItemType DEF KeepsTypes, SoftBindings
<1>51. KeepsTypes(SoftSecret)
  <2> SUFFICES ASSUME TypeOK, SoftSecret PROVE TypeOK'
    BY DEF KeepsTypes
  <2> USE DEF TypeOK, SoftSecret, RestoreAndFail, cr, world, cache, mem, scan, Goto, Ok, Fail
  <2>1. Flags'
    BY ZenonT(30) DEF Flags
  <2>2. /\ bsec' \subseteq Bindings
        /\ todo' \subseteq (Objects \X {"active", "deleting"}) \cup (Bindings \X {"stripped"})
    BY DEF Shapes, SecretDeleted
  <2>3. lost' \subseteq Bindings
    BY SMTT(20) DEF Shapes, LostNow, Stripped
  <2>4. Shapes'
    BY SMTT(20), <2>2, <2>3, ConstantsAssumption, Orders DEF Shapes, WorkerSteps
  <2> QED BY <2>1, <2>4
<1>17. KeepsTypes(EnsureBindings)
  <2> SUFFICES ASSUME TypeOK, EnsureBindings PROVE TypeOK'
    BY DEF KeepsTypes
  <2> USE
  DEF TypeOK, EnsureBindings, SoftEnsure, RestoreAndFail, cr, world, cache, mem, scan, process,
        Goto, Ok, Fail
  <2>1. Flags'
    BY ZenonT(30) DEF Flags
  <2>2. Shapes'
    BY SMTT(20), ConstantsAssumption, Orders
      DEF Shapes, Reasons, Groups, WorkerSteps, Objects, DeleterStates
  <2> QED BY <2>1, <2>2
<1>18. KeepsTypes(ListInstances)
  <2> SUFFICES ASSUME TypeOK, ListInstances PROVE TypeOK'
    BY DEF KeepsTypes
  <2> USE
  DEF TypeOK, ListInstances, SoftList, RestoreAndFail, cr, world, cache, mem, scan, process, Goto,
        Ok, Fail
  <2>1. Flags'
    BY ZenonT(30) DEF Flags
  <2>2. Shapes'
    BY SMTT(20), ConstantsAssumption, Orders
      DEF Shapes, Reasons, Groups, WorkerSteps, Objects, DeleterStates
  <2> QED BY <2>1, <2>2
<1>19. KeepsTypes(SoftInstances)
  BY SoftItemType DEF KeepsTypes, SoftInstances
<1>20. KeepsTypes(EnsureInstances)
  <2> SUFFICES ASSUME TypeOK, EnsureInstances PROVE TypeOK'
    BY DEF KeepsTypes
  <2> USE
  DEF TypeOK, EnsureInstances, SoftEnsure, RestoreAndFail, cr, world, cache, mem, scan, process,
        Goto, Ok, Fail
  <2>1. Flags'
    BY ZenonT(30) DEF Flags
  <2>2. Shapes'
    BY SMTT(20), ConstantsAssumption, Orders
      DEF Shapes, Reasons, Groups, WorkerSteps, Objects, DeleterStates
  <2> QED BY <2>1, <2>2
<1>21. KeepsTypes(DeleteHard)
  <2> SUFFICES ASSUME TypeOK, DeleteHard PROVE TypeOK'
    BY DEF KeepsTypes
  <2> USE
  DEF TypeOK, DeleteHard, AfterHandled, WokenByModule, Remove, Deleted, AllDeleted, cr, world,
        cache, mem, scan, process, Goto, Ok, Fail
  <2>1. Flags'
    BY ZenonT(30) DEF Flags
  <2>2. Shapes'
    BY SMTT(20), ConstantsAssumption, Orders
      DEF Shapes, Reasons, Groups, WorkerSteps, Objects, DeleterStates
  <2> QED BY <2>1, <2>2
<1>22. KeepsTypes(DeleteSoft)
  <2> SUFFICES ASSUME TypeOK, DeleteSoft PROVE TypeOK'
    BY DEF KeepsTypes
  <2> USE DEF TypeOK, DeleteSoft, AfterHandled, WokenByModule, Remove, Deleted, AllDeleted,
        RestoreAndFail, cr, world, cache, mem, scan, process, Goto, Ok, Fail
  <2>1. Flags'
    BY ZenonT(30) DEF Flags
  <2>2. Shapes'
    BY SMTT(20), ConstantsAssumption, Orders
      DEF Shapes, Reasons, Groups, WorkerSteps, Objects, DeleterStates
  <2> QED BY <2>1, <2>2
<1>23. KeepsTypes(SetError)
  <2> SUFFICES ASSUME TypeOK, SetError PROVE TypeOK'
    BY DEF KeepsTypes
  <2> USE
  DEF TypeOK, SetError, StatusWritten, StatusNotWritten, RestoreAndFail, WokenByStatus, cr, world,
        cache, mem, scan, process, Goto, Ok, Fail
  <2>1. Flags'
    BY ZenonT(30) DEF Flags
  <2>2. Shapes'
    BY SMTT(20), ConstantsAssumption, Orders
      DEF Shapes, Reasons, Groups, WorkerSteps, Objects, DeleterStates
  <2> QED BY <2>1, <2>2
<1>24. KeepsTypes(Restore)
  <2> SUFFICES ASSUME TypeOK, Restore PROVE TypeOK'
    BY DEF KeepsTypes
  <2> USE DEF TypeOK, Restore, RestoreDone, ReturnError, WokenByModule, cr, world, cache, mem, scan,
        process, Goto, Ok, Fail
  <2>1. Flags'
    BY ZenonT(30) DEF Flags
  <2>2. Shapes'
    BY SMTT(20), ConstantsAssumption, Orders
      DEF Shapes, Reasons, Groups, WorkerSteps, Objects, DeleterStates
  <2> QED BY <2>1, <2>2
<1>25. KeepsTypes(Apply)
  <2> SUFFICES ASSUME TypeOK, Apply PROVE TypeOK'
    BY DEF KeepsTypes
  <2> USE DEF TypeOK, Apply, RestoreDone, ReturnError, WokenByModule, cr, world, cache, mem, scan,
        process, Goto, Ok, Fail
  <2>1. Flags'
    BY ZenonT(30) DEF Flags
  <2>0. ApplyOrder[k] = "crd" \/ ApplyOrder[k] \in Groups
    BY Orders DEF Shapes
  <2>2. mod' \subseteq Groups /\ crd' \in {"present", "terminating", "gone"}
    BY <2>0 DEF Shapes
  <2>3. pc' \in WorkerSteps /\ k' \in 1..6 /\ (pc' = "apply" => k' \in 1..5)
    BY SMTT(20), Orders DEF Shapes, WorkerSteps
  <2>4. Shapes'
    BY SMTT(20), <2>2, <2>3, ConstantsAssumption, Orders DEF Shapes
  <2> QED BY <2>1, <2>4
<1>26. KeepsTypes(RecountBindings)
  <2> SUFFICES ASSUME TypeOK, RecountBindings PROVE TypeOK'
    BY DEF KeepsTypes
  <2> USE
  DEF TypeOK, RecountBindings, ReturnError, cr, world, cache, mem, scan, process, Goto, Ok, Fail
  <2>1. Flags'
    BY ZenonT(30) DEF Flags, AnyOf, CrdExists
  <2>2. Shapes'
    BY SMTT(20), ConstantsAssumption, Orders
      DEF Shapes, Reasons, Groups, WorkerSteps, Objects, DeleterStates
  <2> QED BY <2>1, <2>2
<1>27. KeepsTypes(RecountInstances)
  <2> SUFFICES ASSUME TypeOK, RecountInstances PROVE TypeOK'
    BY DEF KeepsTypes
  <2> USE
  DEF TypeOK, RecountInstances, ReturnError, LeaveBlocked, cr, world, cache, mem, scan, process,
        Goto, Ok, Fail
  <2>1. Flags'
    BY ZenonT(30) DEF Flags
  <2>2. Shapes'
    BY SMTT(20), ConstantsAssumption, Orders
      DEF Shapes, Reasons, Groups, WorkerSteps, Objects, DeleterStates
  <2> QED BY <2>1, <2>2
<1>28. KeepsTypes(RemoveFinalizer)
  <2> SUFFICES ASSUME TypeOK, RemoveFinalizer PROVE TypeOK'
    BY DEF KeepsTypes
  <2> USE
  DEF TypeOK, RemoveFinalizer, ReturnError, cr, world, cache, mem, scan, process, Goto, Ok, Fail
  <2>1. Flags'
    BY ZenonT(30) DEF Flags
  <2>2. Shapes'
    BY SMTT(20), ConstantsAssumption, Orders
      DEF Shapes, Reasons, Groups, WorkerSteps, Objects, DeleterStates
  <2> QED BY <2>1, <2>2
<1>29. \A d \in Deleters : KeepsTypes(HardDeleteBindings(d))
  <2> SUFFICES ASSUME NEW d \in Deleters, TypeOK, HardDeleteBindings(d) PROVE TypeOK'
    BY DEF KeepsTypes
  <2> QED
    BY DeleteAllOfType DEF HardDeleteBindings
<1>30. \A d \in Deleters : KeepsTypes(HardDeleteInstances(d))
  <2> SUFFICES ASSUME NEW d \in Deleters, TypeOK, HardDeleteInstances(d) PROVE TypeOK'
    BY DEF KeepsTypes
  <2> QED
    BY DeleteAllOfType DEF HardDeleteInstances
<1>31. \A d \in Deleters : KeepsTypes(Poll(d))
  <2> SUFFICES ASSUME NEW d \in Deleters, TypeOK, Poll(d) PROVE TypeOK'
    BY DEF KeepsTypes
  <2> USE DEF TypeOK, Poll, Answer, cr, world, cache, mem, scan, process, Goto, Ok, Fail
  <2>1. Flags'
    BY ZenonT(30) DEF Flags
  <2>2. Shapes'
    BY SMTT(20), ConstantsAssumption, Orders
      DEF Shapes, Reasons, Groups, WorkerSteps, Objects, DeleterStates
  <2> QED BY <2>1, <2>2
<1>32. \A d \in Deleters : KeepsTypes(PollInstances(d))
  <2> SUFFICES ASSUME NEW d \in Deleters, TypeOK, PollInstances(d) PROVE TypeOK'
    BY DEF KeepsTypes
  <2> USE DEF TypeOK, PollInstances, Answer, cr, world, cache, mem, scan, process, Goto, Ok, Fail
  <2>1. Flags'
    BY ZenonT(30) DEF Flags
  <2>2. Shapes'
    BY SMTT(20), ConstantsAssumption, Orders
      DEF Shapes, Reasons, Groups, WorkerSteps, Objects, DeleterStates
  <2> QED BY <2>1, <2>2
<1>33. \A o \in Objects : KeepsTypes(UserCreates(o))
  <2> SUFFICES ASSUME NEW o \in Objects, TypeOK, UserCreates(o) PROVE TypeOK'
    BY DEF KeepsTypes
  <2> USE DEF TypeOK, UserCreates, cr, world, cache, mem, scan, process, Goto, Ok, Fail
  <2>1. Flags'
    BY ZenonT(30) DEF Flags
  <2>2. Shapes'
    BY SMTT(20), ConstantsAssumption, Orders
      DEF Shapes, Reasons, Groups, WorkerSteps, Objects, DeleterStates
  <2> QED BY <2>1, <2>2
<1>34. \A o \in Objects : KeepsTypes(UserDeletes(o))
  <2> SUFFICES ASSUME NEW o \in Objects, TypeOK, UserDeletes(o) PROVE TypeOK'
    BY DEF KeepsTypes
  <2> USE DEF TypeOK, UserDeletes, Deleted, cr, world, cache, mem, scan, process, Goto, Ok, Fail
  <2>1. Flags'
    BY ZenonT(30) DEF Flags
  <2>2. Shapes'
    BY SMTT(20), ConstantsAssumption, Orders
      DEF Shapes, Reasons, Groups, WorkerSteps, Objects, DeleterStates
  <2> QED BY <2>1, <2>2
<1>35. \A n \in Namespaces : KeepsTypes(UserCreatesNamespace(n))
  <2> SUFFICES ASSUME NEW n \in Namespaces, TypeOK, UserCreatesNamespace(n) PROVE TypeOK'
    BY DEF KeepsTypes
  <2> USE DEF TypeOK, UserCreatesNamespace, cr, world, cache, mem, scan, process, Goto, Ok, Fail
  <2>1. Flags'
    BY ZenonT(30) DEF Flags
  <2>2. Shapes'
    BY SMTT(20), ConstantsAssumption, Orders
      DEF Shapes, Reasons, Groups, WorkerSteps, Objects, DeleterStates
  <2> QED BY <2>1, <2>2
<1>36. KeepsTypes(UserLabels)
  <2> SUFFICES ASSUME TypeOK, UserLabels PROVE TypeOK'
    BY DEF KeepsTypes
  <2> USE DEF TypeOK, UserLabels, cr, world, cache, mem, scan, process, Goto, Ok, Fail
  <2>1. Flags'
    BY ZenonT(30) DEF Flags
  <2>2. Shapes'
    BY SMTT(20), ConstantsAssumption, Orders
      DEF Shapes, Reasons, Groups, WorkerSteps, Objects, DeleterStates
  <2> QED BY <2>1, <2>2
<1>37. KeepsTypes(UserEditsSecret)
  <2> SUFFICES ASSUME TypeOK, UserEditsSecret PROVE TypeOK'
    BY DEF KeepsTypes
  <2> USE DEF TypeOK, UserEditsSecret, cr, world, cache, mem, scan, process, Goto, Ok, Fail
  <2>1. Flags'
    BY ZenonT(30) DEF Flags
  <2>2. Shapes'
    BY SMTT(20), ConstantsAssumption, Orders
      DEF Shapes, Reasons, Groups, WorkerSteps, Objects, DeleterStates
  <2> QED BY <2>1, <2>2
<1>38. \A o \in Objects : KeepsTypes(OperandFinalizes(o))
  <2> SUFFICES ASSUME NEW o \in Objects, TypeOK, OperandFinalizes(o) PROVE TypeOK'
    BY DEF KeepsTypes
  <2> USE DEF TypeOK, OperandFinalizes, cr, world, cache, mem, scan, process, Goto, Ok, Fail
  <2>1. Flags'
    BY ZenonT(30) DEF Flags
  <2>2. Shapes'
    BY SMTT(20), ConstantsAssumption, Orders
      DEF Shapes, Reasons, Groups, WorkerSteps, Objects, DeleterStates
  <2> QED BY <2>1, <2>2
<1>39. \A b \in Bindings : KeepsTypes(OperandBinds(b))
  <2> SUFFICES ASSUME NEW b \in Bindings, TypeOK, OperandBinds(b) PROVE TypeOK'
    BY DEF KeepsTypes
  <2> USE DEF TypeOK, OperandBinds, cr, world, cache, mem, scan, process, Goto, Ok, Fail
  <2>1. Flags'
    BY ZenonT(30) DEF Flags
  <2>2. Shapes'
    BY SMTT(20), ConstantsAssumption, Orders
      DEF Shapes, Reasons, Groups, WorkerSteps, Objects, DeleterStates
  <2> QED BY <2>1, <2>2
<1>40. KeepsTypes(OperandStoresClusterId)
  <2> SUFFICES ASSUME TypeOK, OperandStoresClusterId PROVE TypeOK'
    BY DEF KeepsTypes
  <2> USE DEF TypeOK, OperandStoresClusterId, cr, world, cache, mem, scan, process, Goto, Ok, Fail
  <2>1. Flags'
    BY ZenonT(30) DEF Flags
  <2>2. Shapes'
    BY SMTT(20), ConstantsAssumption, Orders
      DEF Shapes, Reasons, Groups, WorkerSteps, Objects, DeleterStates
  <2> QED BY <2>1, <2>2
<1>41. KeepsTypes(CrdCollected)
  <2> SUFFICES ASSUME TypeOK, CrdCollected PROVE TypeOK'
    BY DEF KeepsTypes
  <2> USE DEF TypeOK, CrdCollected, cr, world, cache, mem, scan, process, Goto, Ok, Fail
  <2>1. Flags'
    BY ZenonT(30) DEF Flags
  <2>2. Shapes'
    BY SMTT(20), ConstantsAssumption, Orders
      DEF Shapes, Reasons, Groups, WorkerSteps, Objects, DeleterStates
  <2> QED BY <2>1, <2>2
<1>42. KeepsTypes(InformerSync)
  <2> SUFFICES ASSUME TypeOK, InformerSync PROVE TypeOK'
    BY DEF KeepsTypes
  <2> USE DEF TypeOK, InformerSync, cr, world, cache, mem, scan, process, Goto, Ok, Fail
  <2>1. Flags'
    BY ZenonT(30) DEF Flags
  <2>2. Shapes'
    BY SMTT(20), ConstantsAssumption, Orders
      DEF Shapes, Reasons, Groups, WorkerSteps, Objects, DeleterStates
  <2> QED BY <2>1, <2>2
<1>43. KeepsTypes(TimerFires) /\ KeepsTypes(NamespaceSync)
  <2> SUFFICES ASSUME TypeOK, TimerFires \/ NamespaceSync PROVE TypeOK'
    BY DEF KeepsTypes
  <2> USE DEF TypeOK, TimerFires, NamespaceSync, cr, world, cache, mem, scan, process
  <2>1. Flags'
    BY ZenonT(30) DEF Flags
  <2>2. Shapes'
    BY DEF Shapes
  <2> QED BY <2>1, <2>2
<1>44. KeepsTypes(Crash)
  <2> SUFFICES ASSUME TypeOK, Crash PROVE TypeOK'
    BY DEF KeepsTypes
  <2> USE DEF TypeOK, Crash, cr, world, mem, scan, Goto
  <2>1. Flags'
    BY ZenonT(30) DEF Flags
  <2>2. lost' \subseteq Bindings /\ cnss' \subseteq Namespaces
    BY SMTT(20) DEF Shapes, LostNow, Stripped
  <2>3. g' \in [Deleters -> DeleterStates]
    BY DEF NoDeleter, DeleterStates
  <2>4. crashes' \in 0..MaxCrashes /\ k' \in 1..Len(DeleteOrder) /\ pc' = "idle"
    BY SMTT(20), ConstantsAssumption, Orders DEF Shapes
  <2>5. Shapes'
    BY <2>2, <2>3, <2>4 DEF Shapes, WorkerSteps
  <2> QED BY <2>1, <2>5
<1> SUFFICES ASSUME TypeOK, [Next]_vars
             PROVE  TypeOK'
  OBVIOUS
<1>45. CASE Worker
  BY <1>45, <1>1, <1>2, <1>3, <1>4, <1>5,
      <1>6, <1>7, <1>8, <1>9, <1>10,
      <1>11, <1>12, <1>13, <1>14, <1>15,
      <1>16, <1>51, <1>17, <1>18, <1>19,
      <1>20, <1>21, <1>22, <1>23, <1>24, <1>25,
      <1>26, <1>27, <1>28
  DEF Worker, KeepsTypes
<1>46. ASSUME NEW d \in Deleters, Deleter(d) PROVE TypeOK'
  BY <1>46, <1>29, <1>30, <1>31, <1>32
  DEF Deleter, KeepsTypes
<1>47. CASE Users
  BY <1>47, <1>33, <1>34, <1>35, <1>36,
     <1>37
  DEF Users, KeepsTypes
<1>48. CASE Cluster
  BY <1>48, <1>38, <1>39, <1>40, <1>41,
     <1>42, <1>43
  DEF Cluster, KeepsTypes
<1>49. CASE Crash
  BY <1>49, <1>44 DEF KeepsTypes
<1>50. CASE UNCHANGED vars
  <2> USE <1>50 DEF vars, cr, world, cache, mem, scan
  <2>1. Flags'
    BY DEF TypeOK, Flags
  <2>2. Shapes'
    BY DEF TypeOK, Shapes
  <2> QED BY <2>1, <2>2 DEF TypeOK
<1> QED
  BY <1>45, <1>46, <1>47, <1>48, <1>49, <1>50 DEF Next, Finished

\* Every variable keeps its type in every behaviour, and the loops over the
\* resource groups stay within their bounds.
THEOREM TypeCorrect == Spec => []TypeOK
BY InitType, NextType, PTL DEF Spec
-----------------------------------------------------------------------------
(* The inductive invariant.                                                 *)
USE DEF cr, world, cache, mem, scan, process, Goto, Ok, Fail, RestoreAndFail, ReturnError

\* Initially no pass has begun.
LEMMA InitDraining == Init => Draining
BY DEF Init, Draining, GoneIsEmpty, NoneSeenMeansDrained,
   DeleterSound, BlockedByDefault, ModuleRemovedOnlyWhenDrained, BindingsBeforeInstances
LEMMA InitRemoving == Init => Removing
BY DEF Init, Removing, SecretRead, RemovedUpTo, RemovedAll, RecountIsBlocked
-----------------------------------------------------------------------------
(* The kinds of steps the two halves of the invariant tell apart.           *)
\* The steps of a pass of which Draining says something.
Guarded ==
  {"countBindings", "countInstances", "setHard", "launch", "select", "listInstances",
   "softInstances", "ensureInstances", "deleteHard", "deleteSoft"}
\* The steps before the required Secret is read.
Early == {"idle", "setDeleting", "getSecret"}

\* No object appears, and the CRDs go only when empty.
Less ==
  /\ \A o \in Objects : objs'[o] = "absent" \/ objs[o] # "absent"
  /\ crd' = "gone" => crd = "gone" \/ \A o \in Objects : objs[o] = "absent"

\* What the worker knows stays as it is.
Steady == UNCHANGED <<present, mod, pc, k, cont, lrs, nsKnown, listed, seen, skipped, cur>>

\* A step of the users or of the cluster.
Apart ==
  /\ Steady /\ Less /\ young \subseteq young' /\ UNCHANGED g
  /\ crd' = "present" => crd = "present"

\* The worker starts a step of which Removing says little.
Moves ==
  /\ UNCHANGED present /\ k' = 1
  /\ pc' \notin {"removeFinalizer", "recountBindings", "recountInstances"}
  /\ pc' \in {"restore", "apply"} => cont' = "err"
  /\ pc' \in Early \/ (pc \notin Early /\ UNCHANGED nsKnown)

\* The worker only looks at the cluster.
Looks == Moves /\ UNCHANGED <<objs, crd, young, cur, g>>

\* The worker turns to a step of which Draining says nothing.
Turns == Moves /\ Less /\ pc' \notin Guarded
-----------------------------------------------------------------------------
(* What the users, the cluster and the goroutines do.                       *)
LEMMA ApartSteps ==
  ASSUME \/ \E o \in Objects : UserDeletes(o) \/ OperandFinalizes(o)
         \/ \E n \in Namespaces : UserCreatesNamespace(n)
         \/ \E b \in Bindings : OperandBinds(b)
         \/ UserLabels \/ UserEditsSecret
         \/ CrdCollected \/ InformerSync \/ NamespaceSync \/ TimerFires \/ UNCHANGED vars,
         TypeOK
  PROVE  Apart
<1> USE DEF Apart, Steady, Less
<1>1. objs \in [Objects -> {"absent", "active", "deleting"}]
  BY DEF TypeOK, Shapes
<1>2. ASSUME NEW o \in Objects, UserDeletes(o) PROVE Apart
  BY <1>1, <1>2 DEF UserDeletes, Deleted
<1>3. ASSUME NEW o \in Objects, OperandFinalizes(o) PROVE Apart
  BY <1>1, <1>3 DEF OperandFinalizes
<1>4. ASSUME NEW n \in Namespaces, UserCreatesNamespace(n) PROVE Apart
  BY <1>4 DEF UserCreatesNamespace
<1>5. ASSUME NEW b \in Bindings, OperandBinds(b) PROVE Apart
  BY <1>5 DEF OperandBinds
<1>6. CASE UserLabels
  BY <1>6 DEF UserLabels
<1>7. CASE UserEditsSecret
  BY <1>7 DEF UserEditsSecret
<1>8. CASE CrdCollected
  BY <1>8 DEF CrdCollected
<1>9. CASE InformerSync \/ NamespaceSync
  BY <1>9 DEF InformerSync, NamespaceSync
<1>10. CASE TimerFires
  BY <1>10 DEF TimerFires
<1>11. CASE UNCHANGED vars
  BY <1>11 DEF vars
<1> HIDE DEF Apart, Steady, Less
<1> QED BY <1>2, <1>3, <1>4, <1>5, <1>6, <1>7, <1>8, <1>9, <1>10, <1>11

\* A goroutine asks for the deletion of objects and touches only its own state.
LEMMA DeleteAllOfStep ==
  ASSUME TypeOK, NEW d \in Deleters, NEW S, NEW kind, NEW next, DeleteAllOf(d, S, kind, next)
  PROVE  /\ Steady /\ Less /\ UNCHANGED <<young, crd>>
         /\ \A e \in Deleters \ {d} : g'[e] = g[e]
         /\ g'[d].pc = next /\ g'[d].ns = g[d].ns /\ g'[d].ch = g[d].ch
         /\ g[d].crds \subseteq g'[d].crds /\ g[d].noted \subseteq g'[d].noted
         /\ kind \in g'[d].crds \/ crd = "gone" \/ "err" \in g'[d].noted
<1>1. objs \in [Objects -> {"absent", "active", "deleting"}] /\ g \in [Deleters -> DeleterStates]
  BY DEF TypeOK, Shapes
<1>2. Steady /\ UNCHANGED <<young, crd>>
  BY DEF DeleteAllOf, Steady
<1>3. objs' = objs \/ \E done : objs' = Deleted(done)
  BY DEF DeleteAllOf
<1>4. Less
  BY <1>1, <1>2, <1>3 DEF Less, Deleted
<1>5. \/ g' = [g EXCEPT ![d].crds = @ \cup {kind}, ![d].pc = next]
      \/ crd = "gone" /\ g' = [g EXCEPT ![d].pc = next]
      \/ g' = [g EXCEPT ![d].noted = @ \cup {"err"}, ![d].pc = next]
  BY DEF DeleteAllOf, CrdExists
<1>6. /\ \A e \in Deleters \ {d} : g'[e] = g[e]
      /\ g'[d].pc = next /\ g'[d].ns = g[d].ns /\ g'[d].ch = g[d].ch
      /\ g[d].crds \subseteq g'[d].crds /\ g[d].noted \subseteq g'[d].noted
      /\ kind \in g'[d].crds \/ crd = "gone" \/ "err" \in g'[d].noted
  BY SMTT(20), <1>1, <1>5 DEF DeleterStates
<1> QED BY <1>2, <1>4, <1>6

\* A turn of a goroutine's loop changes only its own state.
LEMMA PollStep ==
  ASSUME NEW d \in Deleters, Poll(d) \/ PollInstances(d)
  PROVE  Steady /\ UNCHANGED <<objs, crd, young>>
BY DEF Poll, PollInstances, Steady
-----------------------------------------------------------------------------
(* What the worker does.                                                    *)
\* Steps that leave the objects alone.
LEMMA TurnSteps ==
  ASSUME \/ Reconcile \/ SetDeleting \/ HardDeleteTimeout \/ SetSoft
         \/ PreSoftDelete \/ ListBindings \/ SetError
  PROVE  Turns
<1>1. CASE Reconcile
  BY <1>1 DEF Reconcile, Turns, Moves, Less, Early, Guarded
<1>2. CASE SetDeleting
  BY <1>2 DEF SetDeleting, StatusWritten, StatusNotWritten, Turns, Moves, Less, Early, Guarded
<1>3. CASE HardDeleteTimeout
  BY <1>3 DEF HardDeleteTimeout, Turns, Moves, Less, Early, Guarded
<1>4. CASE SetSoft
  BY <1>4 DEF SetSoft, StatusWritten, StatusNotWritten, Turns, Moves, Less, Early, Guarded
<1>5. CASE PreSoftDelete
  BY <1>5 DEF PreSoftDelete, Turns, Moves, Less, Early, Guarded
<1>6. CASE ListBindings
  BY <1>6 DEF ListBindings, SoftList, Turns, Moves, Less, Early, Guarded
<1>7. CASE SetError
  BY <1>7 DEF SetError, StatusWritten, StatusNotWritten, Turns, Moves, Less, Early, Guarded
<1> QED BY <1>1, <1>2, <1>3, <1>4, <1>5, <1>6, <1>7

\* Steps that look at the cluster and decide where to go.
LEMMA LookSteps ==
  ASSUME \/ ListNamespaces \/ CountBindings \/ SetHard \/ HardDeleteAnswered
         \/ CheckCrds \/ EnsureBindings \/ ListInstances \/ EnsureInstances
  PROVE  Looks
<1> USE DEF Looks, Moves, Early
<1>1. CASE ListNamespaces
  BY <1>1 DEF ListNamespaces, Unblocked
<1>2. CASE CountBindings
  BY <1>2 DEF CountBindings
<1>3. CASE SetHard
  BY <1>3 DEF SetHard, StatusWritten, StatusNotWritten
<1>4. CASE HardDeleteAnswered
  BY <1>4 DEF HardDeleteAnswered
<1>5. CASE CheckCrds
  BY <1>5 DEF CheckCrds, BindingsFirst
<1>6. CASE EnsureBindings
  BY <1>6 DEF EnsureBindings, SoftEnsure
<1>7. CASE ListInstances
  BY <1>7 DEF ListInstances, SoftList
<1>8. CASE EnsureInstances
  BY <1>8 DEF EnsureInstances, SoftEnsure
<1> HIDE DEF Looks, Moves, Early
<1> QED BY <1>1, <1>2, <1>3, <1>4, <1>5, <1>6, <1>7, <1>8

\* Soft deletion of one object: it goes on, goes to the next step or gives up.
LEMMA SoftItemStep ==
  ASSUME TypeOK, NEW p, NEW next, SoftItem(p, next)
  PROVE  /\ Less
          /\ UNCHANGED <<present, mod, crd, lrs, nsKnown, listed, seen, skipped, cur, g, young>>
         /\ pc = p
         /\ \/ UNCHANGED <<pc, k, cont>>
            \/ k' = 1 /\ pc' = next /\ UNCHANGED cont
            \/ k' = 1 /\ pc' = "restore" /\ cont' = "err"
<1>1. objs \in [Objects -> {"absent", "active", "deleting"}]
  BY DEF TypeOK, Shapes
<1>2. /\ UNCHANGED <<present, mod, crd, lrs, nsKnown, listed, seen, skipped, cur, g, young>>
      /\ pc = p
      /\ \/ UNCHANGED <<pc, k, cont>>
         \/ k' = 1 /\ pc' = next /\ UNCHANGED cont
         \/ k' = 1 /\ pc' = "restore" /\ cont' = "err"
  BY ZenonT(30) DEF SoftItem
<1>3. \/ objs' = objs
      \/ \E x : objs' = Deleted({x})
      \/ \E x : objs' = [objs EXCEPT ![x] = "absent"]
  BY ZenonT(30) DEF SoftItem
<1>4. Less
  BY <1>1, <1>2, <1>3 DEF Less, Deleted
<1> QED BY <1>2, <1>4

\* One turn of a loop over the groups: the objects are deleted at most.
LEMMA RemoveStep ==
  ASSUME TypeOK, DeleteHard \/ DeleteSoft
  PROVE  /\ Less /\ UNCHANGED <<present, lrs, nsKnown, listed, seen, skipped, cur, g, young>>
         /\ \/ UNCHANGED <<pc, cont>> /\ k' = k + 1
            \/ pc' \in {"setError", "restore", "removeFinalizer"} /\ k' = 1
<1>1. objs \in [Objects -> {"absent", "active", "deleting"}]
  BY DEF TypeOK, Shapes
<1>2. /\ UNCHANGED <<present, lrs, nsKnown, listed, seen, skipped, cur, g, young>>
      /\ \/ UNCHANGED <<pc, cont>> /\ k' = k + 1
         \/ pc' \in {"setError", "restore", "removeFinalizer"} /\ k' = 1
  BY DEF DeleteHard, DeleteSoft, AfterHandled
<1>3. UNCHANGED <<objs, crd>> \/ Remove(DeleteOrder[k])
  BY DEF DeleteHard, DeleteSoft
<1>4. Less
  BY <1>1, <1>2, <1>3 DEF Less, Remove, Deleted
<1> QED BY <1>2, <1>4

-----------------------------------------------------------------------------
(* Steps of each kind keep Draining.                                        *)
\* What is gone stays gone.
LEMMA DrainedKept ==
  ASSUME Less, young \subseteq young', NEW S \in SUBSET Objects, Drained(S)
  PROVE  Drained(S)'
BY DEF Less, Drained

LEMMA EmptiedKept ==
  ASSUME Less, young \subseteq young', UNCHANGED listed
  PROVE  /\ Emptied(Bindings) => Emptied(Bindings)'
         /\ Emptied(Instances) => Emptied(Instances)'
         /\ Emptied(Objects) => Emptied(Objects)'
BY DEF Less, Emptied, Drained, InNamespaces, Objects

LEMMA GoneKept ==
  ASSUME Draining, Less
  PROVE  GoneIsEmpty'
BY DEF Less, Draining, GoneIsEmpty

\* A list or a count that finds nothing: nothing is there.
LEMMA NoneFound ==
  ASSUME GoneIsEmpty, NEW S \in SUBSET Objects, ~AnyOf(S)
  PROVE  Drained(S)
BY DEF GoneIsEmpty, AnyOf, CrdExists, Drained

LEMMA NoneFoundIn ==
  ASSUME GoneIsEmpty, NEW S \in SUBSET Objects, ~AnyOf(InNamespaces(S, listed))
  PROVE  Emptied(S)
BY DEF GoneIsEmpty, AnyOf, CrdExists, Drained, InNamespaces, Emptied

LEMMA KindsOfObjects ==
  /\ Bindings \in SUBSET Objects /\ Instances \in SUBSET Objects
  /\ Drained(Bindings) /\ Drained(Instances) => Drained(Objects)
  /\ Drained(Objects) => Drained(Bindings) /\ Drained(Instances)
  /\ Emptied(Bindings) /\ Emptied(Instances) => Emptied(Objects)
BY DEF Objects, Drained, Emptied, InNamespaces

LEMMA TurnsDrains ==
  ASSUME Draining, Less, pc' \notin Guarded
  PROVE  Draining'
<1>1. GoneIsEmpty'
  BY GoneKept
<1>2. /\ NoneSeenMeansDrained' /\ DeleterSound' /\ BlockedByDefault'
      /\ ModuleRemovedOnlyWhenDrained' /\ BindingsBeforeInstances'
  BY DEF Guarded, NoneSeenMeansDrained, DeleterSound, BlockedByDefault,
     ModuleRemovedOnlyWhenDrained, BindingsBeforeInstances
<1> QED BY <1>1, <1>2 DEF Draining

\* Everything but what is known of the goroutine.
LEMMA StaysDrains ==
  ASSUME Draining, Less, young \subseteq young', UNCHANGED <<pc, listed, seen, skipped>>,
         pc = "select" => DeleterSound'
  PROVE  Draining'
<1>1. GoneIsEmpty'
  BY GoneKept
<1>2. /\ Drained(Bindings) => Drained(Bindings)'
      /\ Drained(Objects) => Drained(Objects)'
  BY DrainedKept, KindsOfObjects
<1>3. Emptied(Objects) => Emptied(Objects)'
  BY EmptiedKept
<1>5. NoneSeenMeansDrained' /\ BindingsBeforeInstances'
  BY <1>2 DEF Draining, NoneSeenMeansDrained, BindingsBeforeInstances
<1>6. BlockedByDefault' /\ ModuleRemovedOnlyWhenDrained'
  BY <1>2, <1>3 DEF Draining, BlockedByDefault, ModuleRemovedOnlyWhenDrained
<1>7. DeleterSound'
  BY DEF DeleterSound
<1> QED BY <1>1, <1>5, <1>6, <1>7 DEF Draining

\* A goroutine that does nothing is as sound as before.
LEMMA SameDeleter ==
  ASSUME Draining, Less, young \subseteq young', pc = "select",
         UNCHANGED <<cur, listed, skipped>>, g'[cur] = g[cur]
  PROVE  DeleterSound'
<1>1. Drained(Objects) => Drained(Objects)'
  BY DrainedKept
<1> QED BY <1>1, EmptiedKept DEF Draining, DeleterSound

LEMMA StillDrains ==
  ASSUME Draining, Less, young \subseteq young', UNCHANGED <<pc, listed, seen, skipped, cur, g>>
  PROVE  Draining'
BY StaysDrains, SameDeleter

LEMMA UserCreatesDrains ==
  ASSUME TypeOK, Draining, NEW o \in Objects, UserCreates(o)
  PROVE  Draining'
<1>1. /\ objs' = [objs EXCEPT ![o] = "active"] /\ young' = young \cup {o}
      /\ crd = "present"
      /\ UNCHANGED <<crd, pc, listed, seen, skipped, cur, g>>
  BY DEF UserCreates
<1>2. \A x \in Objects : x # o => objs'[x] = objs[x]
  BY <1>1 DEF TypeOK, Shapes
<1>3. GoneIsEmpty'
  BY <1>1, <1>2 DEF Draining, GoneIsEmpty
<1>4. \A S \in SUBSET Objects : Drained(S) => \A x \in S : objs'[x] = "absent" \/ x \in young'
  BY <1>1, <1>2 DEF Drained
<1>5. /\ Drained(Bindings) => Drained(Bindings)'
      /\ Drained(Objects) => Drained(Objects)'
  BY <1>4, KindsOfObjects DEF Drained
<1>6. \A S \in SUBSET Objects : InNamespaces(S, listed) \in SUBSET Objects
  BY DEF InNamespaces
<1>7. /\ Emptied(Bindings) => Emptied(Bindings)'
      /\ Emptied(Instances) => Emptied(Instances)'
      /\ Emptied(Objects) => Emptied(Objects)'
  BY <1>1, <1>4, <1>6, KindsOfObjects DEF Emptied, Drained, InNamespaces
<1>8. NoneSeenMeansDrained'
  BY <1>1, <1>5 DEF Draining, NoneSeenMeansDrained
<1>9. DeleterSound'
  BY <1>1, <1>5, <1>7 DEF Draining, DeleterSound
<1>10. BlockedByDefault' /\ ModuleRemovedOnlyWhenDrained' /\ BindingsBeforeInstances'
  BY <1>1, <1>5, <1>7 DEF Draining, BlockedByDefault, ModuleRemovedOnlyWhenDrained,
     BindingsBeforeInstances
<1> QED BY <1>3, <1>8, <1>9, <1>10 DEF Draining

\* A pass that begins to work on the namespaces it has listed.
LEMMA ListNamespacesDrains ==
  ASSUME TypeOK, Draining, ListNamespaces
  PROVE  Draining'
<1>1. Looks
  BY LookSteps
<1>2. Less /\ UNCHANGED <<objs, young>>
  BY <1>1 DEF Looks, Moves, Less
<1>3. \/ pc' = "restore"
      \/ pc' = "countBindings"
      \/ skipped' = lforce /\ lforce /\ pc' \in {"setHard", "launch"}
  BY DEF ListNamespaces, Unblocked
<1>4. CASE pc' = "restore"
  BY <1>2, <1>4, TurnsDrains DEF Guarded
<1>5. CASE pc' # "restore"
  <2>1. GoneIsEmpty'
    BY <1>2, GoneKept
  <2>3. /\ NoneSeenMeansDrained' /\ DeleterSound' /\ BlockedByDefault'
        /\ ModuleRemovedOnlyWhenDrained' /\ BindingsBeforeInstances'
    BY <1>3, <1>5 DEF NoneSeenMeansDrained, DeleterSound, BlockedByDefault,
       ModuleRemovedOnlyWhenDrained, BindingsBeforeInstances
  <2> QED BY <2>1, <2>3 DEF Draining
<1> QED BY <1>4, <1>5

LEMMA CountBindingsDrains ==
  ASSUME TypeOK, Draining, CountBindings
  PROVE  Draining'
<1>1. Looks
  BY LookSteps
<1>2. Less /\ UNCHANGED <<objs, young>>
  BY <1>1 DEF Looks, Moves, Less
<1>3. pc = "countBindings" /\ listed' = listed /\ pc' \in {"restore", "countInstances"}
  BY DEF CountBindings
<1>4. pc' = "countInstances" /\ ~seen' => ~AnyOf(Bindings)
  BY ZenonT(30) DEF CountBindings
<1>5. CASE pc' = "restore"
  BY <1>2, <1>5, TurnsDrains DEF Guarded
<1>6. CASE pc' = "countInstances"
  <2>1. GoneIsEmpty'
    BY <1>2, GoneKept
  <2>3. ~seen' => Drained(Bindings)'
    BY <1>2, <1>4, <1>6, NoneFound, KindsOfObjects DEF Draining, Drained
  <2>4. /\ NoneSeenMeansDrained' /\ DeleterSound' /\ BlockedByDefault'
        /\ ModuleRemovedOnlyWhenDrained' /\ BindingsBeforeInstances'
    BY <1>6, <2>3 DEF NoneSeenMeansDrained, DeleterSound, BlockedByDefault,
       ModuleRemovedOnlyWhenDrained, BindingsBeforeInstances
  <2> QED BY <2>1, <2>4 DEF Draining
<1> QED BY <1>3, <1>5, <1>6

LEMMA CountInstancesDrains ==
  ASSUME TypeOK, Draining, CountInstances
  PROVE  Draining'
<1>1. UNCHANGED <<objs, crd, young, listed>> /\ pc = "countInstances"
  BY DEF CountInstances
<1>2. \/ pc' \in {"restore", "setNotCleaned"}
      \/ pc' \in {"setHard", "launch"} /\ ~seen /\ ~AnyOf(Instances)
  BY DEF CountInstances, Unblocked, Blocking
<1>3. Less
  BY <1>1 DEF Less
<1>4. CASE pc' \in {"restore", "setNotCleaned"}
  BY <1>3, <1>4, TurnsDrains DEF Guarded
<1>5. CASE pc' \in {"setHard", "launch"} /\ ~seen /\ ~AnyOf(Instances)
  <2>1. GoneIsEmpty'
    BY <1>3, GoneKept
  <2>3. Drained(Bindings) /\ Drained(Instances)
    BY <1>1, <1>5, NoneFound, KindsOfObjects DEF Draining, NoneSeenMeansDrained
  <2>4. Drained(Objects)'
    BY <1>1, <2>3, KindsOfObjects DEF Drained
  <2>5. /\ NoneSeenMeansDrained' /\ DeleterSound' /\ BlockedByDefault'
        /\ ModuleRemovedOnlyWhenDrained' /\ BindingsBeforeInstances'
    BY <1>5, <2>4 DEF NoneSeenMeansDrained, DeleterSound, BlockedByDefault,
       ModuleRemovedOnlyWhenDrained, BindingsBeforeInstances
  <2> QED BY <2>1, <2>5 DEF Draining
<1> QED BY <1>2, <1>4, <1>5

LEMMA SetHardDrains ==
  ASSUME TypeOK, Draining, SetHard
  PROVE  Draining'
<1>1. Looks
  BY LookSteps
<1>2. Less /\ UNCHANGED <<objs, young>>
  BY <1>1 DEF Looks, Moves, Less
<1>3. pc = "setHard" /\ pc' \in {"restore", "launch"} /\ UNCHANGED <<listed, skipped>>
  BY DEF SetHard
<1>4. CASE pc' = "restore"
  BY <1>2, <1>4, TurnsDrains DEF Guarded
<1>5. CASE pc' = "launch"
  <2>1. GoneIsEmpty'
    BY <1>2, GoneKept
  <2>3. skipped' \/ Drained(Objects)'
    BY <1>2, <1>3 DEF Draining, BlockedByDefault, Drained
  <2>4. /\ NoneSeenMeansDrained' /\ DeleterSound' /\ BlockedByDefault'
        /\ ModuleRemovedOnlyWhenDrained' /\ BindingsBeforeInstances'
    BY <1>5, <2>3 DEF NoneSeenMeansDrained, DeleterSound, BlockedByDefault,
       ModuleRemovedOnlyWhenDrained, BindingsBeforeInstances
  <2> QED BY <2>1, <2>4 DEF Draining
<1> QED BY <1>3, <1>4, <1>5

\* The goroutine is given the namespaces listed by the pass that starts it.
LEMMA LaunchDrains ==
  ASSUME TypeOK, Draining, Launch
  PROVE  Draining'
<1>1. UNCHANGED <<objs, crd, young, listed, skipped>> /\ pc = "launch" /\ pc' = "select"
  BY DEF Launch
<1>2. PICK d \in Deleters :
        /\ cur' = d
        /\ g' = [g EXCEPT ![d] = [pc |-> "bindings", ns |-> listed, crds |-> {},
                                  noted |-> {}, ch |-> "empty"]]
  BY DEF Launch
<1>3. /\ g'[cur'].pc = "bindings" /\ g'[cur'].ns = listed /\ g'[cur'].ch = "empty"
  BY <1>2 DEF TypeOK, Shapes
<1>4. GoneIsEmpty'
  BY <1>1, GoneKept DEF Less
<1>5. skipped' \/ Drained(Objects)'
  BY <1>1 DEF Draining, BlockedByDefault, Drained
<1>6. DeleterSound'
  BY <1>1, <1>3, <1>5 DEF DeleterSound
<1>7. /\ NoneSeenMeansDrained' /\ BlockedByDefault'
      /\ ModuleRemovedOnlyWhenDrained' /\ BindingsBeforeInstances'
  BY <1>1 DEF NoneSeenMeansDrained, BlockedByDefault,
     ModuleRemovedOnlyWhenDrained, BindingsBeforeInstances
<1> QED BY <1>4, <1>6, <1>7 DEF Draining

\* The steps that end with the deletion of the module's resources, and the
\* soft deletion of the instances.
LEMMA ToTheRemovalDrains ==
  ASSUME Draining, UNCHANGED <<objs, young, listed, skipped>>, Less,
         \/ pc' = "deleteHard" /\ Emptied(Objects) /\ (skipped \/ Drained(Objects))
         \/ pc' = "deleteSoft" /\ Drained(Objects)
         \/ pc' \in {"listInstances", "softInstances", "ensureInstances"} /\ Drained(Bindings)
  PROVE  Draining'
<1>1. GoneIsEmpty'
  BY GoneKept
<1>2. /\ Drained(Bindings) => Drained(Bindings)'
      /\ Drained(Objects) => Drained(Objects)'
      /\ Emptied(Objects) => Emptied(Objects)'
  BY DEF Drained, Emptied, InNamespaces
<1>3. /\ NoneSeenMeansDrained' /\ DeleterSound' /\ BlockedByDefault'
      /\ ModuleRemovedOnlyWhenDrained' /\ BindingsBeforeInstances'
  BY <1>2 DEF NoneSeenMeansDrained, DeleterSound, BlockedByDefault,
     ModuleRemovedOnlyWhenDrained, BindingsBeforeInstances
<1> QED BY <1>1, <1>3 DEF Draining

LEMMA LooksDrains ==
  ASSUME TypeOK, Draining,
         HardDeleteAnswered \/ CheckCrds \/ EnsureBindings \/ ListInstances \/ EnsureInstances
  PROVE  Draining'
<1>1. Looks
  BY LookSteps
<1>2. Less /\ UNCHANGED <<objs, young, listed, skipped>>
  <2>1. UNCHANGED <<listed, skipped>>
    BY DEF HardDeleteAnswered, CheckCrds, EnsureBindings, ListInstances, EnsureInstances, SoftList,
       SoftEnsure
  <2> QED BY <1>1, <2>1 DEF Looks, Moves, Less
<1>3. CASE pc' \notin Guarded
  BY <1>2, <1>3, TurnsDrains
<1>4. CASE HardDeleteAnswered /\ pc' \in Guarded
  <2>1. pc = "select" /\ pc' = "deleteHard" /\ g[cur].ch = "true"
    BY <1>4 DEF HardDeleteAnswered, Guarded
  <2>2. Emptied(Objects) /\ (skipped \/ Drained(Objects))
    BY <2>1 DEF Draining, DeleterSound
  <2> QED BY <1>2, <2>1, <2>2, ToTheRemovalDrains
<1>5. CASE CheckCrds /\ pc' \in Guarded
  <2>1. pc' = "deleteSoft" /\ crd = "gone"
    BY <1>5 DEF CheckCrds, BindingsFirst, CrdExists, Guarded
  <2>2. Drained(Objects)
    BY <2>1 DEF Draining, GoneIsEmpty, Drained
  <2> QED BY <1>2, <2>1, <2>2, ToTheRemovalDrains
<1>6. CASE EnsureBindings /\ pc' \in Guarded
  <2>1. pc' = "listInstances" /\ ~AnyOf(Bindings)
    BY <1>6 DEF EnsureBindings, SoftEnsure, Guarded
  <2>2. Drained(Bindings)
    BY <2>1, NoneFound, KindsOfObjects DEF Draining
  <2> QED BY <1>2, <2>1, <2>2, ToTheRemovalDrains
<1>7. CASE ListInstances /\ pc' \in Guarded
  <2>1. pc = "listInstances" /\ pc' = "softInstances"
    BY <1>7 DEF ListInstances, SoftList, Guarded
  <2>2. Drained(Bindings)
    BY <2>1 DEF Draining, BindingsBeforeInstances
  <2> QED BY <1>2, <2>1, <2>2, ToTheRemovalDrains
<1>8. CASE EnsureInstances /\ pc' \in Guarded
  <2>1. pc = "ensureInstances" /\ pc' = "deleteSoft" /\ ~AnyOf(Instances)
    BY <1>8 DEF EnsureInstances, SoftEnsure, Guarded
  <2>2. Drained(Objects)
    BY <2>1, NoneFound, KindsOfObjects DEF Draining, BindingsBeforeInstances
  <2> QED BY <1>2, <2>1, <2>2, ToTheRemovalDrains
<1> QED BY <1>3, <1>4, <1>5, <1>6, <1>7, <1>8

LEMMA SoftInstancesDrains ==
  ASSUME TypeOK, Draining, SoftInstances
  PROVE  Draining'
<1>1. /\ Less /\ UNCHANGED <<listed, seen, skipped, cur, g, young>>
      /\ pc = "softInstances" /\ pc' \in {"softInstances", "ensureInstances", "restore"}
  BY SoftItemStep DEF SoftInstances
<1>2. CASE pc' = "softInstances"
  BY <1>1, <1>2, StillDrains
<1>3. CASE pc' = "restore"
  BY <1>1, <1>3, TurnsDrains DEF Guarded
<1>4. CASE pc' = "ensureInstances"
  <2>1. GoneIsEmpty'
    BY <1>1, GoneKept
  <2>2. Drained(Bindings)'
    BY <1>1, DrainedKept, KindsOfObjects DEF Draining, BindingsBeforeInstances
  <2>3. /\ NoneSeenMeansDrained' /\ DeleterSound' /\ BlockedByDefault'
        /\ ModuleRemovedOnlyWhenDrained' /\ BindingsBeforeInstances'
    BY <1>4, <2>2 DEF NoneSeenMeansDrained, DeleterSound, BlockedByDefault,
       ModuleRemovedOnlyWhenDrained, BindingsBeforeInstances
  <2> QED BY <2>1, <2>3 DEF Draining
<1> QED BY <1>1, <1>2, <1>3, <1>4

\* The goroutine of the pass records what it finds; the goroutine of an
\* earlier pass does not matter.
LEMMA HardDeleteBindingsDrains ==
  ASSUME TypeOK, Draining, NEW d \in Deleters, HardDeleteBindings(d)
  PROVE  Draining'
<1>1. g[d].pc = "bindings" /\ DeleteAllOf(d, Bindings, "sb", "instances")
  BY DEF HardDeleteBindings
<1>2. /\ Steady /\ Less /\ UNCHANGED <<young, crd>>
      /\ \A e \in Deleters \ {d} : g'[e] = g[e]
      /\ g'[d].pc = "instances" /\ g'[d].ns = g[d].ns /\ g'[d].ch = g[d].ch
      /\ "sb" \in g'[d].crds \/ crd = "gone" \/ "err" \in g'[d].noted
  BY SMTT(20), <1>1, DeleteAllOfStep
<1>3. UNCHANGED <<pc, listed, seen, skipped, cur>> /\ cur \in Deleters
  BY <1>2 DEF Steady, TypeOK, Shapes
<1>4. CASE d # cur
  BY <1>2, <1>3, <1>4, StaysDrains, SameDeleter
<1>5. ASSUME d = cur, pc = "select" PROVE DeleterSound'
  <2>1. skipped' \/ Drained(Objects)'
    BY <1>2, <1>3, <1>5, DrainedKept DEF Draining, DeleterSound
  <2>2. Emptied(Objects) => Emptied(Objects)'
    BY <1>2, <1>3, EmptiedKept
  <2>3. crd = "gone" => Emptied(Bindings)'
    BY <1>2, <1>3, EmptiedKept DEF Draining, GoneIsEmpty, Emptied, Drained, InNamespaces, Objects
  <2> QED BY <1>2, <1>3, <1>5, <2>1, <2>2, <2>3 DEF Draining, DeleterSound
<1> QED BY <1>2, <1>3, <1>4, <1>5, StaysDrains

LEMMA HardDeleteInstancesDrains ==
  ASSUME TypeOK, Draining, NEW d \in Deleters, HardDeleteInstances(d)
  PROVE  Draining'
<1>1. g[d].pc = "instances" /\ DeleteAllOf(d, Instances, "si", "poll")
  BY DEF HardDeleteInstances
<1>2. /\ Steady /\ Less /\ UNCHANGED <<young, crd>>
      /\ \A e \in Deleters \ {d} : g'[e] = g[e]
      /\ g'[d].pc = "poll" /\ g'[d].ns = g[d].ns /\ g'[d].ch = g[d].ch
      /\ g[d].crds \subseteq g'[d].crds /\ g[d].noted \subseteq g'[d].noted
      /\ "si" \in g'[d].crds \/ crd = "gone" \/ "err" \in g'[d].noted
  BY <1>1, DeleteAllOfStep
<1>3. UNCHANGED <<pc, listed, seen, skipped, cur>> /\ cur \in Deleters
  BY <1>2 DEF Steady, TypeOK, Shapes
<1>4. CASE d # cur
  BY <1>2, <1>3, <1>4, StaysDrains, SameDeleter
<1>5. ASSUME d = cur, pc = "select" PROVE DeleterSound'
  <2>1. skipped' \/ Drained(Objects)'
    BY <1>2, <1>3, <1>5, DrainedKept DEF Draining, DeleterSound
  <2>2. /\ Emptied(Objects) => Emptied(Objects)'
        /\ Emptied(Bindings) => Emptied(Bindings)'
    BY <1>2, <1>3, EmptiedKept
  <2>3. crd = "gone" => Emptied(Instances)'
    BY <1>2, <1>3, EmptiedKept DEF Draining, GoneIsEmpty, Emptied, Drained, InNamespaces, Objects
  <2>4. "err" \notin g'[d].noted /\ "sb" \notin g'[d].crds => Emptied(Bindings)'
    BY <1>1, <1>2, <1>5, <2>2 DEF Draining, DeleterSound
  <2>5. g'[d].ch = "true" => Emptied(Objects)'
    BY <1>2, <1>5, <2>2 DEF Draining, DeleterSound
  <2> QED BY <1>2, <1>3, <1>5, <2>1, <2>2, <2>3, <2>4, <2>5 DEF Draining, DeleterSound
<1> QED BY <1>2, <1>3, <1>4, <1>5, StaysDrains

\* A check that finds nothing left of one kind is right about the pass.
LEMMA NoneLeft ==
  ASSUME Draining, pc = "select", NEW S \in SUBSET Objects, NEW kind, ~Left(cur, kind, S),
         kind \notin g[cur].crds => Emptied(S)
  PROVE  Emptied(S)
<1>1. CASE kind \notin g[cur].crds
  BY <1>1
<1>2. CASE ~AnyOf(InNamespaces(S, g[cur].ns))
  BY <1>2, NoneFoundIn DEF Draining, DeleterSound
<1> QED BY <1>1, <1>2 DEF Left

LEMMA PollDrains ==
  ASSUME TypeOK, Draining, NEW d \in Deleters, Poll(d)
  PROVE  Draining'
<1>1. Steady /\ UNCHANGED <<objs, crd, young>>
  BY PollStep
<1>2. UNCHANGED <<pc, listed, seen, skipped, cur>> /\ cur \in Deleters /\ Less
  BY <1>1 DEF Steady, Less, TypeOK, Shapes
<1>3. g \in [Deleters -> DeleterStates]
  BY DEF TypeOK, Shapes
<1>4. /\ g[d].pc = "poll"
      /\ \/ g' = [g EXCEPT ![d].pc = "none", ![d].ch = "false"]
         \/ g' = [g EXCEPT ![d].pc = "none"]
         \/ /\ "err" \notin g[d].noted
            /\ g' = [g EXCEPT ![d].noted = IF Left(d, "sb", Bindings) THEN @ \cup {"left"}
                                                                    ELSE @ \ {"left"},
                              ![d].pc = "pollInstances"]
  BY DEF Poll, Answer
<1>5. CASE d # cur
  <2>1. g'[cur] = g[cur]
    BY <1>2, <1>3, <1>4, <1>5
  <2> QED BY <1>1, <1>2, <2>1, StaysDrains, SameDeleter
<1>6. ASSUME d = cur, pc = "select" PROVE DeleterSound'
  <2>1. /\ g'[d].ns = g[d].ns /\ g'[d].crds = g[d].crds
        /\ \/ g'[d].pc = "none" /\ g'[d].ch \in {"false", g[d].ch}
           \/ /\ g'[d].pc = "pollInstances" /\ g'[d].ch = g[d].ch
              /\ "err" \notin g[d].noted /\ "err" \notin g'[d].noted
              /\ "left" \notin g'[d].noted => ~Left(d, "sb", Bindings)
    BY SMTT(20), <1>3, <1>4 DEF DeleterStates
  <2>3. UNCHANGED <<Drained(Objects), Emptied(Objects), Emptied(Bindings), Emptied(Instances)>>
    BY <1>1, <1>2 DEF Drained, Emptied, InNamespaces
  <2>4. CASE g'[d].pc = "none"
    BY <1>2, <1>6, <2>1, <2>3, <2>4 DEF Draining, DeleterSound
  <2>5. CASE g'[d].pc = "pollInstances"
    <3>1. /\ g[d].ns = listed /\ (skipped \/ Drained(Objects))
          /\ "sb" \notin g[d].crds => Emptied(Bindings)
          /\ "si" \notin g[d].crds => Emptied(Instances)
          /\ g[d].ch = "true" => Emptied(Objects)
      BY <1>4, <1>6, <2>1, <2>5 DEF Draining, DeleterSound
    <3>2. "left" \notin g'[d].noted => Emptied(Bindings)
      BY <1>6, <2>1, <2>5, <3>1, NoneLeft, KindsOfObjects
    <3> QED BY <1>2, <1>6, <2>1, <2>3, <2>5, <3>1, <3>2 DEF DeleterSound
  <2> QED BY <2>1, <2>4, <2>5
<1> QED BY <1>1, <1>2, <1>5, <1>6, StaysDrains

LEMMA PollInstancesDrains ==
  ASSUME TypeOK, Draining, NEW d \in Deleters, PollInstances(d)
  PROVE  Draining'
<1>1. Steady /\ UNCHANGED <<objs, crd, young>>
  BY PollStep
<1>2. UNCHANGED <<pc, listed, seen, skipped, cur>> /\ cur \in Deleters /\ Less
  BY <1>1 DEF Steady, Less, TypeOK, Shapes
<1>3. g \in [Deleters -> DeleterStates]
  BY DEF TypeOK, Shapes
<1>4. /\ g[d].pc = "pollInstances"
      /\ \/ g' = [g EXCEPT ![d].pc = "poll"]
         \/ /\ "left" \notin g[d].noted /\ ~Left(d, "si", Instances)
            /\ g' = [g EXCEPT ![d].pc = "none", ![d].ch = "true"]
         \/ g' = [g EXCEPT ![d].pc = "none", ![d].ch = "false"]
  BY DEF PollInstances, Answer
<1>5. CASE d # cur
  <2>1. g'[cur] = g[cur]
    BY <1>2, <1>3, <1>4, <1>5
  <2> QED BY <1>1, <1>2, <2>1, StaysDrains, SameDeleter
<1>6. ASSUME d = cur, pc = "select" PROVE DeleterSound'
  <2>1. /\ g'[d].ns = g[d].ns /\ g'[d].crds = g[d].crds /\ g'[d].noted = g[d].noted
        /\ \/ g'[d].pc = "poll" /\ g'[d].ch = g[d].ch
           \/ g'[d].pc = "none" /\ "left" \notin g[d].noted /\ ~Left(d, "si", Instances)
           \/ g'[d].pc = "none" /\ g'[d].ch = "false"
    BY SMTT(20), <1>3, <1>4 DEF DeleterStates
  <2>3. UNCHANGED <<Drained(Objects), Emptied(Objects), Emptied(Bindings), Emptied(Instances)>>
    BY <1>1, <1>2 DEF Drained, Emptied, InNamespaces
  <2>4. /\ "err" \notin g[d].noted /\ g[d].ns = listed /\ (skipped \/ Drained(Objects))
        /\ "sb" \notin g[d].crds => Emptied(Bindings)
        /\ "si" \notin g[d].crds => Emptied(Instances)
        /\ "left" \notin g[d].noted => Emptied(Bindings)
        /\ g[d].ch = "true" => Emptied(Objects)
    BY <1>4, <1>6 DEF Draining, DeleterSound
  <2>5. "left" \notin g[d].noted /\ ~Left(d, "si", Instances) => Emptied(Objects)
    BY <1>6, <2>4, NoneLeft, KindsOfObjects
  <2> QED BY <1>2, <1>6, <2>1, <2>3, <2>4, <2>5 DEF DeleterSound
<1> QED BY <1>1, <1>2, <1>5, <1>6, StaysDrains

\* The restore, the recount, the removal of the finalizer and a restart.
LEMMA LastStepsDrain ==
  ASSUME TypeOK, Draining,
         \/ GetSecret \/ SetNotCleaned \/ SoftBindings \/ SoftSecret \/ Restore \/ Apply
         \/ RecountBindings \/ RecountInstances \/ RemoveFinalizer \/ Crash
  PROVE  Draining'
<1>1. CASE GetSecret
  BY <1>1, TurnsDrains DEF GetSecret, Less, Guarded
<1>2. CASE SetNotCleaned
  BY <1>2, TurnsDrains DEF SetNotCleaned, AfterHandled, Less, Guarded
<1>3. CASE SoftBindings
  <2>1. Less /\ pc' \in {"softBindings", "ensureBindings", "restore"}
    BY <1>3, SoftItemStep DEF SoftBindings
  <2> QED BY <2>1, TurnsDrains DEF Guarded
<1>10. CASE SoftSecret
  BY <1>10, TurnsDrains DEF SoftSecret, Less, Guarded
<1>4. CASE Restore
  BY <1>4, TurnsDrains DEF Restore, RestoreDone, Less, Guarded
<1>5. CASE Apply
  <2>1. UNCHANGED objs /\ pc' \in {"apply", "idle", "recountBindings"}
    BY <1>5 DEF Apply, RestoreDone
  <2>2. crd' = "gone" => crd = "gone"
    BY <1>5 DEF Apply
  <2> QED BY <2>1, <2>2, TurnsDrains DEF Less, Guarded
<1>6. CASE RecountBindings
  BY <1>6, TurnsDrains DEF RecountBindings, Less, Guarded
<1>7. CASE RecountInstances
  BY <1>7, TurnsDrains DEF RecountInstances, Less, Guarded
<1>8. CASE RemoveFinalizer
  BY <1>8, TurnsDrains DEF RemoveFinalizer, Less, Guarded
<1>9. CASE Crash
  BY <1>9, TurnsDrains DEF Crash, Less, Guarded
<1> QED BY <1>1, <1>2, <1>3, <1>4, <1>5, <1>6, <1>7, <1>8, <1>9, <1>10

\* Every step keeps Draining.
LEMMA NextDrains ==
  ASSUME TypeOK, Draining, [Next]_vars
  PROVE  Draining'
<1>1. CASE Worker
  <2>1. CASE \/ Reconcile \/ SetDeleting \/ HardDeleteTimeout \/ SetSoft
             \/ PreSoftDelete \/ ListBindings \/ SetError
    BY <2>1, TurnSteps, TurnsDrains DEF Turns
  <2>2. CASE DeleteHard \/ DeleteSoft
    <3>1. /\ Less /\ UNCHANGED <<listed, seen, skipped, cur, g, young>>
          /\ pc' = pc \/ pc' \notin Guarded
      BY <2>2, RemoveStep DEF Guarded
    <3> QED BY <3>1, StillDrains, TurnsDrains
  <2> QED
    BY <1>1, <2>1, <2>2, ListNamespacesDrains, CountBindingsDrains, CountInstancesDrains,
       SetHardDrains, LaunchDrains, LooksDrains, SoftInstancesDrains, LastStepsDrain
    DEF Worker
<1>2. ASSUME NEW d \in Deleters, Deleter(d) PROVE Draining'
  BY <1>2, HardDeleteBindingsDrains, HardDeleteInstancesDrains, PollDrains, PollInstancesDrains
  DEF Deleter
<1>3. ASSUME Apart PROVE Draining'
  BY <1>3, StillDrains DEF Apart, Steady
<1>4. CASE Users
  BY <1>3, <1>4, ApartSteps, UserCreatesDrains DEF Users
<1>5. CASE OperandStoresClusterId
  BY <1>5, StillDrains DEF OperandStoresClusterId, Less
<1>6. CASE Cluster
  BY <1>3, <1>5, <1>6, ApartSteps DEF Cluster
<1> QED
  BY <1>1, <1>2, <1>3, <1>4, <1>6, ApartSteps, LastStepsDrain DEF Next, Finished

-----------------------------------------------------------------------------
(* Removing: the loop over the groups, then the kinds of steps.             *)

\* A loop that has not begun has removed nothing yet.
LEMMA FromTheStart == k' = 1 => RemovedUpTo'
BY SMTT(20) DEF RemovedUpTo

\* One turn of the loop removes its group, or the group is out of reach.
LEMMA RemoveGroup ==
  ASSUME Shapes, SecretRead, RemovedUpTo, pc \in {"deleteHard", "deleteSoft"},
         Remove(DeleteOrder[k])
  PROVE  /\ crd' # "present"
         /\ \A i \in 1..k : DeleteOrder[i] \in mod' => DeleteOrder[i] \in OutOfReach
<1>1. k \in 1..6
  BY Orders DEF Shapes
<1>2. crd' # "present"
  BY SMTT(20), <1>1, Orders DEF Remove, RemovedUpTo
<1>3. mod' \subseteq mod
  BY DEF Remove
<1>4. DeleteOrder[k] \in mod' => DeleteOrder[k] \in OutOfReach
  BY SMTT(20), <1>1, Orders, ConstantsAssumption DEF Remove, SecretRead, OutOfReach, Shapes, Groups
<1>5. ASSUME NEW i \in 1..k, DeleteOrder[i] \in mod' PROVE DeleteOrder[i] \in OutOfReach
  <2>1. CASE i = k
    BY <2>1, <1>4, <1>5
  <2>2. CASE i # k
    <3>1. i \in 1..(k-1)
      BY SMTT(20), <1>1, <2>2
    <3> QED
      BY <3>1, <1>3, <1>5 DEF RemovedUpTo
  <2> QED
    BY <2>1, <2>2
<1> QED
  BY <1>2, <1>5

\* Both loops, hard and soft, keep Removing.
LEMMA DeletionRemoves ==
  ASSUME TypeOK, Removing, DeleteHard \/ DeleteSoft
  PROVE  Removing'
<1>1. k \in 1..6 /\ mod \subseteq Groups
  BY Orders DEF TypeOK, Shapes
<1>2. /\ UNCHANGED <<nsKnown, lrs>> /\ pc \in {"deleteHard", "deleteSoft"}
      /\ \/ Remove(DeleteOrder[k]) /\ k = 6 /\ lrs = "NotCleaned" /\ k' = 1 /\ pc' = "restore"
         \/ Remove(DeleteOrder[k]) /\ k = 6 /\ k' = 1 /\ pc' = "removeFinalizer"
         \/ Remove(DeleteOrder[k]) /\ k' = k + 1 /\ UNCHANGED pc
         \/ k' = 1 /\ pc' \in {"setError", "restore"} /\ (pc' = "restore" => cont' = "err")
  BY Orders DEF DeleteHard, DeleteSoft, AllDeleted, AfterHandled
<1>3. SecretRead'
  BY <1>2 DEF Removing, SecretRead
<1>4. RecountIsBlocked'
  BY <1>2 DEF RecountIsBlocked
<1>5. Remove(DeleteOrder[k]) =>
        /\ crd' # "present"
        /\ \A i \in 1..k : DeleteOrder[i] \in mod' => DeleteOrder[i] \in OutOfReach
        /\ mod' \subseteq mod
  BY <1>2, RemoveGroup DEF TypeOK, Removing, Remove
<1>6. RemovedUpTo'
  <2>1. CASE k' = 1
    BY <2>1, FromTheStart
  <2>2. CASE Remove(DeleteOrder[k]) /\ k' = k + 1
    <3>1. 1..(k' - 1) = 1..k
      BY SMTT(20), <2>2, <1>1
    <3> QED BY <1>5, <2>2, <3>1, ZenonT(30) DEF RemovedUpTo
  <2> QED BY <1>2, <2>1, <2>2
<1>7. RemovedAll'
  <2>1. CASE pc' = "removeFinalizer"
    <3>1. Remove(DeleteOrder[k]) /\ k = 6
      BY <1>2, <2>1
    <3>2. mod' \subseteq OutOfReach
      BY SMTT(20), <1>1, <1>5, <3>1, Orders
    <3> QED BY <1>5, <3>1, <3>2, ZenonT(30) DEF RemovedAll
  <2>2. CASE pc' # "removeFinalizer"
    BY <2>2 DEF RemovedAll
  <2> QED BY <2>1, <2>2
<1> QED BY <1>3, <1>4, <1>6, <1>7 DEF Removing

LEMMA MovesRemoves ==
  ASSUME Removing, Moves
  PROVE  Removing'
<1>1. RemovedUpTo'
  BY FromTheStart DEF Moves
<1>2. RemovedAll' /\ RecountIsBlocked'
  BY DEF Moves, RemovedAll, RecountIsBlocked
<1>3. SecretRead'
  BY SMTT(20) DEF Moves, Early, Removing, SecretRead
<1> QED BY <1>1, <1>2, <1>3 DEF Removing

\* While the worker does nothing, no resource of the module comes back.
LEMMA SteadyRemoves ==
  ASSUME Removing, UNCHANGED <<present, pc, k, cont, lrs, nsKnown>>,
         mod' \subseteq mod, crd' = "present" => crd = "present"
  PROVE  Removing'
<1>1. SecretRead' /\ RecountIsBlocked'
  BY DEF Removing, SecretRead, RecountIsBlocked
<1>2. RemovedUpTo'
  BY DEF Removing, RemovedUpTo
<1>3. RemovedAll'
  BY ZenonT(30) DEF Removing, RemovedAll
<1> QED BY <1>1, <1>2, <1>3 DEF Removing

\* The operand stores its Secret only while its Deployment is installed.
LEMMA OperandStoresClusterIdRemoves ==
  ASSUME TypeOK, Removing, OperandStoresClusterId
  PROVE  Removing'
<1>1. /\ UNCHANGED <<present, pc, k, cont, lrs, nsKnown, crd>>
      /\ mod' = mod \cup {"clusterId"} /\ "deployment" \in mod
  BY DEF OperandStoresClusterId
<1>2. SecretRead' /\ RecountIsBlocked'
  BY <1>1 DEF Removing, SecretRead, RecountIsBlocked
<1>3. \A i \in 1..(k-1) : DeleteOrder[i] # "clusterId"
  BY SMTT(20), Orders DEF TypeOK, Shapes
<1>4. RemovedUpTo'
  BY <1>1, <1>3 DEF Removing, RemovedUpTo
<1>5. "deployment" \notin OutOfReach
  BY DEF OutOfReach
<1>6. RemovedAll'
  BY <1>1, <1>5, ZenonT(30) DEF Removing, RemovedAll
<1> QED BY <1>2, <1>4, <1>6 DEF Removing

LEMMA GetSecretRemoves ==
  ASSUME TypeOK, Removing, GetSecret
  PROVE  Removing'
<1>1. /\ k' = 1
      /\ \/ pc' = "listNamespaces" /\ nsKnown' = (CredentialsInChartNamespace \/ secret # "missing")
         \/ pc' = "idle"
  BY ZenonT(30) DEF GetSecret
<1>2. SecretRead'
  BY <1>1, ConstantsAssumption, ZenonT(30) DEF SecretRead
<1>3. RemovedAll' /\ RecountIsBlocked'
  BY <1>1 DEF RemovedAll, RecountIsBlocked
<1> QED BY <1>1, <1>2, <1>3, FromTheStart DEF Removing

LEMMA SoftItemRemoves ==
  ASSUME TypeOK, Removing, SoftBindings \/ SoftInstances \/ SoftSecret
  PROVE  Removing'
<1>1. /\ UNCHANGED <<present, mod, crd, lrs, nsKnown>> /\ pc \in {"softBindings", "softInstances"}
      /\ \/ UNCHANGED <<pc, k, cont>>
         \/ k' = 1 /\ pc' \in {"ensureBindings", "ensureInstances"} /\ UNCHANGED cont
         \/ k' = 1 /\ pc' = "restore" /\ cont' = "err"
  BY SoftItemStep DEF SoftBindings, SoftInstances, SoftSecret
<1>2. CASE UNCHANGED <<pc, k, cont>>
  BY <1>1, <1>2, SteadyRemoves
<1>3. CASE k' = 1
  <2>1. SecretRead'
    BY <1>1 DEF Removing, SecretRead
  <2>2. RemovedAll' /\ RecountIsBlocked'
    BY <1>1 DEF RemovedAll, RecountIsBlocked
  <2> QED BY <1>3, <2>1, <2>2, FromTheStart DEF Removing
<1> QED BY <1>1, <1>2, <1>3

\* A blocked pass restores the module and counts again.
LEMMA BlockedPassRemoves ==
  ASSUME TypeOK, Removing, CountInstances \/ SetNotCleaned
  PROVE  Removing'
<1>1. CASE CountInstances
  <2>1. /\ UNCHANGED <<nsKnown, lrs>> /\ pc = "countInstances" /\ k' = 1
        /\ pc' \in {"restore", "setNotCleaned", "setHard", "launch"}
        /\ pc' = "restore" => cont' = "err" \/ lrs = "NotCleaned"
    BY <1>1 DEF CountInstances, Unblocked
  <2>2. SecretRead'
    BY <2>1 DEF Removing, SecretRead
  <2>3. RemovedAll' /\ RecountIsBlocked'
    BY <2>1 DEF RemovedAll, RecountIsBlocked
  <2> QED BY <2>1, <2>2, <2>3, FromTheStart DEF Removing
<1>2. CASE SetNotCleaned
  <2>1. nsKnown' = nsKnown /\ pc = "setNotCleaned" /\ k' = 1
    BY <1>2 DEF SetNotCleaned, AfterHandled
  <2>2. \/ pc' = "restore" /\ (cont' = "err" \/ lrs' = "NotCleaned")
        \/ pc' = "removeFinalizer" /\ lrs' # "NotCleaned" /\ StatusWritten("NotCleaned")
    BY <1>2 DEF SetNotCleaned, AfterHandled
  <2>3. SecretRead'
    BY <2>1 DEF Removing, SecretRead
  <2>4. RecountIsBlocked'
    BY <2>2 DEF RecountIsBlocked
  <2>5. StatusWritten("NotCleaned") /\ lrs' # "NotCleaned" => ~present'
    BY ZenonT(30) DEF StatusWritten
  <2>6. RemovedAll'
    BY <2>2, <2>5 DEF RemovedAll
  <2> QED BY <2>1, <2>3, <2>4, <2>6, FromTheStart DEF Removing
<1> QED BY <1>1, <1>2

\* The restore and the steps after it.
LEMMA RestoreRemoves ==
  ASSUME TypeOK, Removing, Restore \/ Apply
  PROVE  Removing'
<1>1. /\ UNCHANGED <<nsKnown, cont, lrs>> /\ pc \in {"restore", "apply"}
      /\ pc' \in {"apply", "idle", "recountBindings"}
  BY DEF Restore, Apply, RestoreDone
<1>2. pc' = "recountBindings" => cont = "recount"
  BY DEF Restore, Apply, RestoreDone, TypeOK, Shapes
<1>3. SecretRead'
  BY <1>1 DEF Removing, SecretRead
<1>4. RecountIsBlocked'
  BY <1>1, <1>2 DEF Removing, RecountIsBlocked
<1>5. RemovedUpTo' /\ RemovedAll'
  BY <1>1 DEF RemovedUpTo, RemovedAll
<1> QED BY <1>3, <1>4, <1>5 DEF Removing

LEMMA RecountRemoves ==
  ASSUME TypeOK, Removing, RecountBindings \/ RecountInstances \/ RemoveFinalizer \/ Crash
  PROVE  Removing'
<1>1. /\ UNCHANGED <<nsKnown, lrs>> /\ k' = 1
      /\ \/ pc' = "idle"
         \/ /\ pc \in {"recountBindings", "recountInstances"}
            /\ pc' \in {"recountInstances", "removeFinalizer"}
  BY DEF RecountBindings, RecountInstances, RemoveFinalizer, Crash
<1>2. SecretRead'
  BY <1>1 DEF Removing, SecretRead
<1>3. RemovedAll' /\ RecountIsBlocked'
  BY <1>1 DEF Removing, RemovedAll, RecountIsBlocked
<1> QED BY <1>1, <1>2, <1>3, FromTheStart DEF Removing

\* Every step keeps Removing.
LEMMA NextRemoves ==
  ASSUME TypeOK, Removing, [Next]_vars
  PROVE  Removing'
<1>1. CASE Worker
  <2>1. CASE \/ Reconcile \/ SetDeleting \/ HardDeleteTimeout \/ SetSoft
             \/ PreSoftDelete \/ ListBindings \/ SetError
    BY <2>1, TurnSteps, MovesRemoves DEF Turns
  <2>2. CASE \/ ListNamespaces \/ CountBindings \/ SetHard \/ HardDeleteAnswered
             \/ CheckCrds \/ EnsureBindings \/ ListInstances \/ EnsureInstances
    BY <2>2, LookSteps, MovesRemoves DEF Looks
  <2>3. CASE Launch
    BY <2>3, MovesRemoves DEF Launch, Moves, Early
  <2> QED
    BY <1>1, <2>1, <2>2, <2>3, GetSecretRemoves, SoftItemRemoves, BlockedPassRemoves,
       DeletionRemoves, RestoreRemoves, RecountRemoves
    DEF Worker
<1>2. ASSUME NEW d \in Deleters, Deleter(d) PROVE Removing'
  <2>1. Steady /\ crd' = crd
    BY <1>2, DeleteAllOfStep, PollStep DEF Deleter, HardDeleteBindings, HardDeleteInstances
  <2> QED BY <2>1, SteadyRemoves DEF Steady
<1>3. ASSUME Apart PROVE Removing'
  BY <1>3, SteadyRemoves DEF Apart, Steady
<1>4. ASSUME NEW o \in Objects, UserCreates(o) PROVE Removing'
  BY <1>4, SteadyRemoves DEF UserCreates
<1>5. CASE Users
  BY <1>3, <1>4, <1>5, ApartSteps DEF Users
<1>6. CASE Cluster
  BY <1>3, <1>6, ApartSteps, OperandStoresClusterIdRemoves DEF Cluster
<1> QED
  BY <1>1, <1>2, <1>3, <1>5, <1>6, ApartSteps, RecountRemoves DEF Next, Finished

-----------------------------------------------------------------------------
(* SecretsBound: a Secret outlives its binding only between two steps of    *)
(* softDelete, or because the second of them fails or never comes.          *)
LEMMA InitBound == Init => SecretsBound
BY DEF Init, SecretsBound, InstancesListed, Excused

\* No Secret appears and no excuse goes.
LEMMA BoundKept ==
  ASSUME SecretsBound, \A b \in bsec' : b \in bsec /\ (Excused(b) => Excused(b)'),
         pc' # "softInstances" \/ UNCHANGED <<pc, todo>> \/ \A t \in todo' : t[1] \in Instances
  PROVE  SecretsBound'
BY DEF SecretsBound, InstancesListed

\* The step leaves the bindings and their Secrets alone, and softDelete goes
\* on only if it has no Secret left to delete.
Quiet ==
  /\ UNCHANGED <<objs, bsec>> /\ lost \subseteq lost'
  /\ pc = "softBindings" => UNCHANGED <<pc, todo>>
  /\ pc' # "softInstances" \/ UNCHANGED <<pc, todo>> \/ \A t \in todo' : t[1] \in Instances

LEMMA QuietBound ==
  ASSUME SecretsBound, Quiet
  PROVE  SecretsBound'
BY BoundKept DEF Quiet, Excused

LEMMA QuietSteps ==
  ASSUME \/ Reconcile \/ SetDeleting \/ GetSecret \/ ListNamespaces \/ CountBindings
         \/ CountInstances \/ SetNotCleaned \/ SetHard \/ Launch \/ HardDeleteAnswered
         \/ HardDeleteTimeout \/ SetSoft \/ PreSoftDelete \/ CheckCrds \/ ListBindings
         \/ EnsureBindings \/ ListInstances \/ EnsureInstances \/ SetError \/ Restore \/ Apply
         \/ RecountBindings \/ RecountInstances \/ RemoveFinalizer
  PROVE  Quiet
<1>1. CASE SetDeleting \/ SetNotCleaned \/ SetHard \/ SetSoft \/ SetError
  BY <1>1 DEF SetDeleting, SetNotCleaned, SetHard, SetSoft, SetError, AfterHandled, Quiet
<1>2. CASE Reconcile \/ GetSecret \/ ListNamespaces \/ CountBindings \/ CountInstances
  BY <1>2 DEF Reconcile, GetSecret, ListNamespaces, CountBindings, CountInstances, Unblocked, Quiet
<1>3. CASE Launch \/ HardDeleteAnswered \/ HardDeleteTimeout \/ PreSoftDelete \/ CheckCrds
  BY <1>3 DEF Launch, HardDeleteAnswered, HardDeleteTimeout, PreSoftDelete, CheckCrds,
     BindingsFirst, Quiet
<1>4. CASE ListBindings \/ EnsureBindings \/ EnsureInstances
  BY <1>4 DEF ListBindings, EnsureBindings, EnsureInstances, SoftList, SoftEnsure, Quiet
<1>7. CASE ListInstances
  <2>1. \/ todo' = {<<o, objs[o]>> : o \in {x \in Instances : objs[x] # "absent"}}
        \/ pc' = "restore"
    BY <1>7 DEF ListInstances, SoftList
  <2>2. pc' = "restore" \/ \A t \in todo' : t[1] \in Instances
    BY SMTT(20), <2>1
  <2> QED BY <1>7, <2>2 DEF ListInstances, SoftList, Quiet
<1>5. CASE Restore \/ Apply
  BY <1>5 DEF Restore, Apply, RestoreDone, Quiet
<1>6. CASE RecountBindings \/ RecountInstances \/ RemoveFinalizer
  BY <1>6 DEF RecountBindings, RecountInstances, RemoveFinalizer, Quiet
<1> QED BY <1>1, <1>2, <1>3, <1>4, <1>5, <1>6, <1>7, ZenonT(30)

LEMMA StrippedLost == \A b : <<b, "stripped">> \in todo => b \in LostNow
<1> SUFFICES ASSUME NEW b, <<b, "stripped">> \in todo PROVE b \in LostNow
  OBVIOUS
<1>1. <<b, "stripped">> \in Stripped
  BY DEF Stripped
<1>2. <<b, "stripped">>[1] = b
  OBVIOUS
<1> QED BY <1>1, <1>2 DEF LostNow

\* A restart between the two steps counts as the loss of the Secret.
LEMMA CrashBound ==
  ASSUME TypeOK, SecretsBound, Crash
  PROVE  SecretsBound'
<1>1. UNCHANGED <<objs, bsec>> /\ lost \subseteq lost' /\ pc' = "idle"
  BY DEF Crash, LostNow
<1>2. ASSUME NEW b, pc = "softBindings", <<b, "stripped">> \in todo PROVE b \in lost'
  BY <1>2, StrippedLost DEF Crash
<1> QED BY <1>1, <1>2, BoundKept DEF Excused

\* The binding softDelete takes the finalizers of is the next whose Secret it
\* deletes; before that it has no Secret left to delete.
LEMMA SoftItemBound ==
  ASSUME TypeOK, SecretsBound, SoftBindings \/ SoftInstances
  PROVE  SecretsBound'
<1>1. /\ objs \in [Objects -> {"absent", "active", "deleting"}]
      /\ bsec \subseteq Bindings /\ Bindings \subseteq Objects
  BY DEF TypeOK, Shapes, Objects
<1>2. UNCHANGED <<bsec, lost>> /\ Stripped = {}
  BY ZenonT(30) DEF SoftBindings, SoftInstances, SoftItem
<1>3. \A b : <<b, "stripped">> \notin todo
  BY <1>2 DEF Stripped
<1>7. \/ pc' # "softInstances"
      \/ UNCHANGED <<pc, todo>>
      \/ /\ SoftInstances
          /\ \E t \in todo : todo' = (todo \ {t}) \cup ({t[1]} \cap Bindings) \X {"stripped"}
  BY ZenonT(30) DEF SoftBindings, SoftInstances, SoftItem
<1>8. \A t \in todo : SoftInstances => t[1] \in Instances
  BY DEF SecretsBound, InstancesListed, SoftInstances, SoftItem
<1>9. pc' # "softInstances" \/ UNCHANGED <<pc, todo>> \/ \A t \in todo' : t[1] \in Instances
  <2> SUFFICES ASSUME SoftInstances, NEW t \in todo,
                      todo' = (todo \ {t}) \cup ({t[1]} \cap Bindings) \X {"stripped"}
               PROVE  \A u \in todo' : u[1] \in Instances
    BY <1>7
  <2>1. {t[1]} \cap Bindings = {}
    BY <1>8, ConstantsAssumption
  <2> QED BY <1>8, <2>1
<1>4. \/ objs' = objs
      \/ \E x : objs' = Deleted({x})
      \/ \E t \in todo : /\ objs' = [objs EXCEPT ![t[1]] = "absent"] /\ pc' = pc
                         /\ todo' = (todo \ {t}) \cup ({t[1]} \cap Bindings) \X {"stripped"}
  BY ZenonT(30) DEF SoftBindings, SoftInstances, SoftItem
<1>5. CASE objs' = objs \/ \E x : objs' = Deleted({x})
  <2>1. \A b \in bsec : objs[b] # "absent" => objs'[b] # "absent"
    BY <1>1, <1>5 DEF Deleted
  <2> QED BY <1>2, <1>3, <1>9, <2>1, BoundKept DEF Excused
<1>6. ASSUME NEW t \in todo, objs' = [objs EXCEPT ![t[1]] = "absent"], pc' = pc,
             todo' = (todo \ {t}) \cup ({t[1]} \cap Bindings) \X {"stripped"}
      PROVE  SecretsBound'
  <2>1. ASSUME NEW b \in bsec PROVE b = t[1] \/ objs'[b] = objs[b]
    BY <1>1, <1>6
  <2>2. t[1] \in Bindings => <<t[1], "stripped">> \in todo'
    BY SMTT(20), <1>6
  <2>3. t[1] \in Bindings => pc = "softBindings"
    <3>1. CASE SoftBindings
      BY <3>1 DEF SoftBindings, SoftItem
    <3>2. CASE SoftInstances
      BY <3>2, <1>8, ConstantsAssumption
    <3> QED BY <3>1, <3>2
  <2> QED BY <1>1, <1>2, <1>3, <1>6, <1>9, <2>1, <2>2, <2>3, BoundKept DEF Excused
<1> QED BY <1>4, <1>5, <1>6

\* The second step deletes the Secret, or it is lost.
LEMMA SoftSecretBound ==
  ASSUME TypeOK, SecretsBound, SoftSecret
  PROVE  SecretsBound'
<1>1. PICK t \in Stripped :
        \/ bsec' = SecretDeleted(t[1]) /\ todo' = todo \ {t} /\ UNCHANGED <<pc, lost>>
        \/ UNCHANGED <<bsec, todo>> /\ pc' = "restore" /\ lost' = LostNow
  BY DEF SoftSecret
<1>2. UNCHANGED objs /\ pc = "softBindings"
  BY DEF SoftSecret
<1>3. \A b : b # t[1] => <<b, "stripped">> # t
  BY SMTT(20)
<1>4. CASE bsec' = SecretDeleted(t[1]) /\ todo' = todo \ {t} /\ UNCHANGED <<pc, lost>>
  <2>1. ASSUME NEW b \in bsec', Excused(b) PROVE b \in bsec /\ Excused(b)'
    <3>1. b \in bsec /\ (b # t[1] \/ b \in Renamed)
      BY <1>4 DEF SecretDeleted
    <3>2. CASE b \in Renamed
      BY <3>1, <3>2 DEF Excused
    <3>3. CASE b # t[1]
      BY <1>2, <1>3, <1>4, <2>1, <3>1, <3>3 DEF Excused
    <3> QED BY <3>1, <3>2, <3>3
  <2>2. \A b \in bsec' : b \in bsec
    BY <1>4 DEF SecretDeleted
  <2> QED BY <1>2, <1>4, <2>1, <2>2, BoundKept
<1>5. CASE UNCHANGED <<bsec, todo>> /\ pc' = "restore" /\ lost' = LostNow
  <2>1. \A b : <<b, "stripped">> \in todo => b \in lost'
    BY <1>5, StrippedLost
  <2>2. lost \subseteq lost'
    BY <1>5 DEF LostNow
  <2> QED BY <1>2, <1>5, <2>1, <2>2, BoundKept DEF Excused
<1> QED BY <1>1, <1>4, <1>5

LEMMA DeletionBound ==
  ASSUME TypeOK, SecretsBound,
         \/ DeleteHard \/ DeleteSoft \/ \E d \in Deleters : Deleter(d)
         \/ \E o \in Objects : UserDeletes(o)
  PROVE  SecretsBound'
<1>1. objs \in [Objects -> {"absent", "active", "deleting"}] /\ bsec \subseteq Objects
  BY DEF TypeOK, Shapes, Objects
<1>2. /\ UNCHANGED <<bsec, lost, todo>>
      /\ pc' = pc \/ (pc # "softBindings" /\ pc' # "softInstances")
      /\ objs' = objs \/ \E done : objs' = Deleted(done)
  <2>1. CASE DeleteHard \/ DeleteSoft
    BY <2>1 DEF DeleteHard, DeleteSoft, Remove, AfterHandled
  <2>2. ASSUME NEW d \in Deleters, HardDeleteBindings(d) \/ HardDeleteInstances(d)
        PROVE  /\ UNCHANGED <<bsec, lost, todo, pc>>
               /\ objs' = objs \/ \E done : objs' = Deleted(done)
    BY <2>2 DEF HardDeleteBindings, HardDeleteInstances, DeleteAllOf
  <2>3. ASSUME NEW d \in Deleters, Poll(d) \/ PollInstances(d)
        PROVE  UNCHANGED <<bsec, lost, todo, pc, objs>>
    BY <2>3 DEF Poll, PollInstances
  <2>4. ASSUME NEW o \in Objects, UserDeletes(o)
        PROVE  UNCHANGED <<bsec, lost, todo, pc>> /\ \E done : objs' = Deleted(done)
    BY <2>4 DEF UserDeletes
  <2> QED BY <2>1, <2>2, <2>3, <2>4 DEF Deleter
<1>3. \A b \in bsec : objs[b] # "absent" => objs'[b] # "absent"
  BY <1>1, <1>2 DEF Deleted
<1> QED BY <1>2, <1>3, BoundKept DEF Excused

LEMMA WorldBound ==
  ASSUME TypeOK, SecretsBound, Users \/ Cluster \/ UNCHANGED vars
  PROVE  SecretsBound'
<1>1. objs \in [Objects -> {"absent", "active", "deleting"}] /\ bsec \subseteq Objects
  BY DEF TypeOK, Shapes, Objects
<1>2. ASSUME NEW o \in Objects, UserCreates(o) PROVE SecretsBound'
  <2>1. /\ UNCHANGED <<bsec, pc, todo>> /\ lost' = lost \ {o}
        /\ objs' = [objs EXCEPT ![o] = "active"]
    BY <1>2 DEF UserCreates
  <2>2. objs'[o] = "active" /\ \A b \in bsec : b # o => objs'[b] = objs[b]
    BY <1>1, <2>1
  <2> QED BY <2>1, <2>2, BoundKept DEF Excused
<1>3. ASSUME NEW o \in Objects, OperandFinalizes(o) PROVE SecretsBound'
  <2>1. /\ UNCHANGED <<lost, pc, todo>> /\ bsec' = bsec \ {o}
        /\ objs' = [objs EXCEPT ![o] = "absent"]
    BY <1>3 DEF OperandFinalizes
  <2>2. \A b \in bsec' : objs'[b] = objs[b]
    BY <1>1, <2>1
  <2> QED BY <2>1, <2>2, BoundKept DEF Excused
<1>4. ASSUME NEW b \in Bindings, OperandBinds(b) PROVE SecretsBound'
  <2>1. UNCHANGED <<objs, lost, pc, todo>> /\ bsec' = bsec \cup {b} /\ objs[b] = "active"
    BY <1>4 DEF OperandBinds
  <2> QED BY <2>1 DEF SecretsBound, InstancesListed, Excused
<1>5. ASSUME UNCHANGED <<objs, bsec, lost, pc, todo>> PROVE SecretsBound'
  BY <1>5 DEF SecretsBound, InstancesListed, Excused
<1>6. ASSUME NEW n \in Namespaces, UserCreatesNamespace(n) PROVE SecretsBound'
  BY <1>5, <1>6 DEF UserCreatesNamespace
<1>7. CASE UserLabels \/ UserEditsSecret
  BY <1>5, <1>7 DEF UserLabels, UserEditsSecret
<1>8. CASE OperandStoresClusterId \/ CrdCollected \/ InformerSync \/ NamespaceSync \/ TimerFires
  BY <1>5, <1>8 DEF OperandStoresClusterId, CrdCollected, InformerSync, NamespaceSync, TimerFires
<1>9. CASE UNCHANGED vars
  BY <1>5, <1>9 DEF vars
<1> QED
  BY <1>2, <1>3, <1>4, <1>6, <1>7, <1>8, <1>9, DeletionBound DEF Users, Cluster

\* Every step keeps SecretsBound.
LEMMA NextBound ==
  ASSUME TypeOK, SecretsBound, [Next]_vars
  PROVE  SecretsBound'
<1>1. CASE Worker
  BY <1>1, QuietSteps, QuietBound, SoftItemBound, SoftSecretBound, DeletionBound DEF Worker
<1> QED
  BY <1>1, CrashBound, DeletionBound, WorldBound DEF Next, Finished

-----------------------------------------------------------------------------
(* The status and the step of the pass.                                     *)
\* The status stays, and no pass begins.
Proceeds ==
  /\ UNCHANGED <<present, status>>
  /\ \/ UNCHANGED <<pc, cont>>
     \/ pc' \in {"idle", "setDeleting"}
     \/ pc \notin {"idle", "setDeleting", "restore", "apply"}

LEMMA ProceedingSteps ==
  ASSUME [Next]_vars
  PROVE  \/ Proceeds
         \/ SetDeleting \/ SetNotCleaned \/ SetHard \/ SetSoft \/ SetError
         \/ Reconcile \/ Restore \/ Apply \/ RemoveFinalizer
<1> USE DEF Proceeds
<1>1. CASE GetSecret \/ ListNamespaces \/ CountBindings \/ CountInstances \/ Launch
  BY <1>1 DEF GetSecret, ListNamespaces, CountBindings, CountInstances, Launch
<1>2. CASE HardDeleteAnswered \/ HardDeleteTimeout \/ PreSoftDelete \/ CheckCrds
  BY <1>2 DEF HardDeleteAnswered, HardDeleteTimeout, PreSoftDelete, CheckCrds
<1>3. CASE ListBindings \/ EnsureBindings \/ ListInstances \/ EnsureInstances
  BY <1>3 DEF ListBindings, EnsureBindings, ListInstances, EnsureInstances, SoftList, SoftEnsure
<1>4. CASE SoftBindings \/ SoftInstances \/ SoftSecret
  BY <1>4 DEF SoftBindings, SoftInstances, SoftItem, SoftSecret
<1>5. CASE DeleteHard \/ DeleteSoft \/ RecountBindings \/ RecountInstances
  BY <1>5 DEF DeleteHard, DeleteSoft, RecountBindings, RecountInstances
<1>6. ASSUME NEW d \in Deleters, Deleter(d) PROVE Proceeds
  BY <1>6 DEF Deleter, HardDeleteBindings, HardDeleteInstances, DeleteAllOf, Poll, PollInstances
<1>7. CASE Users
  BY <1>7 DEF Users, UserCreates, UserDeletes, UserCreatesNamespace, UserLabels, UserEditsSecret
<1>8. CASE Cluster
  BY <1>8 DEF Cluster, OperandFinalizes, OperandBinds, OperandStoresClusterId, CrdCollected,
     InformerSync, NamespaceSync, TimerFires
<1>9. CASE Crash
  BY <1>9 DEF Crash
<1>10. CASE UNCHANGED vars
  BY <1>10 DEF vars
<1> HIDE DEF Proceeds
<1> QED BY <1>1, <1>2, <1>3, <1>4, <1>5, <1>6, <1>7, <1>8, <1>9, <1>10 DEF Next, Worker, Finished

\* A status update that succeeds or not writes its status or none.
LEMMA StatusUpdates ==
  ASSUME NEW rs, StatusWritten(rs) \/ StatusNotWritten(rs)
  PROVE  present' = present /\ (status' = status \/ (present /\ status' = rs))
BY ZenonT(30) DEF StatusWritten, StatusNotWritten

LEMMA InitDoomed == Init => Doomed
BY DEF Init, Doomed

LEMMA NextDoomed ==
  ASSUME TypeOK, Doomed, [Next]_vars
  PROVE  Doomed'
<1> USE DEF Doomed
<1>0. pc \notin {"idle", "setDeleting", "restore", "apply"} =>
        status # "Other" /\ status # "ResourceRemovalFailed"
  OBVIOUS
<1>1. CASE Proceeds
  <2>1. CASE UNCHANGED <<status, pc, cont>>
    BY <2>1
  <2>2. CASE status' = status /\ pc' \in {"idle", "setDeleting"}
    BY <2>2
  <2>3. CASE status' = status /\ pc \notin {"idle", "setDeleting", "restore", "apply"}
    BY <2>3, <1>0
  <2> QED BY <1>1, <2>1, <2>2, <2>3 DEF Proceeds
<1>2. CASE Reconcile
  BY <1>2 DEF Reconcile
<1>3. CASE SetDeleting
  BY <1>3 DEF SetDeleting
<1>4. CASE SetNotCleaned
  <2>1. status' = status \/ status' = "NotCleaned"
    BY <1>4, StatusUpdates DEF SetNotCleaned
  <2>2. status' # "Other" /\ status' # "ResourceRemovalFailed"
    BY <1>4, <2>1, <1>0 DEF SetNotCleaned
  <2> QED BY <2>2
<1>5. CASE SetHard
  BY <1>5, StatusUpdates DEF SetHard
<1>6. CASE SetSoft
  BY <1>6, StatusUpdates DEF SetSoft
<1>7. CASE SetError
  <2>1. status' = status \/ status' = "ResourceRemovalFailed"
    BY <1>7, StatusUpdates DEF SetError
  <2>2. pc = "setError" /\ pc' = "restore" /\ cont' = "err"
    BY <1>7 DEF SetError
  <2> QED BY <2>1, <2>2, <1>0
<1>8. CASE Restore \/ Apply
  <2>1. UNCHANGED <<status, cont>> /\ pc \in {"restore", "apply"}
    BY <1>8 DEF Restore, Apply
  <2>2. \/ pc' \in {"idle", "restore", "apply"}
        \/ pc' = "recountBindings" /\ cont = "recount"
    <3>1. cont \in {"err", "recount"}
      BY DEF TypeOK, Shapes
    <3> QED BY <1>8, <2>1, <3>1 DEF Restore, Apply, RestoreDone
  <2>3. status # "Other" /\ (cont = "recount" => status # "ResourceRemovalFailed")
    BY <2>1
  <2> QED BY <2>1, <2>2, <2>3
<1>9. CASE RemoveFinalizer
  BY <1>9 DEF RemoveFinalizer
<1> HIDE DEF Doomed
<1> QED BY <1>1, <1>2, <1>3, <1>4, <1>5, <1>6, <1>7, <1>8, <1>9, ProceedingSteps

\* The invariant is inductive.
THEOREM Inductive == Spec => []IInv
<1>1. Init => IInv
  BY InitType, InitDraining, InitRemoving, InitBound, InitDoomed DEF IInv
<1>2. IInv /\ [Next]_vars => IInv'
  BY NextType, NextDrains, NextRemoves, NextBound, NextDoomed DEF IInv
<1> QED
  BY <1>1, <1>2, PTL DEF Spec

\* Existing instances and bindings block the deletion: the hard delete of
\* handleDeprovisioning starts only for a forced pass, or when nothing from
\* before the pass is left.
THEOREM ExistingObjectsBlock == Spec => []BlockedByDefault
<1>1. IInv => BlockedByDefault
  BY DEF IInv, Draining
<1> QED
  BY <1>1, Inductive, PTL

\* deleteBtpOperatorResources runs only when nothing from before the pass is
\* left: anywhere after counts that found nothing and after the soft delete,
\* and after a forced hard delete in the namespaces the pass has listed, which
\* may lack one that is newer than the cache.
THEOREM DrainedBeforeRemoval == Spec => []ModuleRemovedOnlyWhenDrained
<1>1. IInv => ModuleRemovedOnlyWhenDrained
  BY DEF IInv, Draining
<1> QED
  BY <1>1, Inductive, PTL

\* handleSoftDelete touches instances only after the bindings are gone.
THEOREM BindingsDrainFirst == Spec => []BindingsBeforeInstances
<1>1. IInv => BindingsBeforeInstances
  BY DEF IInv, Draining
<1> QED
  BY <1>1, Inductive, PTL

\* Only the Update that removes the finalizer makes the CR disappear.
LEMMA OnlyFinalizerRemoval ==
  ASSUME TypeOK, [Next]_vars, present, ~present'
  PROVE  RemoveFinalizer
<1>1. CASE Worker
  <2>1. CASE \/ Reconcile \/ SetDeleting \/ HardDeleteTimeout \/ SetSoft
             \/ PreSoftDelete \/ ListBindings \/ SetError
    BY <2>1, TurnSteps, ZenonT(30) DEF Turns, Moves
  <2>2. CASE \/ ListNamespaces \/ CountBindings \/ SetHard \/ HardDeleteAnswered
             \/ CheckCrds \/ EnsureBindings \/ ListInstances \/ EnsureInstances
    BY <2>2, LookSteps, ZenonT(30) DEF Looks, Moves
  <2>3. CASE GetSecret \/ CountInstances \/ Launch \/ Restore
    BY <2>3, ZenonT(30) DEF GetSecret, CountInstances, Launch, Restore
  <2>4. CASE SetNotCleaned
    BY <2>4, ZenonT(30) DEF SetNotCleaned, StatusWritten, StatusNotWritten
  <2>5. CASE SoftBindings \/ SoftInstances
    BY <2>5, SoftItemStep, ZenonT(30) DEF SoftBindings, SoftInstances
  <2>6. CASE DeleteHard \/ DeleteSoft
    BY <2>6, RemoveStep, ZenonT(30)
  <2>7. CASE Apply \/ RecountBindings \/ RecountInstances \/ SoftSecret
    BY <2>7, ZenonT(30) DEF Apply, RecountBindings, RecountInstances, SoftSecret
  <2> QED BY <1>1, <2>1, <2>2, <2>3, <2>4, <2>5, <2>6, <2>7 DEF Worker
<1>2. ASSUME NEW d \in Deleters, Deleter(d) PROVE FALSE
  <2>1. Steady
    BY <1>2, DeleteAllOfStep, PollStep DEF Deleter, HardDeleteBindings, HardDeleteInstances
  <2> QED BY <2>1, ZenonT(30) DEF Steady
<1>3. ~Apart
  BY ZenonT(30) DEF Apart, Steady
<1>4. ASSUME NEW o \in Objects, UserCreates(o) PROVE FALSE
  BY <1>4, ZenonT(30) DEF UserCreates
<1>5. ~OperandStoresClusterId /\ ~Crash
  BY ZenonT(30) DEF OperandStoresClusterId, Crash
<1>6. ~Users /\ ~Cluster
  BY <1>3, <1>4, <1>5, ApartSteps DEF Users, Cluster
<1> QED
  BY <1>1, <1>2, <1>3, <1>5, <1>6, ApartSteps DEF Next, Finished

\* The CR outlives the module's resources, except through the recount of a
\* blocked pass.
THEOREM CrLast == Spec => CrOutlivesModule
<1>1. IInv /\ [Next]_vars =>
        (present /\ ~present' => \/ lrs = "NotCleaned"
                                 \/ crd # "present" /\ mod \subseteq OutOfReach)
  <2> SUFFICES ASSUME IInv, [Next]_vars, present, ~present'
               PROVE  lrs = "NotCleaned" \/ (crd # "present" /\ mod \subseteq OutOfReach)
    BY ZenonT(30)
  <2>1. pc = "removeFinalizer"
    BY OnlyFinalizerRemoval, ZenonT(30) DEF IInv, RemoveFinalizer
  <2> QED BY <2>1, ZenonT(30) DEF IInv, Removing, RemovedAll
<1> QED
  BY <1>1, Inductive, PTL DEF Spec, CrOutlivesModule

\* The CR never goes away over the Secret of a binding that is gone, unless
\* softDelete could not know its name, or a request of its own failed or a
\* restart came between the finalizers of that binding and its Secret: every
\* other way a binding goes takes the Secret along.
THEOREM NoSecretLeftBehind == Spec => SecretsGoWithBindings
<1>1. IInv /\ [Next]_vars =>
        (present /\ ~present' => \A b \in bsec : objs[b] # "absent" \/ b \in Renamed \cup lost)
  <2> SUFFICES ASSUME IInv, [Next]_vars, present, ~present', NEW b \in bsec
               PROVE  objs[b] # "absent" \/ b \in Renamed \cup lost
    BY ZenonT(30)
  <2>1. pc = "removeFinalizer"
    BY OnlyFinalizerRemoval, ZenonT(30) DEF IInv, RemoveFinalizer
  <2> QED BY <2>1 DEF IInv, SecretsBound, Excused
<1> QED
  BY <1>1, Inductive, PTL DEF Spec, SecretsGoWithBindings

\* Deprovisioning implements the abstract life cycle of the CR, step by step:
\* Deprovision and the status updates of handleDeprovisioning show Deleting
\* before anything else, and the finalizer is removed from a CR that shows
\* Deleting or Warning.
THEOREM DeletionFollowsLifecycle == Spec => FollowsLifecycle
<1>1. ASSUME IInv, [Next]_vars, UNCHANGED <<present, status>>
      PROVE  UNCHANGED Lifecycle!vars
  BY <1>1, ZenonT(30) DEF Lifecycle!vars, StateOf
<1>2. ASSUME IInv, SetDeleting \/ SetHard \/ SetSoft, UNCHANGED present, present,
             status' \in {"HardDeleting", "SoftDeleting"}
      PROVE  Lifecycle!Doom
  BY <1>2, ZenonT(30) DEF Lifecycle!Doom, StateOf
<1>3. ASSUME IInv, SetNotCleaned \/ SetError, UNCHANGED present, present,
             status' \in {"NotCleaned", "ResourceRemovalFailed"}
      PROVE  Lifecycle!Struggle
  <2>1. status # "Other"
    BY <1>3 DEF IInv, Doomed, SetNotCleaned, SetError
  <2> QED BY <1>3, <2>1, ZenonT(30) DEF Lifecycle!Struggle, StateOf
<1>4. ASSUME IInv, RemoveFinalizer, present, ~present'
      PROVE  Lifecycle!Vanish
  <2>1. status \in {"HardDeleting", "SoftDeleting", "NotCleaned"}
    <3>1. pc = "removeFinalizer" /\ status \in Reasons
      BY <1>4 DEF IInv, TypeOK, Shapes, RemoveFinalizer
    <3> QED BY <3>1, <1>4 DEF IInv, Doomed, Reasons
  <2>2. StateOf(status) \in {"Deleting", "Warning"}
    BY <2>1 DEF StateOf
  <2>3. present' = FALSE /\ status # "Other"
    BY <1>4, <2>1, ZenonT(30) DEF RemoveFinalizer
  <2> QED BY <1>4, <2>2, <2>3, ZenonT(30) DEF Lifecycle!Vanish
<1>5. IInv /\ [Next]_vars => [Lifecycle!Next]_(Lifecycle!vars)
  <2> SUFFICES ASSUME IInv, [Next]_vars, ~UNCHANGED <<present, status>>
               PROVE  Lifecycle!Next
    BY <1>1
  <2>1. CASE SetDeleting
    BY <2>1, <1>2, StatusUpdates DEF SetDeleting, Lifecycle!Next
  <2>2. CASE SetHard
    BY <2>2, <1>2, StatusUpdates DEF SetHard, Lifecycle!Next
  <2>3. CASE SetSoft
    BY <2>3, <1>2, StatusUpdates DEF SetSoft, Lifecycle!Next
  <2>4. CASE SetNotCleaned
    BY <2>4, <1>3, StatusUpdates DEF SetNotCleaned, Lifecycle!Next
  <2>5. CASE SetError
    BY <2>5, <1>3, StatusUpdates DEF SetError, Lifecycle!Next
  <2>6. CASE RemoveFinalizer
    <3>1. present /\ ~present'
      BY <2>6, ZenonT(30) DEF RemoveFinalizer
    <3> QED BY <2>6, <3>1, <1>4 DEF Lifecycle!Next
  <2>7. ~Reconcile /\ ~Restore /\ ~Apply /\ ~Proceeds
    BY DEF Reconcile, Restore, Apply, Proceeds
  <2> QED BY <2>1, <2>2, <2>3, <2>4, <2>5, <2>6, <2>7, ProceedingSteps
<1> QED
  BY <1>5, Inductive, PTL DEF Spec, FollowsLifecycle
=============================================================================
