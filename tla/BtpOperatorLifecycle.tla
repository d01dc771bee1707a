------------------------ MODULE BtpOperatorLifecycle ------------------------
(***************************************************************************)
(* What a user of the BtpOperator CR may rely on, whatever happens inside  *)
(* the manager: nothing happens to a CR before the finalizer holds it; the *)
(* state Deleting appears only on a CR the user deleted, and once it has   *)
(* appeared there is no way back to Processing or Ready; the finalizer is  *)
(* given up only in the course of a deletion.                              *)
(***************************************************************************)
VARIABLES
  phase,    \* the CR's state; "absent" when there is no CR
  deleted,  \* the user has deleted the CR
  held,     \* the manager's finalizer is on the CR
  doomed    \* the CR has been in the state Deleting

vars == <<phase, deleted, held, doomed>>

Init == phase = "absent" /\ ~deleted /\ ~held /\ ~doomed

Create == phase = "absent" /\ phase' = "initial" /\ UNCHANGED <<deleted, held, doomed>>
Delete == phase # "absent" /\ ~deleted /\ deleted' = TRUE /\ UNCHANGED <<phase, held, doomed>>
Hold   == phase # "absent" /\ ~deleted /\ ~held /\ held' = TRUE /\ UNCHANGED <<phase, deleted, doomed>>

Start ==
  /\ phase = "initial" /\ held /\ ~doomed
  /\ phase' = "Processing"
  /\ UNCHANGED <<deleted, held, doomed>>

Work ==
  /\ phase \in {"Processing", "Ready", "Warning", "Error"} /\ held /\ ~doomed
  /\ phase' \in {"Processing", "Ready", "Warning", "Error"}
  /\ UNCHANGED <<deleted, held, doomed>>

Doom ==
  /\ phase # "absent" /\ deleted /\ (held \/ doomed)
  /\ phase' = "Deleting" /\ doomed' = TRUE
  /\ UNCHANGED <<deleted, held>>

\* A deletion that is blocked, or that failed. A CR that something else keeps
\* may still get these states from a pass that began before the release.
Struggle ==
  /\ doomed
  /\ phase' \in {"Warning", "Error"}
  /\ UNCHANGED <<deleted, held, doomed>>

Release ==
  /\ held /\ doomed /\ phase \in {"Deleting", "Warning"}
  /\ held' = FALSE
  /\ UNCHANGED <<phase, deleted, doomed>>

\* The API server drops a deleted CR once nothing holds it, in the same step
\* as the deletion or the release where nothing else holds it.
Vanish ==
  /\ phase # "absent"
  /\ ~held \/ (doomed /\ phase \in {"Deleting", "Warning"})
  /\ phase' = "absent" /\ deleted' = FALSE /\ held' = FALSE /\ doomed' = FALSE

Next == Create \/ Delete \/ Hold \/ Start \/ Work \/ Doom \/ Struggle \/ Release \/ Vanish
Spec == Init /\ [][Next]_vars
=============================================================================
