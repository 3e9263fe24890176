----------------------------- MODULE MCEventLog -----------------------------
(***************************************************************************)
(* Small instances of EventLog.                                            *)
(***************************************************************************)
EXTENDS EventLog, TLC

CONSTANTS loop, ingress

(* Runtimes are interchangeable. *)
Symmetry == Permutations(Writers)

(* A pause, a cancellation and a new input meet the end of a model turn. *)
TurnKinds ==
  {"TaskCreated", "TaskQueued", "ModelCallStarted", "TaskCompleted",
   "PauseRequested", "TaskCancelled"}

=============================================================================
