---------------------------- MODULE MCTaskManager ----------------------------
(***************************************************************************)
(* Small instances of TaskManager.                                         *)
(***************************************************************************)
EXTENDS TaskManager

CONSTANTS c1, c2

(* One control that ends the cycle and one that an ended cycle accepts. *)
CancelOrSelectModel == {"TaskCancelled", "ModelSelected"}

=============================================================================
