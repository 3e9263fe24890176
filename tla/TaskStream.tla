----------------------------- MODULE TaskStream -----------------------------
(***************************************************************************)
(* What the event store and TaskRuntime promise together: however many     *)
(* runtimes of one task record events at once, the task has one stream     *)
(* that only grows, one event at a time, and each event is legal in the    *)
(* status the stream projected to when it was appended.                    *)
(***************************************************************************)
EXTENDS Sequences, TaskProjection

CONSTANTS
  IsMain,  (* The task is the main conversation (TaskId::is_main). *)
  Kinds    (* Kinds of events that are recorded.                   *)

VARIABLES
  stream,  (* The kinds of the events of the stream, in order. *)
  status   (* The status the stream projects to.               *)

vars == <<stream, status>>

(* Cross-task operations are recorded in the main stream only. *)
Recordable == IF IsMain THEN Kinds ELSE Kinds \ TaskManagementKinds

Init == stream = <<>> /\ status = "New"

Extend(kind) ==
  /\ Applies(IsMain, status, kind)
  /\ stream' = Append(stream, kind)
  /\ status' = Target(status, kind)

Next == \E kind \in Recordable : Extend(kind)

Spec == Init /\ [][Next]_vars

=============================================================================
