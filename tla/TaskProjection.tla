--------------------------- MODULE TaskProjection ---------------------------
(***************************************************************************)
(* The status a task's event stream projects to (domain/task.rs).  The     *)
(* module is pure: an event is represented by its kind, because the status *)
(* machine looks at nothing else, and a whole stream is replayed by        *)
(* folding Project over it.  Events that never touch the status (usage,    *)
(* titles, deltas, tool audit) keep one representative kind each.          *)
(***************************************************************************)

TerminalStatuses == {"Completed", "Failed", "Cancelled", "Expired"}

LiveStatuses ==
  {"New", "Created", "Queued", "Running", "WaitingApproval",
   "Pausing", "Paused", "Cancelling"}

Statuses == LiveStatuses \cup TerminalStatuses

(* What replaying a stream gives when some event of it cannot be applied.  *)
Unreadable == "Unreadable"

(***************************************************************************)
(* Event kinds.                                                            *)
(***************************************************************************)

(* Requested / Accepted / Rejected of a cross-task operation. *)
TaskManagementKinds == {"TaskOperation"}

(* Settings of the conversation rather than results of a cycle. *)
ConfigurationKinds == {"ModelSelected", "MinimumControlPermissionChanged"}

(* ContextReceived with a user message, an alert or a system event: the    *)
(* kinds of context that start a new cycle.                                *)
CycleInputKinds == {"ContextReceived"}

EventKinds ==
  TaskManagementKinds \cup ConfigurationKinds \cup CycleInputKinds \cup
  {"TaskCreated", "TaskQueued", "ResumeRequested", "PauseRequested",
   "TaskPaused", "TaskResumed", "TaskNamed", "InputRejected",
   "ContextCompacted", "TaskCompleted", "TaskFailed", "BudgetExceeded",
   "TaskCancelled", "TaskExpired", "ToolResultReceived",
   "CancellationRequested", "ApprovalSubmitted",
   "ModelCallStarted", "ModelCompleted", "ModelFailed",
   "ToolProposed", "ToolStarted", "ToolFinished", "ToolDenied",
   "RequireApproval", "ApprovalRequested"}

(***************************************************************************)
(* TaskProjection::apply: what a terminal status still accepts.  Every     *)
(* other event of an ended cycle is refused with TerminalTask.             *)
(***************************************************************************)
AcceptedWhenTerminal(isMain) ==
  {"TaskQueued", "ContextCompacted"}
    \cup CycleInputKinds
    \cup ConfigurationKinds
    \cup (IF isMain THEN TaskManagementKinds ELSE {})

(***************************************************************************)
(* TaskProjection::apply_payload.  A pause that is being carried out       *)
(* outranks the outcome of the turn it interrupts: while Pausing, the      *)
(* closing events of the turn and the ones that would show it running or   *)
(* waiting are stored but move nothing.                                    *)
(***************************************************************************)
MaskedByPausing ==
  {"TaskCompleted", "TaskFailed", "BudgetExceeded", "ModelCallStarted",
   "ToolStarted", "RequireApproval", "ApprovalRequested"}

Requested(kind) ==
  CASE kind = "TaskCreated"                           -> "Created"
    [] kind \in {"TaskQueued", "ResumeRequested"}     -> "Queued"
    [] kind = "PauseRequested"                        -> "Pausing"
    [] kind = "TaskPaused"                            -> "Paused"
    [] kind \in {"TaskResumed", "ModelCallStarted", "ToolStarted"} -> "Running"
    [] kind \in {"RequireApproval", "ApprovalRequested"} -> "WaitingApproval"
    [] kind = "CancellationRequested"                 -> "Cancelling"
    [] kind = "TaskCompleted"                         -> "Completed"
    [] kind \in {"TaskFailed", "BudgetExceeded"}      -> "Failed"
    [] kind = "TaskCancelled"                         -> "Cancelled"
    [] kind = "TaskExpired"                           -> "Expired"

StatusKinds ==
  {"TaskCreated", "TaskQueued", "ResumeRequested", "PauseRequested",
   "TaskPaused", "TaskResumed", "ModelCallStarted", "ToolStarted",
   "RequireApproval", "ApprovalRequested", "CancellationRequested",
   "TaskCompleted", "TaskFailed", "BudgetExceeded", "TaskCancelled",
   "TaskExpired"}

(* The status the event asks for; the present one when it asks for none.   *)
Target(status, kind) ==
  IF status = "Pausing" /\ kind \in MaskedByPausing THEN status
  ELSE IF status \in TerminalStatuses /\ kind \in CycleInputKinds THEN "Queued"
  ELSE IF kind \in StatusKinds THEN Requested(kind)
  ELSE status

(* Mutant: a task that is being paused may be queued again at once. *)
SuccessorsWithRequeue(status) ==
  CASE status = "New"       -> {"Created"}
    [] status = "Created"   -> {"Queued", "Running", "Cancelled"}
    [] status \in {"Queued", "Paused", "Pausing"} ->
         {"Queued", "Running", "Pausing", "Paused", "Cancelled", "Expired"}
    [] status \in {"Running", "WaitingApproval"} ->
         LiveStatuses \cup TerminalStatuses
    [] status = "Cancelling" -> {"Cancelled", "Failed", "Expired"}
    [] status \in TerminalStatuses -> {"Queued"}

(***************************************************************************)
(* TaskProjection::transition.                                             *)
(***************************************************************************)
Successors(status) ==
  CASE status = "New"       -> {"Created"}
    [] status = "Created"   -> {"Queued", "Running", "Cancelled"}
    [] status \in {"Queued", "Paused"} ->
         {"Queued", "Running", "Pausing", "Cancelling", "Cancelled", "Expired"}
    [] status = "Running"   ->
         {"WaitingApproval", "Pausing", "Paused", "Cancelling"}
           \cup TerminalStatuses
    [] status = "WaitingApproval" ->
         {"Running", "Pausing", "Paused", "Cancelling", "Cancelled", "Expired"}
    [] status = "Pausing"    -> {"Paused", "Cancelled", "Expired"}
    [] status = "Cancelling" -> {"Cancelled", "Failed", "Expired"}
    [] status \in TerminalStatuses -> {"Queued"}

Allowed(from, to) == from = to \/ to \in Successors(from)

(***************************************************************************)
(* The event applies: apply returns Ok.                                    *)
(***************************************************************************)
Applies(isMain, status, kind) ==
  /\ status \in TerminalStatuses => kind \in AcceptedWhenTerminal(isMain)
  /\ Allowed(status, Target(status, kind))

(* One step of the replay; a stream that broke once stays broken.          *)
Project(isMain, status, kind) ==
  IF status # Unreadable /\ Applies(isMain, status, kind)
    THEN Target(status, kind)
    ELSE Unreadable

=============================================================================
