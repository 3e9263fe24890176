------------------------------ MODULE AgentLoop ------------------------------
(***************************************************************************)
(* One run of the agent loop (agent/loop.rs) over the event stream of its  *)
(* task.  A run is spawned by the supervisor, holds a TaskRuntime whose    *)
(* projection may lag behind the stream, calls the model, runs the tools   *)
(* the model asks for and leaves when the turn is over, when approval is   *)
(* needed, or when its token is cancelled.                                 *)
(*                                                                         *)
(* EventLog shows what a record call does step by step; here it is one     *)
(* step with the same outcomes.  Events without any effect on the status   *)
(* (Validated, the Allow decision, compaction, a failed tool's result) are *)
(* not written out.                                                        *)
(***************************************************************************)
EXTENDS FiniteSets, TaskCycles

CONSTANTS
  IsMain,         (* The task is the main conversation.                    *)
  MaxModelTurns,  (* AgentRunRequest.max_model_turns.                      *)
  MaxAttempts,    (* MAX_RETRYABLE_MODEL_ATTEMPTS; 0 when no call fails.   *)
  TokenBudget,    (* token_budget_per_task, in calls; 0 for no budget.     *)
  Verdicts,       (* What permission checks may say of a tool call.        *)
  Failures,       (* Model calls and tools may fail, a model be missing.   *)
  MaxCalls        (* Model calls of the task.  Bounds the model.           *)

ASSUME RunBounds ==
  /\ MaxModelTurns \in Nat \ {0}
  /\ {MaxAttempts, TokenBudget, MaxCalls} \subseteq Nat
ASSUME VerdictsAreDecisions == Verdicts \subseteq {"deny", "allow", "ask"}
ASSUME SwitchesAreBoolean == {IsMain, Failures} \subseteq BOOLEAN

VARIABLES
  log,       (* The task's stream.                                         *)
  notified,  (* The supervisor has a notification or a wake to answer.     *)
  run,       (* The run that owns the task's execution slot.               *)
  cancelled  (* Its cancellation token.                                    *)

loopVars == <<log, notified, run, cancelled>>

Modes == {"initial", "resume"}

NoRun == [pc |-> "none", mode |-> "initial", approval |-> 0, cache |-> 0,
          context |-> {}, turn |-> 0, attempt |-> 0, proposal |-> 0]

IsActive == run.pc # "none"

(* The status of the first n events; each event carries what it leads to.  *)
StatusAfter(n) == IF n = 0 THEN "New" ELSE log[n].status
Current == StatusAfter(Len(log))

Event(kind, about, approved, by) ==
  [kind |-> kind, about |-> about, approved |-> approved, by |-> by,
   status |-> Target(Current, kind)]

(* A successful append, which the store announces to its subscribers. *)
Publish(event) ==
  /\ log' = Append(log, event)
  /\ notified' = TRUE

(***************************************************************************)
(* TaskRuntime::record on the run's own runtime.  The event must apply to  *)
(* the cached projection and, when that is stale, to the stream as it is;  *)
(* two appends by others can make even the retry fail.                     *)
(***************************************************************************)
Accepted(kind) ==
  /\ Applies(IsMain, StatusAfter(run.cache), kind)
  /\ Applies(IsMain, Current, kind)

MayConflictTwice == Len(log) >= run.cache + 2

(* Record the event and continue as next, or leave with the error. *)
Record(kind, about, next) ==
  \/ /\ Accepted(kind)
     /\ Publish(Event(kind, about, FALSE, "loop"))
     /\ run' = [next EXCEPT !.cache = Len(log')]
     /\ UNCHANGED cancelled
  \/ /\ ~ Accepted(kind) \/ MayConflictTwice
     /\ run' = [run EXCEPT !.pc = "failing"]
     /\ UNCHANGED <<log, notified, cancelled>>

(* A step that records nothing. *)
Go(pc) ==
  /\ run' = [run EXCEPT !.pc = pc]
  /\ UNCHANGED <<log, notified, cancelled>>

-----------------------------------------------------------------------------
(***************************************************************************)
(* Starting.                                                               *)
(***************************************************************************)

(* What run_internal and resume_after_approval ask of the task's status.   *)
(* A stream without TaskCreated never reaches a run.                       *)
Admitted(status) ==
  CASE run.mode = "resume" -> status = "WaitingApproval"
    [] run.mode = "initial" /\ IsMain -> status \notin TerminalStatuses
    [] run.mode = "initial" /\ ~ IsMain -> status = "Queued"

(* execute_*: recover the runtime, resolve the model, check the status.    *)
RecoverRuntime ==
  /\ run.pc = "starting"
  /\ run' = [run EXCEPT !.cache = Len(log),
                        !.pc = IF Admitted(Current) THEN "loading" ELSE "failing"]
  /\ UNCHANGED <<log, notified, cancelled>>

(* resolve_model: the task's selected model is not configured any more.    *)
ResolveModelFails ==
  /\ Failures
  /\ run.pc = "starting"
  /\ Go("failing")

(* Inputs and tool results the context assembler takes from the stream.    *)
Visible == {i \in DOMAIN log : log[i].kind \in {"ContextReceived", "ToolFinished"}}

(* Mutant: the submission is not bound to the latest approval request. *)
BoundToAnyRequest(submission) ==
  log[submission].about # {}

(* approval_submission: the submission must answer the latest request of   *)
(* the stream.                                                             *)
BoundToLatestRequest(submission) ==
  log[submission].about =
    {Last({i \in DOMAIN log : log[i].kind = "ApprovalRequested"})}

(* Mutant: having an answer is taken for having a consent. *)
AnyAnswer(submission) == "granted"

(* approval_submission_approved *)
Answer(submission) == IF log[submission].approved THEN "granted" ELSE "refused"

(* build_initial_context, and for a resume the binding of the approval to  *)
(* the tool call that was proposed; an approval that does not carry enough *)
(* permission is refused like one that was denied.                         *)
LoadContext ==
  /\ run.pc = "loading"
  /\ \/ /\ run.mode = "initial"
        /\ run' = [run EXCEPT !.context = Visible, !.pc = "turn"]
     \/ /\ run.mode = "resume"
        /\ BoundToLatestRequest(run.approval)
        /\ \E request \in log[run.approval].about :
           \E proposal \in log[request].about :
           \E verdict \in {Answer(run.approval), "refused"} :
             run' = [run EXCEPT !.context = Visible,
                                !.proposal = proposal,
                                !.pc = verdict]
     \/ /\ run.mode = "resume"
        /\ ~ BoundToLatestRequest(run.approval)
        /\ run' = [run EXCEPT !.pc = "failing"]
  /\ UNCHANGED <<log, notified, cancelled>>

-----------------------------------------------------------------------------
(***************************************************************************)
(* run_turns and call_model.                                               *)
(***************************************************************************)

(* The calls the runtime's projection has seen; a call costs one token. *)
Usage ==
  Cardinality({i \in 1 .. run.cache : log[i].kind = "ModelCompleted"})

(* Mutant: only the calls of the current cycle count. *)
CycleUsage ==
  TokenBudget > 0 /\ Cardinality(InCycle(log, {"ModelCompleted"})) >= TokenBudget

OverBudget == TokenBudget > 0 /\ Usage >= TokenBudget

StopAtTurn ==
  /\ run.pc = "turn"
  /\ run.turn < MaxModelTurns
  /\ cancelled
  /\ Go("stopping")

(* Mutant: running out of turns is taken for the end of the task. *)
TurnLimitEndsRun ==
  /\ run.pc = "turn"
  /\ run.turn = MaxModelTurns
  /\ Go("done")

TurnLimit ==
  /\ run.pc = "turn"
  /\ run.turn = MaxModelTurns
  /\ Go("givingUp")

(* check_token_budget, before a turn and again after the model's answer.   *)
BudgetExceeded ==
  /\ \/ run.pc = "turn" /\ run.turn < MaxModelTurns /\ ~ cancelled
     \/ run.pc = "answered"
  /\ OverBudget
  /\ Record("BudgetExceeded", {}, [run EXCEPT !.pc = "done"])

Calls == Cardinality({i \in DOMAIN log : log[i].kind = "ModelCallStarted"})

StartCall ==
  /\ run.pc = "turn"
  /\ run.turn < MaxModelTurns
  /\ ~ cancelled
  /\ ~ OverBudget
  /\ Calls < MaxCalls
  /\ Record("ModelCallStarted", run.context,
            [run EXCEPT !.pc = "calling", !.turn = @ + 1, !.attempt = 0])

RetryCall ==
  /\ run.pc = "retrying"
  /\ ~ cancelled
  /\ Record("ModelCallStarted", run.context,
            [run EXCEPT !.pc = "calling", !.attempt = @ + 1])

StopAtCall ==
  /\ run.pc \in {"calling", "retrying"}
  /\ cancelled
  /\ Go("stopping")

CallFails ==
  /\ Failures
  /\ run.pc = "calling"
  /\ \/ /\ run.attempt < MaxAttempts
        /\ Record("ModelFailed", {}, [run EXCEPT !.pc = "retrying"])
     \/ Record("ModelFailed", {}, [run EXCEPT !.pc = "givingUp"])

(* The token is looked at before the last item of the model's stream, so   *)
(* an answer may be recorded after it was cancelled.                       *)
ModelAnswers ==
  /\ run.pc = "calling"
  /\ Record("ModelCompleted", {}, [run EXCEPT !.pc = "answered"])

(* No tool call: the turn is over.  The main conversation stays open. *)
AnswerText ==
  /\ run.pc = "answered"
  /\ ~ OverBudget
  /\ IF IsMain THEN Go("done")
     ELSE Record("TaskCompleted", {}, [run EXCEPT !.pc = "done"])

-----------------------------------------------------------------------------
(***************************************************************************)
(* Tool calls, one per turn.                                               *)
(***************************************************************************)
ProposeTool ==
  /\ Verdicts # {}
  /\ run.pc = "answered"
  /\ ~ OverBudget
  /\ ~ cancelled
  /\ Record("ToolProposed", {},
            [run EXCEPT !.pc = "proposed", !.proposal = Len(log) + 1])

StopBeforeTool ==
  /\ Verdicts # {}
  /\ run.pc = "answered"
  /\ ~ OverBudget
  /\ cancelled
  /\ Go("stopping")

(* handle_tool_call: unregistered tools and missing evidence are refused,  *)
(* sufficient permission runs the tool, the rest asks the source.          *)
CheckTool ==
  /\ run.pc = "proposed"
  /\ \/ "deny" \in Verdicts /\ Go("refused")
     \/ "allow" \in Verdicts /\ Go("granted")
     \/ /\ "ask" \in Verdicts
        /\ Record("RequireApproval", {run.proposal}, [run EXCEPT !.pc = "asking"])

(* deny_tool *)
DenyTool ==
  /\ run.pc = "refused"
  /\ Record("ToolDenied", {run.proposal}, [run EXCEPT !.pc = "turn"])

(* execute_tool *)
StartTool ==
  /\ run.pc = "granted"
  /\ Record("ToolStarted", {run.proposal}, [run EXCEPT !.pc = "executing"])

FinishTool ==
  /\ run.pc = "executing"
  /\ Record("ToolFinished", {run.proposal},
            [run EXCEPT !.pc = "turn", !.context = @ \cup {Len(log) + 1}])

(* A failed tool goes into the context of this run only: its event is not  *)
(* a result that is pending later.                                         *)
ToolFails ==
  /\ Failures
  /\ run.pc = "executing"
  /\ Go("turn") \/ (MayConflictTwice /\ Go("failing"))

(* begin_approval_flow *)
RequestApproval ==
  /\ run.pc = "asking"
  /\ Record("ApprovalRequested", {run.proposal}, [run EXCEPT !.pc = "requesting"])

(* request_authorization: the sources of src answer Pending or Denied.     *)
AskSource ==
  /\ run.pc = "requesting"
  /\ Go("done") \/ Go("refused")

-----------------------------------------------------------------------------
(***************************************************************************)
(* Leaving.                                                                *)
(***************************************************************************)

(* Mutant: the cached projection is trusted. *)
CancelFromCache ==
  /\ run.pc = "stopping"
  /\ run' = [run EXCEPT !.pc =
       IF StatusAfter(run.cache) \in TerminalStatuses \cup {"Pausing"}
       THEN "done" ELSE "cancelling"]
  /\ UNCHANGED <<log, notified, cancelled>>

(* record_cancelled: refresh, then write TaskCancelled unless the cycle    *)
(* has ended or is being paused.                                           *)
RefreshForCancel ==
  /\ run.pc = "stopping"
  /\ run' = [run EXCEPT !.cache = Len(log), !.pc =
       IF Current \in TerminalStatuses \cup {"Pausing"} THEN "done"
       ELSE "cancelling"]
  /\ UNCHANGED <<log, notified, cancelled>>

RecordCancelled ==
  /\ run.pc = "cancelling"
  /\ Record("TaskCancelled", {}, [run EXCEPT !.pc = "done"])

(* record_failed: as above; the run's error is reported in any case. *)
RefreshForFailure ==
  /\ run.pc = "givingUp"
  /\ run' = [run EXCEPT !.cache = Len(log), !.pc =
       IF Current \in TerminalStatuses \cup {"Pausing"} THEN "failing"
       ELSE "failed"]
  /\ UNCHANGED <<log, notified, cancelled>>

RecordFailed ==
  /\ run.pc = "failed"
  /\ Record("TaskFailed", {}, [run EXCEPT !.pc = "failing"])

(* AgentSupervisor::fail_task_if_needed with a fresh runtime: a task that  *)
(* has ended, is paused or about to be is left alone, and so is one that   *)
(* TaskFailed does not apply to.                                           *)
FailTaskIfNeeded ==
  /\ run.pc = "failing"
  /\ IF /\ Current \notin TerminalStatuses \cup {"Pausing", "Paused"}
        /\ Applies(IsMain, Current, "TaskFailed")
     THEN Publish(Event("TaskFailed", {}, FALSE, "loop"))
     ELSE UNCHANGED <<log, notified>>
  /\ run' = [run EXCEPT !.pc = "done"]
  /\ UNCHANGED cancelled

(* The same when its record call fails, by two appends of others or by an  *)
(* I/O error (or the recovery before it): the error is only logged, and    *)
(* the run ends with its task as it was.                                   *)
FailureUnrecorded ==
  /\ run.pc = "failing"
  /\ Go("done")

(* Mutant: the slot is released without waking the supervisor. *)
FinishSilently ==
  /\ run.pc = "done"
  /\ run' = NoRun
  /\ cancelled' = FALSE
  /\ UNCHANGED <<log, notified>>

(* finish_run: the slot is free and the supervisor looks again. *)
Finish ==
  /\ run.pc = "done"
  /\ run' = NoRun
  /\ cancelled' = FALSE
  /\ notified' = TRUE
  /\ UNCHANGED log

RunStep ==
  \/ RecoverRuntime \/ LoadContext
  \/ StopAtTurn \/ TurnLimit \/ BudgetExceeded \/ StartCall \/ RetryCall
  \/ StopAtCall \/ ModelAnswers \/ AnswerText
  \/ ProposeTool \/ StopBeforeTool \/ CheckTool \/ DenyTool
  \/ StartTool \/ FinishTool \/ RequestApproval \/ AskSource
  \/ RefreshForCancel \/ RecordCancelled
  \/ RefreshForFailure \/ RecordFailed \/ FailTaskIfNeeded \/ Finish

RunFails == ResolveModelFails \/ CallFails \/ ToolFails

=============================================================================
