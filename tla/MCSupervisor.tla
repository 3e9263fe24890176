----------------------------- MODULE MCSupervisor -----------------------------
(***************************************************************************)
(* Small instances of AgentSupervisor over the same variables: a behaviour *)
(* is one of the instance "part" names.  The first is given by the         *)
(* configuration: a child whose tools need approval, with failures, or,    *)
(* for StopSpec, a child that is told to pause, resume and stop.           *)
(***************************************************************************)
EXTENDS MCAgentSupervisor

VARIABLE part

(* The main conversation: two calls of a budget of two, tools that are     *)
(* allowed, inputs, a result handed back and a crash.                      *)
MainConversation == INSTANCE AgentSupervisor WITH
  IsMain <- TRUE, MaxModelTurns <- 2, MaxAttempts <- 0, TokenBudget <- 2,
  Verdicts <- Allowing, Failures <- FALSE, Controls <- NoControls, MaxInputs <- 2,
  MaxControls <- 0, MaxApprovals <- 0, MaxResults <- 1, MaxCrashes <- 1,
  MaxUnrecorded <- 0

(* A child with any verdict, a failure anywhere, a retry, a request to     *)
(* stop and an end or a confirmation that cannot be recorded.              *)
FailingChild == INSTANCE AgentSupervisor WITH
  MaxModelTurns <- 1, MaxAttempts <- 1, TokenBudget <- 0,
  Verdicts <- AnyVerdict, Failures <- TRUE, Controls <- StopRequests, MaxInputs <- 1,
  MaxControls <- 1, MaxApprovals <- 0, MaxResults <- 0, MaxCrashes <- 0,
  MaxUnrecorded <- 1

(* A child whose tool needs approval, one approval, a request to stop and  *)
(* a crash: its run is lost between any two of the events of an approval   *)
(* or of a stop, and is resumed.                                           *)
RestartedChild == INSTANCE AgentSupervisor WITH
  IsMain <- FALSE, MaxModelTurns <- 1, MaxAttempts <- 0, TokenBudget <- 0,
  Verdicts <- Asking, Failures <- TRUE, Controls <- StopRequests, MaxInputs <- 1,
  MaxControls <- 1, MaxApprovals <- 1, MaxResults <- 0, MaxCrashes <- 1,
  MaxUnrecorded <- 0

SupervisorInit == Init /\ part \in {"approvals", "main", "failures", "restarts"}
SupervisorNext ==
  /\ UNCHANGED part
  /\ \/ part = "approvals" /\ Next
     \/ part = "main" /\ MainConversation!Next
     \/ part = "failures" /\ FailingChild!Next
     \/ part = "restarts" /\ RestartedChild!Next
SupervisorSpec == SupervisorInit /\ [][SupervisorNext]_<<vars, part>>

-----------------------------------------------------------------------------
(* ToolRunsAgainOnlyUnasked, NoToolWithoutApproval, ApprovalIsActedOn and  *)
(* PausedMeansStopped do not depend on the constants and hold in all four. *)

(* Of the main conversation: results reach the model, whatever it is busy  *)
(* with when they come.                                                    *)
MainSeesToolResults ==
  part = "main" => MainConversation!ToolResultsReachTheModel /\ MainConversation!TypeOK

(* Of the main conversation: the budget is not passed by a crash or by new *)
(* inputs.                                                                 *)
MainKeepsItsBudget == part = "main" => MainConversation!BudgetIsForTheTask

(* Of the children: none looks busy when nothing works on it.              *)
ChildrenAreNotAbandoned == part # "main" => ChildIsNotAbandoned

-----------------------------------------------------------------------------
(* The main conversation with an input, a request, every failure and a     *)
(* crash, after which it is reopened or goes on.                           *)
RestartedMain == INSTANCE AgentSupervisor WITH
  IsMain <- TRUE, MaxModelTurns <- 1, MaxAttempts <- 0, TokenBudget <- 0,
  Verdicts <- NoTools, Failures <- TRUE, Controls <- AllControls, MaxInputs <- 1,
  MaxControls <- 1, MaxApprovals <- 0, MaxResults <- 0, MaxCrashes <- 1,
  MaxUnrecorded <- 0

StopInit == Init /\ part \in {"child", "restarted"}
StopNext ==
  /\ UNCHANGED part
  /\ \/ part = "child" /\ Next
     \/ part = "restarted" /\ RestartedMain!Next
(* The fairness of AgentSupervisor, owed to the instance that acts. *)
StopFairness ==
  /\ WF_vars(part = "child" /\ Tick) /\ WF_vars(part = "child" /\ Run)
  /\ WF_vars(part = "child" /\ Register)
  /\ WF_vars(part = "restarted" /\ RestartedMain!Tick)
  /\ WF_vars(part = "restarted" /\ RestartedMain!Run)
  /\ WF_vars(part = "restarted" /\ RestartedMain!Register)
StopSpec == StopInit /\ [][StopNext]_<<vars, part>> /\ StopFairness

(* PauseTakesEffect and CancellationTakesEffect are the same formula for   *)
(* both.                                                                   *)

(* What is queued is started, unless its runs never find a model.          *)
QueuedTasksAreStarted ==
  /\ part = "child" => QueuedIsStarted
  /\ part = "restarted" => RestartedMain!QueuedIsStarted

=============================================================================
