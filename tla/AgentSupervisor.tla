--------------------------- MODULE AgentSupervisor ---------------------------
(***************************************************************************)
(* The supervisor of agent runs (apps/koi-server/src/agent_runtime.rs) and *)
(* the sources that write into the same stream while a run is under way.   *)
(* One task; the loop's run is the process of AgentLoop.                   *)
(*                                                                         *)
(* The supervisor is level-triggered: an append or the end of a run makes  *)
(* it tick, a tick drains what was announced, reads the stream, reads the  *)
(* projection and acts.  Each read is a step, and both may be stale when   *)
(* it acts.                                                                *)
(***************************************************************************)
EXTENDS AgentLoop

CONSTANTS
  Controls,     (* Control and cancellation events sources may write.      *)
  MaxInputs,    (* Context inputs.  Bounds the model.                      *)
  MaxControls,  (* Control events.  Bounds the model.                      *)
  MaxApprovals, (* Approval submissions, one of a source.  Bounds the model*)
  MaxResults,   (* Results child tasks hand back.  Bounds the model.       *)
  MaxCrashes,   (* Crashes of the process.  Bounds the model.              *)
  MaxUnrecorded (* Ends and confirmations nobody could record.  Bounds the *)
                (* model.                                                  *)

ASSUME ControlsAreRequests ==
  Controls \subseteq
    {"PauseRequested", "ResumeRequested", "TaskCancelled", "CancellationRequested"}
ASSUME BoundsAreNat ==
  {MaxInputs, MaxControls, MaxApprovals, MaxResults, MaxCrashes, MaxUnrecorded}
    \subseteq Nat

VARIABLES
  tick,    (* The tick under way and the two positions it has read up to.  *)
  source,  (* The input being registered: the registrar's step and cache.  *)
  used     (* How much of each bound is used.                              *)

vars == <<log, notified, run, cancelled, tick, source, used>>

IdleTick == [pc |-> "idle", events |-> 0, seen |-> 0]
IdleSource == [pc |-> "idle", cache |-> 0]

(* bootstrap_main_session for the main conversation, the web source or the *)
(* task manager for a child: the stream exists before the first input.     *)
Created == [kind |-> "TaskCreated", about |-> {}, approved |-> FALSE,
            by |-> "system", status |-> "Created"]
Queued == [kind |-> "TaskQueued", about |-> {}, approved |-> FALSE,
           by |-> "system", status |-> "Queued"]

Init ==
  /\ log = <<Created, Queued>>
  /\ notified = TRUE
  /\ run = NoRun
  /\ cancelled = FALSE
  /\ tick = IdleTick
  /\ source = IdleSource
  /\ used = [inputs |-> 0, controls |-> 0, approvals |-> 0,
             results |-> 0, crashes |-> 0, unrecorded |-> 0]

-----------------------------------------------------------------------------
(***************************************************************************)
(* AgentSupervisor::run and tick.                                          *)
(***************************************************************************)
Prefix(n) == SubSeq(log, 1, n)

(* Drain the notifications, load the events and, when the current cycle    *)
(* holds a request to stop, cancel the run that is active.                 *)
TickLoad ==
  /\ tick.pc = "idle"
  /\ notified
  /\ notified' = FALSE
  /\ cancelled' =
       IF IsActive /\ (HasCancellationRequest(log) \/ HasPauseRequest(log))
       THEN TRUE ELSE cancelled
  /\ tick' = [pc |-> "recover", events |-> Len(log), seen |-> 0]
  /\ UNCHANGED <<log, run, source, used>>

(* TaskRuntime::recover *)
TickRecover ==
  /\ tick.pc = "recover"
  /\ tick' = [tick EXCEPT !.pc = "act", !.seen = Len(log)]
  /\ UNCHANGED <<log, notified, run, cancelled, source, used>>

(* try_start: one run per task.  A new run has a new token. *)
Spawn(mode, approval) ==
  /\ ~ IsActive
  /\ run' = [NoRun EXCEPT !.pc = "starting", !.mode = mode, !.approval = approval]
  /\ cancelled' = FALSE
  /\ UNCHANGED <<log, notified>>

(* Mutant: the pause is confirmed as soon as it is seen. *)
PauseAtOnce(events) ==
  /\ StatusAfter(tick.seen) = "Pausing"
  /\ HasPauseRequest(events)
  /\ Applies(IsMain, Current, "TaskPaused") /\ Current = "Pausing"
  /\ Publish(Event("TaskPaused", {}, FALSE, "supervisor"))
  /\ UNCHANGED <<run, cancelled>>

(* finish_pausing: only when no run is active, and with the status read    *)
(* again.                                                                  *)
FinishPausing(events) ==
  /\ StatusAfter(tick.seen) = "Pausing"
  /\ ~ IsActive
  /\ HasPauseRequest(events)
  /\ Current = "Pausing"
  /\ Publish(Event("TaskPaused", {}, FALSE, "supervisor"))
  /\ UNCHANGED <<run, cancelled>>

FinishCancelling ==
  /\ StatusAfter(tick.seen) = "Cancelling"
  /\ ~ IsActive
  /\ Applies(IsMain, Current, "TaskCancelled")
  /\ Publish(Event("TaskCancelled", {}, FALSE, "supervisor"))
  /\ UNCHANGED <<run, cancelled>>

(* Mutant: a task that was resumed without an input stays queued. *)
StartOnInput(events) ==
  /\ StatusAfter(tick.seen) = "Queued"
  /\ ContextEvents(events) # {}
  /\ Spawn("initial", 0)

StartQueued(events) ==
  /\ StatusAfter(tick.seen) = "Queued"
  /\ ContextEvents(events) # {} \/ WasResumed(events)
  /\ Spawn("initial", 0)

(* The main conversation goes on when something arrived meanwhile. *)
ContinueMain(events) ==
  /\ IsMain
  /\ StatusAfter(tick.seen) = "Running"
  /\ ContextEventsSinceLastModel(events) # {} \/ PendingToolResults(events) # {}
  /\ Spawn("initial", 0)

ResumeApproved(events) ==
  /\ StatusAfter(tick.seen) = "WaitingApproval"
  /\ CompletedApproval(events) # 0
  /\ Spawn("resume", CompletedApproval(events))

Dispatch(events) ==
  \/ StartQueued(events)
  \/ ContinueMain(events)
  \/ ResumeApproved(events)
  \/ FinishPausing(events)
  \/ FinishCancelling

(* When none of them is enabled the tick does nothing. *)
Nothing(events) ==
  \/ IsActive
  \/ CASE StatusAfter(tick.seen) = "Queued" ->
            ContextEvents(events) = {} /\ ~ WasResumed(events)
       [] StatusAfter(tick.seen) = "Running" ->
            \/ ~ IsMain
            \/ /\ ContextEventsSinceLastModel(events) = {}
               /\ PendingToolResults(events) = {}
       [] StatusAfter(tick.seen) = "WaitingApproval" ->
            CompletedApproval(events) = 0
       [] StatusAfter(tick.seen) = "Pausing" ->
            ~ HasPauseRequest(events) \/ Current # "Pausing"
       [] StatusAfter(tick.seen) = "Cancelling" ->
            ~ Applies(IsMain, Current, "TaskCancelled")
       [] OTHER -> TRUE

(* Mutant: the notifications are drained after the task was looked at. *)
TickActDrains ==
  /\ tick.pc = "act"
  /\ \/ Dispatch(Prefix(tick.events))
     \/ /\ Nothing(Prefix(tick.events))
        /\ notified' = FALSE
        /\ UNCHANGED <<log, run, cancelled>>
  /\ tick' = IdleTick
  /\ UNCHANGED <<source, used>>

TickAct ==
  /\ tick.pc = "act"
  /\ \/ Dispatch(Prefix(tick.events))
     \/ /\ Nothing(Prefix(tick.events))
        /\ UNCHANGED <<log, notified, run, cancelled>>
  /\ tick' = IdleTick
  /\ UNCHANGED <<source, used>>

-----------------------------------------------------------------------------
(***************************************************************************)
(* The sources: each call recovers a runtime of its own.                   *)
(***************************************************************************)
Count(bound) == used' = [used EXCEPT ![bound] = @ + 1]

(* IngressRegistrar::register of a context input: the runtime is recovered *)
(* ...                                                                     *)
ReceiveInput ==
  /\ source.pc = "idle"
  /\ used.inputs < MaxInputs
  /\ source' = [pc |-> "registering", cache |-> Len(log)]
  /\ Count("inputs")
  /\ UNCHANGED <<log, notified, run, cancelled, tick>>

Fits(kind) ==
  /\ Applies(IsMain, StatusAfter(source.cache), kind)
  /\ Applies(IsMain, Current, kind)

(* ... a cycle that has ended, as far as the runtime knows, is reopened;   *)
(* when that is refused the caller gets the error ...                      *)
StartNewCycle ==
  /\ source.pc = "registering"
  /\ StatusAfter(source.cache) \in TerminalStatuses
  /\ IF Fits("TaskQueued")
     THEN /\ Publish(Event("TaskQueued", {}, FALSE, "source"))
          /\ source' = [pc |-> "opened", cache |-> Len(log')]
     ELSE /\ source' = IdleSource
          /\ UNCHANGED <<log, notified>>
  /\ UNCHANGED <<run, cancelled, tick, used>>

(* ... and the input recorded.                                             *)
RecordInput ==
  /\ \/ source.pc = "opened"
     \/ /\ source.pc = "registering"
        /\ StatusAfter(source.cache) \notin TerminalStatuses
  /\ Publish(Event("ContextReceived", {}, FALSE, "source"))
  /\ source' = IdleSource
  /\ UNCHANGED <<run, cancelled, tick, used>>

(* Two appends by others between the read and the write: the caller is     *)
(* told to try again.  The other source calls have this outcome too; it    *)
(* leaves the stream as it was.                                            *)
RefuseInput ==
  /\ source.pc # "idle"
  /\ Len(log) >= source.cache + 2
  /\ source' = IdleSource
  /\ UNCHANGED <<log, notified, run, cancelled, tick, used>>

(* ControlExecutor::execute, and the registrar with a cancellation.        *)
Control(kind) ==
  /\ used.controls < MaxControls
  /\ Applies(IsMain, Current, kind)
  /\ Publish(Event(kind, {}, FALSE, "source"))
  /\ Count("controls")
  /\ UNCHANGED <<run, cancelled, tick, source>>

(* submit_approval (Web) and submit_confirmation (QQ): an answer to any    *)
(* approval request, of this cycle or of an earlier one.  Each source      *)
(* checks under a lock of its own that the request is undecided, so the    *)
(* other source, or the loop with a refusal, may decide it before the      *)
(* answer is written.                                                      *)
SubmitApproval(request, approved) ==
  /\ used.approvals < MaxApprovals
  /\ log[request].kind = "ApprovalRequested"
  /\ Applies(IsMain, Current, "ApprovalSubmitted")
  /\ Publish(Event("ApprovalSubmitted", {request}, approved, "source"))
  /\ Count("approvals")
  /\ UNCHANGED <<run, cancelled, tick, source>>

(* TaskManager::deliver_child_result: the outcome of a child task becomes  *)
(* a tool result of the main conversation, unless its cycle has ended.     *)
DeliverChildResult ==
  /\ IsMain
  /\ used.results < MaxResults
  /\ Applies(IsMain, Current, "ToolFinished")
  /\ Publish(Event("ToolFinished", {}, FALSE, "supervisor"))
  /\ Count("results")
  /\ UNCHANGED <<run, cancelled, tick, source>>

(* The process dies between two steps and starts again: the file stays,    *)
(* the first tick comes unasked, and only the main conversation is         *)
(* reopened when its cycle has ended.                                      *)
Crash ==
  /\ used.crashes < MaxCrashes
  /\ Count("crashes")
  /\ run' = NoRun
  /\ cancelled' = FALSE
  /\ tick' = IdleTick
  /\ source' = IdleSource
  /\ notified' = TRUE
  /\ log' = IF IsMain /\ Current \in TerminalStatuses
            THEN Append(log, Event("TaskQueued", {}, FALSE, "system"))
            ELSE log

(* finish_pausing or finish_cancelling whose record call (or the recovery  *)
(* before it) fails: the error is logged, and the tick is over.            *)
ConfirmationUnrecorded ==
  /\ tick.pc = "act"
  /\ StatusAfter(tick.seen) \in {"Pausing", "Cancelling"}
  /\ ~ IsActive
  /\ tick' = IdleTick
  /\ UNCHANGED <<log, notified, run, cancelled>>

(* What nobody tries to record a second time. *)
Unrecorded ==
  /\ used.unrecorded < MaxUnrecorded
  /\ Count("unrecorded")
  /\ \/ FailureUnrecorded /\ UNCHANGED tick
     \/ ConfirmationUnrecorded
  /\ UNCHANGED source

Tick == TickLoad \/ TickRecover \/ TickAct

Run == RunStep /\ UNCHANGED <<tick, source, used>>
Failure == RunFails /\ UNCHANGED <<tick, source, used>>

Register == StartNewCycle \/ RecordInput \/ RefuseInput

Environment ==
  \/ ReceiveInput
  \/ \E kind \in Controls : Control(kind)
  \/ \E request \in DOMAIN log, approved \in BOOLEAN :
       SubmitApproval(request, approved)
  \/ DeliverChildResult
  \/ Crash

Next == Tick \/ Run \/ Failure \/ Unrecorded \/ Register \/ Environment

Spec == Init /\ [][Next]_vars

(* Tokio keeps polling the supervisor and the spawned run, the model and   *)
(* the tools return or notice the token, and a request handler that has    *)
(* started goes on.  What sources send, failures and crashes are not owed. *)
Fairness == WF_vars(Tick) /\ WF_vars(Run) /\ WF_vars(Register)

FairSpec == Spec /\ Fairness

-----------------------------------------------------------------------------
Positions == 1 .. Len(log)

TypeOK ==
  /\ \A i \in DOMAIN log :
       /\ log[i].kind \in EventKinds
       /\ log[i].about \subseteq 1 .. (i - 1)
       /\ log[i].status \in Statuses
  /\ notified \in BOOLEAN
  /\ run.pc \in {"none", "starting", "loading", "turn", "retrying", "calling",
                 "answered", "proposed", "refused", "granted", "executing",
                 "asking", "requesting", "stopping", "cancelling", "givingUp",
                 "failed", "failing", "done"}
  /\ run.mode \in Modes
  /\ run.cache \in 0 .. Len(log)
  /\ run.context \subseteq Positions
  /\ {run.approval, run.proposal} \subseteq {0} \cup Positions
  /\ run.turn \in 0 .. MaxModelTurns
  /\ run.attempt \in 0 .. MaxAttempts
  /\ cancelled \in BOOLEAN
  /\ tick.pc \in {"idle", "recover", "act"}
  /\ {tick.events, tick.seen} \subseteq {0} \cup Positions
  /\ source.pc \in {"idle", "registering", "opened"}
  /\ source.cache \in 0 .. Len(log)

(* The supervisor has nothing left to do by itself. *)
Quiescent ==
  /\ ~ notified
  /\ tick.pc = "idle"
  /\ source.pc = "idle"
  /\ ~ IsActive

(* A pause is confirmed only when no run of the task is left: whoever sees *)
(* Paused knows that no model loop of the task occupies a slot.            *)
PausedMeansStopped == Current = "Paused" => ~ IsActive

(* A child never looks busy when nothing works on it: a run that leaves    *)
(* has moved its task on.  There are two exceptions, and no others: the    *)
(* process died in the middle of a run, and the event that would have      *)
(* moved the task on was lost, which the supervisor only logs.  A stop     *)
(* that was requested is confirmed even after a crash.                     *)
ChildIsNotAbandoned ==
  ~ IsMain /\ Quiescent /\ used.unrecorded = 0 =>
    /\ Current \notin {"Pausing", "Cancelling"}
    /\ Current = "Running" => used.crashes > 0

(* A result that was handed back while the main conversation was busy      *)
(* reaches the model: when everything has come to rest in Running, every   *)
(* tool result of the cycle was in the context of some call.               *)
ToolResultsReachTheModel ==
  IsMain /\ Quiescent /\ Current = "Running" =>
    \A result \in InCycle(log, {"ToolFinished"}) :
      \E call \in InCycle(log, {"ModelCallStarted"}) : result \in log[call].about

(* A tool call runs at most once, however its approval is submitted,       *)
(* resumed, interrupted and resumed again, with one exception: the run of  *)
(* a later tool call was lost between the two events that ask for its      *)
(* approval, and the answer to the earlier request is taken for the        *)
(* missing one (ApprovalIsForTheWaitingTool).                              *)
ToolRunsAgainOnlyUnasked ==
  \A j \in DOMAIN log : \A i \in 1 .. (j - 1) :
    /\ log[i].kind = "ToolStarted" /\ log[j].kind = "ToolStarted"
    /\ log[i].about = log[j].about
    => \E k \in (i + 1) .. (j - 1) :
         /\ log[k].kind = "RequireApproval"
         /\ \A n \in k .. j : log[n].kind # "ApprovalRequested"

(* A tool whose permission was found insufficient starts only after the    *)
(* source has approved the request made for that very proposal.            *)
NoToolWithoutApproval ==
  \A i \in DOMAIN log :
    log[i].kind = "ToolStarted" =>
      \A j \in 1 .. (i - 1) :
        log[j].kind = "RequireApproval" /\ log[j].about = log[i].about =>
          \E s \in j .. (i - 1) :
            /\ log[s].kind = "ApprovalSubmitted"
            /\ log[s].approved
            /\ \E r \in log[s].about : log[r].about = log[i].about

(* No call is started once the calls the stream has recorded have used the *)
(* budget up, whatever pauses, resumes, crashes and new inputs come        *)
(* between.                                                                *)
BudgetIsForTheTask ==
  \A i \in DOMAIN log :
    TokenBudget > 0 /\ log[i].kind = "ModelCallStarted" =>
      Cardinality({j \in 1 .. (i - 1) : log[j].kind = "ModelCompleted"})
        < TokenBudget

(* A pause is confirmed, or overtaken by a cancellation: it never hangs.   *)
PauseTakesEffect == Current = "Pausing" ~> Current # "Pausing"

(* A cancellation ends the cycle. *)
CancellationTakesEffect ==
  Current = "Cancelling" ~> Current \in TerminalStatuses

(* A queued task with something to work on is taken up, unless its runs    *)
(* never find a model: then each ends where it began.                      *)
QueuedIsStarted ==
  \/ []<><<ResolveModelFails>>_vars
  \/ (Current = "Queued" /\ (ContextEvents(log) # {} \/ WasResumed(log)))
       ~> Current # "Queued"

(* An approval the source has submitted is acted on, whatever crashes and  *)
(* conflicting writes come between: the task is not left waiting for it.   *)
ApprovalIsActedOn ==
  Quiescent /\ Current = "WaitingApproval" => CompletedApproval(log) = 0

-----------------------------------------------------------------------------
(***************************************************************************)
(* What comments and messages of the source promise and the code does not  *)
(* keep; each is checked by a run of its own that finds the behaviour.     *)
(***************************************************************************)

(* agent_runtime.rs, finish: what was written while a run was active is    *)
(* not left behind.  An input the main conversation receives during a      *)
(* model call is given to a later call.                                    *)
InputsReachTheModel ==
  IsMain /\ Quiescent /\ Current = "Running" =>
    ContextEvents(log) \subseteq Injected(log)

(* loop.rs, approval_submission: a submission is used only for the request *)
(* the task is waiting on.  The tool a resumed run starts is the one that  *)
(* was last found to need approval.                                        *)
ApprovalIsForTheWaitingTool ==
  \A i \in DOMAIN log :
    log[i].kind = "ToolStarted" /\ log[i - 1].status = "WaitingApproval" =>
      LET asked == Last({j \in 1 .. i : log[j].kind = "RequireApproval"}) IN
      log[i].about = log[asked].about

=============================================================================
