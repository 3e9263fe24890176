----------------------------- MODULE TaskCycles -----------------------------
(***************************************************************************)
(* How the supervisor reads a task's event stream (agent_runtime.rs): the  *)
(* current working cycle, the inputs and tool results no model call has    *)
(* been given, the requests that must stop a run.  The module is pure; a   *)
(* stream is a sequence of events and an event is named by its position.   *)
(***************************************************************************)
EXTENDS Naturals, Sequences, FiniteSetsExt, TaskProjection

(* What starts a working cycle. *)
CycleBoundaries == {"TaskQueued", "ResumeRequested"}

Last(positions) == Max({0} \cup positions)

(* Mutant: a resume does not start a cycle of its own. *)
LastQueued(events) == Last({i \in DOMAIN events : events[i].kind = "TaskQueued"})

(* The position of the boundary of the current cycle; 0 when there is none.*)
CycleStart(events) ==
  Last({i \in DOMAIN events : events[i].kind \in CycleBoundaries})

(* The events of the given kinds in the current cycle. *)
InCycle(events, kinds) ==
  {i \in (CycleStart(events) + 1) .. Len(events) : events[i].kind \in kinds}

(* Inputs below the minimum control permission are not modelled here, so   *)
(* no input of the cycle has been rejected.                                *)
ContextEvents(events) == InCycle(events, {"ContextReceived"})

ContextEventsSinceLastModel(events) ==
  {i \in ContextEvents(events) : i > Last(InCycle(events, {"ModelCompleted"}))}

(* The events some model call of the cycle was given. *)
Injected(events) ==
  UNION {events[i].about : i \in InCycle(events, {"ModelCallStarted"})}

(* Mutant: the sequence of the last answer decides, as for inputs. *)
ToolResultsSinceLastModel(events) ==
  {i \in InCycle(events, {"ToolFinished"}) :
     i > Last(InCycle(events, {"ModelCompleted"}))}

PendingToolResults(events) ==
  InCycle(events, {"ToolFinished"}) \ Injected(events)

HasCancellationRequest(events) ==
  InCycle(events, {"CancellationRequested", "TaskCancelled"}) # {}

HasPauseRequest(events) == InCycle(events, {"PauseRequested"}) # {}

(* The task is queued because of a resume, not because of a new input. *)
WasResumed(events) ==
  CycleStart(events) # 0 /\ events[CycleStart(events)].kind = "ResumeRequested"

(* The submission that answers the latest approval request of the cycle;   *)
(* 0 when the request is still open or there is none.                      *)
CompletedApproval(events) ==
  LET request == Last(InCycle(events, {"ApprovalRequested"})) IN
  IF request = 0 THEN 0
  ELSE Last({i \in InCycle(events, {"ApprovalSubmitted"}) :
               i > request /\ events[i].about = {request}})

=============================================================================
