----------------------------- MODULE TaskManager -----------------------------
(***************************************************************************)
(* Operations on child tasks (agent/task_manager.rs and the task.* tools   *)
(* of agent/loop.rs).  An operation is requested, carried out and answered *)
(* by separate appends to two streams: the main conversation's, which      *)
(* audits it, and the child's, which it is about.  The loop of the main    *)
(* conversation and the web source both carry out operations; the          *)
(* supervisor hands the result of an ended child back to the tool call     *)
(* that started it; children run and end meanwhile.                        *)
(*                                                                         *)
(* A record call is one step here: it appends a legal event, or returns an *)
(* error.  The error may be that the event is illegal or that the sequence *)
(* conflicts twice, or come from the disk; then the event may have been    *)
(* stored all the same (EventLog shows what a call does in between,        *)
(* JsonlStore what an I/O error leaves).                                   *)
(***************************************************************************)
EXTENDS Naturals, Sequences, FiniteSets, TaskProjection

CONSTANTS
  Children,        (* Ids of child tasks.                                  *)
  Operations,      (* Operations that are requested.                       *)
  Controls,        (* Control events that are sent to children.            *)
  MaxOperations,   (* Operations.  Bounds the model.                       *)
  MaxCalls,        (* Model calls of children.  Bounds the model.          *)
  MaxTroubles,     (* Records that conflict twice or meet an I/O error,    *)
                   (* crashes, ends and new cycles of the main             *)
                   (* conversation.  Bounds the model.                     *)
  MaxInAll         (* Operations, calls and troubles together.  Bounds it. *)

Managers == {"loop", "web"}
Main == "main"
NoTask == "none"

AllOperations == {"create", "input", "name", "control", "delete"}

(* The control events a task operation may carry. *)
ManageableControls ==
  {"PauseRequested", "ResumeRequested", "TaskCancelled", "ModelSelected",
   "MinimumControlPermissionChanged"}

ASSUME ChildrenAssumption == Main \notin Children /\ NoTask \notin Children
ASSUME OperationsAssumption == Operations \subseteq AllOperations
ASSUME ControlsAssumption == Controls \subseteq ManageableControls

VARIABLES
  main,      (* The main stream, as far as it is about operations.         *)
  stream,    (* The stream of each child; empty when it has no file.       *)
  status,    (* What the streams project to.                               *)
  manager,   (* Where the loop and the web source are in an operation.     *)
  courier,   (* Where the supervisor is in deliver_child_result.           *)
  running,   (* Children with a run of the agent loop.                     *)
  deleted,   (* Children whose stream has been removed.  History only.     *)
  used       (* How much of each bound is used.                            *)

vars == <<main, stream, status, manager, courier, running, deleted, used>>

Idle ==
  [at |-> "idle", op |-> "none", task |-> NoTask, seen |-> "New",
   pos |-> [Requested |-> 0, Accepted |-> 0, Started |-> 0]]
NoDelivery == [task |-> NoTask, started |-> 0]

Init ==
  /\ main = <<>>
  /\ stream = [t \in Children |-> <<>>]
  /\ status = [t \in Children \cup {Main} |-> IF t = Main THEN "Running" ELSE "New"]
  /\ manager = [m \in Managers |-> Idle]
  /\ courier = NoDelivery
  /\ running = {}
  /\ deleted = {}
  /\ used = [operations |-> 0, calls |-> 0, troubles |-> 0]

-----------------------------------------------------------------------------
(***************************************************************************)
(* Recording.                                                              *)
(***************************************************************************)
MainKind(kind) ==
  CASE kind \in {"Requested", "Accepted", "Rejected"} -> "TaskOperation"
    [] kind = "Started" -> "ToolStarted"
    [] OTHER -> "ToolFinished"

FitsMain(kind) == Applies(TRUE, status[Main], MainKind(kind))

(* Validated against what was read before and, after a conflict, again.    *)
FitsChild(t, seen, kind) ==
  Applies(FALSE, seen, kind) /\ Applies(FALSE, status[t], kind)

AppendMain(event) ==
  /\ main' = Append(main, event)
  /\ status' = [status EXCEPT ![Main] = Target(@, MainKind(event.kind))]

(* known is history: whether the record call returned without an error.    *)
AppendChild(t, kind, cause, known) ==
  /\ stream' = [stream EXCEPT ![t] =
                  Append(@, [kind |-> kind, cause |-> cause, known |-> known])]
  /\ status' = [status EXCEPT ![t] = Target(@, kind)]

Goto(m, at) == manager' = [manager EXCEPT ![m].at = at]

(* The operation is over: the record call's error, or the tool's outcome.  *)
Leave(m) == manager' = [manager EXCEPT ![m] = Idle]

(* Only the loop goes on to record the outcome of a tool call. *)
Over(m, at) == at = "idle" \/ (m = "web" /\ at \in {"done", "refused"})

Proceed(m, at) == IF Over(m, at) THEN Leave(m) ELSE Goto(m, at)

Bounds == [operations |-> MaxOperations, calls |-> MaxCalls, troubles |-> MaxTroubles]

Count(bound) ==
  /\ used[bound] < Bounds[bound]
  /\ used.operations + used.calls + used.troubles < MaxInAll
  /\ used' = [used EXCEPT ![bound] = @ + 1]

Trouble == Count("troubles")

(* A record call returns an error and nothing is stored. *)
RecordFails(fits, m, otherwise) ==
  /\ \/ ~ fits /\ UNCHANGED used
     \/ Trouble
  /\ Proceed(m, otherwise)
  /\ UNCHANGED <<main, stream, status, courier, running, deleted>>

(* It returns an I/O error that came after the event's line was written.   *)
FailsAfterStoring(m, otherwise) ==
  /\ Trouble
  /\ Proceed(m, otherwise)
  /\ UNCHANGED <<courier, running, deleted>>

-----------------------------------------------------------------------------
(***************************************************************************)
(* The records an operation makes in the main stream.                      *)
(***************************************************************************)
MainRecords ==
  [allocate |-> "Accepted", accept |-> "Accepted", reject |-> "Rejected",
   bind     |-> "Started",  acknowledge |-> "Output",
   done     |-> "Started",  finish   |-> "Finished",
   refused  |-> "Started",  fail     |-> "Failed"]

(* Mutant: the child is created without a start to bind its result to. *)
CreateUnbound(m) == "create"

(* The tool call records its start before the child exists. *)
AfterAllocation(m) == IF m = "loop" THEN "bind" ELSE "create"

Then(m, at) ==
  CASE at = "allocate" -> AfterAllocation(m)
    [] at = "accept"   -> "done"
    [] at = "reject"   -> "refused"
    [] at = "bind"     -> "create"
    [] at = "done"     -> "finish"
    [] at = "refused"  -> "fail"
    [] OTHER           -> "idle"

(* Mutant: an operation whose acceptance cannot be written is rejected. *)
RejectUnaccepted(at) ==
  IF at = "accept" THEN "reject"
  ELSE IF at \in {"allocate", "reject"} THEN "refused"
  ELSE "idle"

(* Where it goes on when the record fails: an error of the manager is      *)
(* reported as the tool's failure, any other ends the run.                 *)
Otherwise(at) ==
  IF at \in {"allocate", "accept", "reject"} THEN "refused" ELSE "idle"

(* What an event is about: the request it answers, the acceptance a child  *)
(* is created for, the start a tool's outcome belongs to.                  *)
About(m, at) ==
  LET pos == manager[m].pos IN
  CASE at \in {"allocate", "accept", "reject"}    -> pos.Requested
    [] at = "bind"                                -> pos.Accepted
    [] at \in {"acknowledge", "finish", "fail"}   -> pos.Started
    [] OTHER                                      -> 0

(* Ids are new. *)
Allocated == {main[i].task : i \in {j \in DOMAIN main : main[j].op = "create"}}

(* The positions a manager has after it has appended an event of a kind.   *)
Noted(pos, kind) ==
  [k \in DOMAIN pos |-> IF k = kind THEN Len(main) + 1 ELSE pos[k]]

RecordMain(m) ==
  LET at == manager[m].at
      kind == MainRecords[at] IN
  /\ at \in DOMAIN MainRecords
  /\ \/ /\ FitsMain(kind)
        /\ \E t \in IF at = "allocate" THEN Children \ Allocated
                                       ELSE {manager[m].task} :
             /\ AppendMain([kind |-> kind, by |-> m, op |-> manager[m].op,
                            task |-> t, about |-> About(m, at)])
             /\ \/ /\ IF Over(m, Then(m, at)) THEN Leave(m)
                      ELSE manager' = [manager EXCEPT ![m] =
                             [@ EXCEPT !.at = Then(m, at), !.task = t,
                                       !.pos = Noted(manager[m].pos, kind)]]
                   /\ UNCHANGED <<courier, running, deleted, used>>
                \/ FailsAfterStoring(m, Otherwise(at))
        /\ UNCHANGED stream
     \/ RecordFails(FitsMain(kind), m, Otherwise(at))

(* A tool call or a request of the web page: record_request. *)
Request(m, op, t) ==
  /\ manager[m].at = "idle"
  /\ m = "loop" => status[Main] \notin TerminalStatuses
  /\ m = "web" => op \in {"create", "name", "delete"}
  /\ \/ /\ AppendMain([kind |-> "Requested", by |-> m, op |-> op, task |-> t, about |-> 0])
        /\ \/ /\ Count("operations")
              /\ manager' = [manager EXCEPT ![m] =
                   [@ EXCEPT !.at = IF op = "create" THEN "allocate" ELSE "recover",
                             !.op = op, !.task = t, !.pos.Requested = Len(main) + 1]]
              /\ UNCHANGED <<courier, running, deleted>>
           \/ FailsAfterStoring(m, "refused")
        /\ UNCHANGED stream
     \/ m = "loop" /\ RecordFails(FitsMain("Requested"), m, "refused")

(***************************************************************************)
(* Carrying the operation out.                                             *)
(***************************************************************************)
StillExecuting == {"Running", "Pausing", "Cancelling"}

Refusable(op, t) ==
  \/ stream[t] = <<>>
  \/ op = "name" /\ status[t] \in TerminalStatuses
  \/ op = "delete" /\ status[t] \in StillExecuting
  \/ op = "input"  (* The authority of the input is not what it should be. *)

(* request_*_child up to the child's recovery. *)
Recover(m) ==
  LET op == manager[m].op
      t == manager[m].task IN
  /\ manager[m].at = "recover"
  /\ \/ Refusable(op, t) /\ Goto(m, "reject")
     \/ /\ stream[t] # <<>>
        /\ op = "input" \/ ~ Refusable(op, t)
        /\ manager' = [manager EXCEPT ![m] = [@ EXCEPT !.at = "apply", !.seen = status[t]]]
  /\ UNCHANGED <<main, stream, status, courier, running, deleted, used>>

(* Mutant: the error of the child's record is overlooked. *)
AcceptAnyway(op) == "accept"

(* A control that cannot be recorded is rejected; for the others the error *)
(* is returned and the request stays without an answer.                    *)
WhenNotApplied(op) == IF op = "control" THEN "reject" ELSE "refused"

EffectKinds(op) ==
  CASE op = "name"    -> {"TaskNamed"}
    [] op = "input"   -> {"ContextReceived"}
    [] op = "control" -> Controls
    [] OTHER          -> {}

(* The effect on the child's stream. *)
Apply(m) ==
  LET op == manager[m].op
      t == manager[m].task
      seen == manager[m].seen IN
  /\ manager[m].at = "apply"
  /\ op = "input" => seen \notin TerminalStatuses
  /\ \E kind \in EffectKinds(op) :
       \/ /\ FitsChild(t, seen, kind)
          /\ AppendChild(t, kind, manager[m].pos.Requested, TRUE)
          /\ Goto(m, "accept")
          /\ UNCHANGED <<main, courier, running, deleted, used>>
       \/ /\ FitsChild(t, seen, kind)
          /\ AppendChild(t, kind, manager[m].pos.Requested, FALSE)
          /\ FailsAfterStoring(m, WhenNotApplied(op))
          /\ UNCHANGED main
       \/ RecordFails(FitsChild(t, seen, kind), m, WhenNotApplied(op))

(* start_new_cycle_if_terminal before an input. *)
OpenCycle(m) ==
  LET t == manager[m].task
      seen == manager[m].seen IN
  /\ manager[m].at = "apply" /\ manager[m].op = "input"
  /\ seen \in TerminalStatuses
  /\ \/ /\ FitsChild(t, seen, "TaskQueued")
        /\ AppendChild(t, "TaskQueued", manager[m].pos.Requested, TRUE)
        /\ manager' = [manager EXCEPT ![m].seen = "Queued"]
        /\ UNCHANGED <<main, courier, running, deleted, used>>
     \/ /\ FitsChild(t, seen, "TaskQueued")
        /\ AppendChild(t, "TaskQueued", manager[m].pos.Requested, FALSE)
        /\ FailsAfterStoring(m, "reject")
        /\ UNCHANGED main
     \/ RecordFails(FitsChild(t, seen, "TaskQueued"), m, "reject")

(* delete_task removes the file, whatever happened since the status was    *)
(* read.                                                                   *)
Delete(m) ==
  LET t == manager[m].task IN
  /\ manager[m].at = "apply" /\ manager[m].op = "delete"
  /\ stream' = [stream EXCEPT ![t] = <<>>]
  /\ status' = [status EXCEPT ![t] = "New"]
  /\ deleted' = deleted \cup {t}
  /\ Goto(m, "accept")
  /\ UNCHANGED <<main, courier, running, used>>

(* bootstrap_child_task, and its counterpart in the web source. *)
CreateChild(m) ==
  LET t == manager[m].task
      seen == manager[m].seen
      create == manager[m].at = "create"
      kind == IF create THEN "TaskCreated" ELSE "TaskQueued"
      cause == IF create THEN manager[m].pos.Accepted ELSE 0 IN
  /\ manager[m].at \in {"create", "queue"}
  /\ \/ /\ FitsChild(t, seen, kind)
        /\ AppendChild(t, kind, cause, TRUE)
        /\ IF create
           THEN manager' = [manager EXCEPT ![m] = [@ EXCEPT !.at = "queue", !.seen = "Created"]]
           ELSE IF m = "loop" THEN Goto(m, "acknowledge") ELSE Leave(m)
        /\ UNCHANGED <<main, courier, running, deleted, used>>
     \/ /\ FitsChild(t, seen, kind)
        /\ AppendChild(t, kind, cause, FALSE)
        /\ FailsAfterStoring(m, "idle")
        /\ UNCHANGED main
     \/ RecordFails(FitsChild(t, seen, kind), m, "idle")

Manage(m) ==
  \/ RecordMain(m) \/ Recover(m) \/ Apply(m) \/ OpenCycle(m)
  \/ Delete(m) \/ CreateChild(m)

-----------------------------------------------------------------------------
(***************************************************************************)
(* deliver_child_result.                                                   *)
(***************************************************************************)
OutcomeKinds == {"TaskCompleted", "TaskFailed", "TaskCancelled", "TaskExpired"}

(* Mutant: only the last event of the child is looked at. *)
LastIsOutcome(t) ==
  stream[t] # <<>> /\ stream[t][Len(stream[t])].kind \in OutcomeKinds

(* child_outcome_summary finds one. *)
HasOutcome(t) == \E i \in DOMAIN stream[t] : stream[t][i].kind \in OutcomeKinds

(* The starts bound to the acceptance the child was created for. *)
Starts(t) ==
  {s \in DOMAIN main :
     /\ main[s].kind = "Started"
     /\ \E i \in DOMAIN stream[t] :
          /\ stream[t][i].kind = "TaskCreated"
          /\ stream[t][i].cause = main[s].about}

(* Mutant: the supervisor does not look for an earlier delivery. *)
NeverDelivered(s) == FALSE

Delivered(s) == \E i \in DOMAIN main : main[i].kind = "Finished" /\ main[i].about = s

(* The tick's conditions, and the reads of the two streams. *)
Deliver(t) ==
  /\ courier = NoDelivery
  /\ status[t] \in TerminalStatuses /\ t \notin running
  /\ status[Main] \notin TerminalStatuses
  /\ HasOutcome(t)
  /\ \E s \in Starts(t) :
       /\ ~ Delivered(s)
       /\ courier' = [task |-> t, started |-> s]
  /\ UNCHANGED <<main, stream, status, manager, running, deleted, used>>

RecordResult ==
  /\ courier # NoDelivery
  /\ \/ /\ FitsMain("Finished")
        /\ AppendMain([kind |-> "Finished", by |-> "supervisor", op |-> "deliver",
                       task |-> courier.task, about |-> courier.started])
        /\ UNCHANGED used \/ Trouble
     \/ /\ \/ ~ FitsMain("Finished") /\ UNCHANGED used
           \/ Trouble
        /\ UNCHANGED <<main, status>>
  /\ courier' = NoDelivery
  /\ UNCHANGED <<stream, manager, running, deleted>>

-----------------------------------------------------------------------------
(***************************************************************************)
(* What goes on meanwhile (AgentLoop and AgentSupervisor have the detail). *)
(***************************************************************************)
RunKinds == {"ModelCallStarted", "TaskCompleted"}

(* A run of a child records; it also does so when the stream has gone.     *)
Run(t, kind) ==
  /\ t \in running \/ (kind = "ModelCallStarted" /\ status[t] = "Queued")
  /\ Applies(FALSE, status[t], kind)
  /\ AppendChild(t, kind, 0, TRUE)
  /\ IF kind = "TaskCompleted"
     THEN running' = running \ {t} /\ UNCHANGED used
     ELSE /\ running' = running \cup {t}
          /\ Count("calls")
  /\ UNCHANGED <<main, manager, courier, deleted>>

(* It leaves when its events are no longer legal. *)
RunEnds(t) ==
  /\ t \in running
  /\ ~ Applies(FALSE, status[t], "TaskCompleted")
  /\ running' = running \ {t}
  /\ UNCHANGED <<main, stream, status, manager, courier, deleted, used>>

(* Sources end the main conversation's cycle and open the next one. *)
EndOrReopenMain ==
  /\ Trouble
  /\ status' = [status EXCEPT ![Main] = IF @ \in TerminalStatuses THEN "Queued" ELSE "Cancelled"]
  /\ UNCHANGED <<main, stream, manager, courier, running, deleted>>

Crash ==
  /\ Trouble
  /\ manager' = [m \in Managers |-> Idle]
  /\ courier' = NoDelivery
  /\ running' = {}
  /\ UNCHANGED <<main, stream, status, deleted>>

Next ==
  \/ \E m \in Managers :
       \/ Manage(m)
       \/ \E op \in Operations \ {"create"}, t \in Allocated \ {NoTask} : Request(m, op, t)
       \/ Cardinality(Children) > used.operations /\ Request(m, "create", NoTask)
  \/ \E t \in Children :
       Deliver(t) \/ RunEnds(t) \/ \E kind \in RunKinds : Run(t, kind)
  \/ RecordResult \/ EndOrReopenMain \/ Crash

Spec == Init /\ [][Next]_vars

(* The supervisor ticks again after every event and at the end of a run,   *)
(* and a tick looks at every task.                                         *)
FairSpec ==
  /\ Spec
  /\ \A t \in Children : WF_vars(Deliver(t))
  /\ \A t \in Children : WF_vars(RunEnds(t))
  /\ WF_vars(RecordResult)

-----------------------------------------------------------------------------
Places == DOMAIN MainRecords \cup {"idle", "recover", "apply", "create", "queue"}

TypeOK ==
  /\ \A i \in DOMAIN main :
       /\ main[i].kind \in {"Requested"} \cup {MainRecords[at] : at \in DOMAIN MainRecords}
       /\ main[i].task \in Children \cup {NoTask}
       /\ main[i].about \in 0 .. i - 1
  /\ \A t \in Children : \A i \in DOMAIN stream[t] :
       /\ stream[t][i].kind \in EventKinds /\ stream[t][i].cause \in 0 .. Len(main)
       /\ stream[t][i].known \in BOOLEAN
  /\ status \in [Children \cup {Main} -> Statuses]
  /\ \A m \in Managers : manager[m].at \in Places /\ manager[m].task \in Children \cup {NoTask}
  /\ courier = NoDelivery \/ courier.started \in DOMAIN main
  /\ running \cup deleted \subseteq Children

Applied(request, t) == \E i \in DOMAIN stream[t] : stream[t][i].cause = request

(* What the main stream shows as accepted has happened in the child's      *)
(* stream, although the two are written one after the other and a crash    *)
(* may come between (an operation on a child that has been deleted since   *)
(* has left nothing to look for).                                          *)
AcceptedMeansDone ==
  \A i \in DOMAIN main :
    (/\ main[i].kind = "Accepted"
     /\ main[i].op \in {"input", "name", "control"}
     /\ main[i].task \notin deleted)
    => Applied(main[i].about, main[i].task)

(* Its effect was recorded without an error. *)
Confirmed(request, t) ==
  \E i \in DOMAIN stream[t] : stream[t][i].cause = request /\ stream[t][i].known

(* What it shows as rejected has left nothing in the child's stream whose  *)
(* record had succeeded: whatever fails after the effect, an operation     *)
(* that is known to be done is not rejected, and the model may ask for a   *)
(* rejected one again.  (It can be done without that being known: an I/O   *)
(* error may come after the line was written, and request_control_child    *)
(* takes every error for a refusal.)                                       *)
RejectedMeansNotDone ==
  \A i \in DOMAIN main :
    main[i].kind = "Rejected" /\ main[i].task # NoTask
    => ~ Confirmed(main[i].about, main[i].task)

(* A child exists only after the main stream has accepted it, and one that *)
(* task.start created only after the tool call that will be given its      *)
(* result has started: no crash leaves a child that nothing accounts for.  *)
ChildIsAccountedFor ==
  \A t \in Children : \A i \in DOMAIN stream[t] :
    stream[t][i].kind = "TaskCreated" =>
      LET accepted == main[stream[t][i].cause] IN
      /\ accepted.kind = "Accepted" /\ accepted.op = "create" /\ accepted.task = t
      /\ accepted.by = "loop" => Starts(t) # {}

(* The result of a child is handed back once, and a tool call has one      *)
(* outcome.                                                                *)
OneOutcomePerStart ==
  \A i, j \in DOMAIN main :
    (/\ main[i].kind \in {"Finished", "Failed"} /\ main[j].kind \in {"Finished", "Failed"}
     /\ main[i].about = main[j].about)
    => i = j

(* A child has ended, its start is waiting for the result, and the main    *)
(* conversation can take it.                                               *)
Owed(t) ==
  /\ status[t] \in TerminalStatuses /\ t \notin running
  /\ status[Main] \notin TerminalStatuses
  /\ \E i \in DOMAIN stream[t] : stream[t][i].kind \in OutcomeKinds
  /\ \E s \in Starts(t) : ~ \E i \in DOMAIN main : main[i].kind = "Finished" /\ main[i].about = s

(* No result stays undelivered, whatever conflicts with the delivery, and  *)
(* although the main conversation may end and be reopened meanwhile.       *)
ResultIsDelivered == \A t \in Children : []<>(~ Owed(t))

=============================================================================
