-------------------------- MODULE ToolAuthorization --------------------------
(***************************************************************************)
(* Who may make the agent do what: inputs are registered with a permission *)
(* the core assesses, the model proposes tools and names the event it acts *)
(* for, the loop follows that event to its root, asks the source for a     *)
(* supplementary authorization when the root is too weak, and uses the     *)
(* approval it gets (ports/ingress.rs, agent/authorization.rs,             *)
(* domain/authorization.rs, agent/injection.rs, agent/control.rs and the   *)
(* authorization half of agent/loop.rs), with the Web and the QQ source as *)
(* adapters.                                                               *)
(*                                                                         *)
(* The events of the main conversation and of one child are one sequence,  *)
(* an event's identity its index; events that carry no authority and are   *)
(* no boundary of one (Validated, Started of nothing, Finished, ...) are   *)
(* left out.  Nothing expires: no caller in src/ gives an expires_at to an *)
(* event that can be a parent.                                             *)
(***************************************************************************)
EXTENDS Integers, Sequences, FiniteSets

CONSTANTS
  Sources,           \* the registered external sources
  SourceMaximum,     \* [Sources -> Levels], the maximum each may suggest
  Principals,        \* the identities of the directory
  SourceOf,          \* [Principals -> Sources]
  Directory,         \* [Principals -> Levels]
  SourceDefault,     \* [Sources -> Levels], for inputs without an identity
  Providers,         \* the sources that can ask a user for authorization
  Operations,        \* a tool together with its arguments
  Required,          \* [Operations -> Levels]
  Drafts,            \* the inputs adapters submit: [task, kind, source, who, suggested, place]
  Groups,            \* the groups of QQ, of the places a message can come from
  Changes,           \* the changes of a minimum permission: [task, who, level]
  Suggestions,       \* the permissions users suggest in an answer
  MaxInputs,         \* bound: inputs and changes
  MaxProposals,      \* bound: tools the model proposes
  MaxEvents          \* bound: events

VARIABLES
  log,               \* the stored events of both tasks, in order
  minimum,           \* the minimum control permission of each task
  unrefused,         \* inputs whose InputRejected is still to be written
  loop               \* the run of each task: phase and what it holds

vars == <<log, minimum, unrefused, loop>>

Tasks == {"main", "child"}
Levels == 0..4
None == 0
User == 1
Operator == 2
Admin == 3
System == 4
NoEvent == 0
Nobody == "nobody"
Nowhere == "nowhere"
Web == "web"
QQ == "qq"
AnyOperation == -1           \* a grant for whatever comes later
Delegation == "task.input"   \* the task tool that gives a child an input

ContextKinds == {"UserMessage", "Alert", "ToolResult", "SystemEvent"}
\* is_cycle_input, is_permission_gated_input
GatedKinds == {"UserMessage", "Alert", "SystemEvent"}
External(e) == e.creator \in Sources
Smaller(a, b) == IF a < b THEN a ELSE b
Larger(a, b) == IF a > b THEN a ELSE b

\* PermissionAssessment::new: never above the suggestion, the source's
\* maximum and what the directory knows of the identity.
Assess(suggested, source, who) ==
  LET identity == IF who = Nobody THEN SourceDefault[source] ELSE Directory[who]
  IN [source |-> SourceMaximum[source], identity |-> identity,
      effective |-> Smaller(suggested, Smaller(SourceMaximum[source], identity))]
NoAssessment == [source |-> None, identity |-> None, effective |-> None]

Event(t, kind, creator) ==
  [task |-> t, kind |-> kind, creator |-> creator, who |-> Nobody,
   place |-> Nowhere, assessment |-> NoAssessment, parent |-> NoEvent, request |-> NoEvent,
   proposal |-> NoEvent, op |-> Delegation, approved |-> FALSE,
   grant |-> NoEvent, low |-> FALSE]

Idle == [phase |-> "idle", seen |-> {}, inputs |-> {}, mark |-> 0,
         proposal |-> NoEvent, request |-> NoEvent]
Room(n) == Len(log) + n <= MaxEvents
OfKind(k) == {i \in 1..Len(log) : log[i].kind = k}
InputsLeft == Cardinality({i \in 1..Len(log) : log[i].kind \notin {"ApprovalSubmitted", "InputRejected"}
                                              /\ External(log[i])}) < MaxInputs

\* The first event is the system prompt the host writes into the main
\* conversation.
Init ==
  /\ log = <<[Event("main", "SystemEvent", "System") EXCEPT
               !.assessment = [source |-> System, identity |-> System, effective |-> System]]>>
  /\ minimum = [t \in Tasks |-> User]
  /\ unrefused = {}
  /\ loop = [t \in Tasks |-> [Idle EXCEPT !.mark = 1]]

\* What the configuration and the adapters see to.  Only the tools of the task
\* manager require no permission, and no adapter submits a system event.
ConstantsFit ==
  /\ Sources \cap {"Model", "Tool", "System"} = {}
  /\ SourceMaximum \in [Sources -> Levels] /\ SourceDefault \in [Sources -> Levels]
  /\ Directory \in [Principals -> Levels] /\ SourceOf \in [Principals -> Sources]
  /\ Nobody \notin Principals /\ Delegation \notin Operations
  /\ Required \in [Operations \cup {Delegation} -> Levels]
  /\ \A op \in Operations : Required[op] # None
  /\ \A d \in Drafts :
       /\ d.task \in Tasks
       /\ d.kind \in {"UserMessage", "Alert", "ToolResult", "CancellationRequested"}
       /\ d.source \in Sources /\ d.who \in Principals \cup {Nobody}
       /\ d.suggested \in Levels
  /\ \A c \in Changes : c.task \in Tasks /\ c.who \in Principals /\ c.level \in Levels
  /\ Suggestions \subseteq Levels

-----------------------------------------------------------------------------
\* What is injected into the model's context, and so what the model may name.
Injected(i, t) ==
  LET e == log[i]
  IN /\ e.task = t
     /\ \/ /\ e.kind \in GatedKinds
           /\ e.assessment.effective >= minimum[t]
        \/ e.kind \in {"ToolResult", "ApprovalSubmitted", "CancellationRequested"}
Visible(t) == {i \in 1..Len(log) : Injected(i, t)}

\* evidence_from_event: what an event is worth by itself.
EventClass(e) ==
  CASE e.kind \in ContextKinds \cup {"ApprovalSubmitted", "CancellationRequested"} -> "Ingress"
    [] e.kind \in {"InputRejected", "MinimumControlPermissionChanged"} -> "Control"
    [] OTHER -> "Tool"
DirectPermission(e) ==
  CASE e.creator = "System" -> System
    [] External(e) -> e.assessment.effective
    [] OTHER -> None
\* Mutant: an approval counts whatever its decision.
RefusalCounts(e) ==
  CASE EventClass(e) = "Control" -> DirectPermission(e)
    [] EventClass(e) = "Tool" \/ e.kind \in {"ToolResult", "CancellationRequested"} -> None
    [] OTHER -> DirectPermission(e)
EventPermission(e) ==
  CASE EventClass(e) = "Control" -> DirectPermission(e)
    [] EventClass(e) = "Tool" \/ e.kind \in {"ToolResult", "CancellationRequested"} -> None
    [] e.kind = "ApprovalSubmitted" -> IF e.approved THEN e.assessment.effective ELSE None
    [] OTHER -> DirectPermission(e)
EvidenceOf(i) ==
  LET e == log[i]
      input == EventClass(e) = "Ingress" /\ e.kind # "ToolResult" /\ External(e)
  IN [class |-> EventClass(e), creator |-> e.creator,
      who |-> IF input THEN e.who ELSE Nobody,
      source |-> IF input THEN e.assessment.source ELSE None,
      identity |-> IF input THEN e.assessment.identity ELSE None,
      permission |-> EventPermission(e), parent |-> e.parent,
      request |-> e.request, grant |-> e.grant]
\* Mutant: system events can be parents.
AnyIngressCanBeParent(ev) == ev.class # "Control"
CanBeParent(ev) == ev.class # "Control" /\ ev.creator # "System"

\* resolve_authority_chain: up to the event that has no parent.  A control or
\* a system event anywhere on the way gives nothing at all.
MaxAuthorityDepth == 16
\* What is met on the way up from an event, and NoEvent above the root.
Path(events, i, depth) ==
  LET up[n \in 0..depth] ==
        IF n = 0 THEN i ELSE IF up[n - 1] = NoEvent THEN NoEvent ELSE events[up[n - 1]].parent
  IN up
ResolveAuthorityChain(i) ==
  LET chain == {Path(log, i, MaxAuthorityDepth)[n] : n \in 0..(MaxAuthorityDepth - 1)} \ {NoEvent}
      roots == {j \in chain : log[j].parent = NoEvent}
      evidence == {EvidenceOf(j) : j \in roots}
  IN IF \A j \in chain : CanBeParent(EvidenceOf(j))
     THEN {IF ev.creator \in {"Model", "Tool"} THEN [ev EXCEPT !.permission = None] ELSE ev :
             ev \in evidence}
     ELSE {}

\* PermissionChecker::check: the strongest usable evidence must reach the tool.
EffectivePermission(evidence) ==
  LET levels == {ev.permission : ev \in evidence} \cup {None}
  IN CHOOSE l \in levels : \A k \in levels : k <= l
Allowed(op, evidence) == EffectivePermission(evidence) >= Required[op]

\* approval_grant_matches_tool_call.  Both adapters store a grant with every
\* approval, so the approvals without one of older versions do not occur.
GrantMatches(ev, op) ==
  \/ ev.request = NoEvent
  \/ ev.grant = AnyOperation
  \/ ev.grant # NoEvent /\ ev.grant # AnyOperation /\ log[ev.grant].op = op

\* authorization_request_sources, of those the loop has a provider for.
\* Mutant: the identity's own maximum is forgotten.
SourcesWithoutIdentity(op, evidence) ==
  {ev.creator : ev \in {x \in evidence :
     x.class = "Ingress" /\ x.creator \in Sources /\ x.source >= Required[op]}} \cap Providers
AuthorizationSources(op, evidence) ==
  {ev.creator : ev \in {x \in evidence :
     /\ x.class = "Ingress" /\ x.creator \in Sources /\ x.who # Nobody
     /\ x.source >= Required[op] /\ x.identity >= Required[op]}} \cap Providers

-----------------------------------------------------------------------------
\* can_access_record: who may control a task may see it.
CanAccess(who, t) == Directory[who] >= minimum[t]

\* IngressRegistrar::register for a message, an alert, a cancellation request or
\* a returned result; the Web source lets a user reach only the tasks he may
\* see.  An input below the minimum is stored all the same, and its rejection
\* is a second append.
Register(d) ==
  LET a == Assess(IF d.kind = "ToolResult" THEN None ELSE d.suggested, d.source, d.who)
      low == d.kind \in GatedKinds /\ a.effective < minimum[d.task]
  IN /\ Room(1) /\ InputsLeft
     /\ d.source = Web => CanAccess(d.who, d.task)
     /\ log' = Append(log, [Event(d.task, d.kind, d.source) EXCEPT
                              !.who = d.who, !.place = d.place, !.assessment = a, !.low = low])
     /\ unrefused' = IF low THEN unrefused \cup {Len(log')} ELSE unrefused
     /\ UNCHANGED <<minimum, loop>>

RejectInput(i) ==
  /\ i \in unrefused /\ Room(1)
  /\ log' = Append(log, [Event(log[i].task, "InputRejected", "System") EXCEPT !.request = i])
  /\ unrefused' = unrefused \ {i}
  /\ UNCHANGED <<minimum, loop>>

\* ControlExecutor::execute with the authority of a signed-in user.
ExecuteControl(c) ==
  /\ Room(1) /\ InputsLeft
  /\ Directory[c.who] # None
  /\ CanAccess(c.who, c.task)
  /\ c.level >= User /\ Directory[c.who] >= c.level
  /\ minimum' = [minimum EXCEPT ![c.task] = c.level]
  /\ log' = Append(log, [Event(c.task, "MinimumControlPermissionChanged", SourceOf[c.who]) EXCEPT
                !.who = c.who, !.assessment = Assess(Directory[c.who], SourceOf[c.who], c.who)])
  /\ UNCHANGED <<unrefused, loop>>

\* approval_decision: the latest answer to the request, or a refusal of the tool.
Decided(request) ==
  \/ \E i \in OfKind("ApprovalSubmitted") : log[i].request = request
  \/ \E i \in OfKind("Denied") : log[i].proposal = log[request].proposal

\* approval_requester: the identity of the event the tool call names itself.
Requester(request) ==
  LET parent == log[log[request].proposal].parent
  IN IF parent = NoEvent THEN Nobody ELSE log[parent].who

MayAnswer(who, request, suggested) ==
  /\ log[request].kind = "ApprovalRequested"
  /\ CanAccess(who, log[request].task)
  /\ suggested \in User..Directory[who]
  /\ Requester(request) # Nobody /\ SourceOf[Requester(request)] = Web
       => Requester(request) = who
  /\ ~Decided(request)

Approval(who, request, suggested, approved, grant) ==
  [Event(log[request].task, "ApprovalSubmitted", SourceOf[who]) EXCEPT
     !.who = who, !.assessment = Assess(suggested, SourceOf[who], who), !.request = request,
     !.approved = approved, !.grant = grant]

\* KoiWebSource::submit_approval: a grant for this operation names its proposal.
SubmitApproval(who, request, suggested, approved, grant) ==
  /\ Room(1) /\ SourceOf[who] = Web
  /\ MayAnswer(who, request, suggested)
  /\ grant \in IF approved THEN {AnyOperation, log[request].proposal} ELSE {NoEvent}
  /\ log' = Append(log, Approval(who, request, suggested, approved, grant))
  /\ UNCHANGED <<minimum, unrefused, loop>>

\* pending_approval_from_events: where a request is confirmed, the place of the
\* input its tool call names, or else of the latest QQ message before it.
PlaceOf(request) ==
  LET parent == log[log[request].proposal].parent
      messages == {i \in 1..request : log[i].task = log[request].task /\ log[i].creator = QQ
                                        /\ log[i].kind \in ContextKinds}
  IN IF parent # NoEvent /\ log[parent].kind \in ContextKinds THEN log[parent].place
     ELSE IF messages = {} THEN Nowhere
     ELSE log[CHOOSE i \in messages : \A j \in messages : j <= i].place
MayConfirm(who, request) ==
  /\ log[request].kind = "ApprovalRequested"
  /\ Directory[who] >= Operator /\ PlaceOf(request) \in Groups
  /\ ~Decided(request)
\* QqSource::handle_confirmation: this one, or whatever waits in the group,
\* which is no more than one request, as only the main conversation has inputs
\* from QQ and it waits for one answer at a time.
Confirm(who, request, grant) ==
  /\ Room(1) /\ SourceOf[who] = QQ
  /\ MayConfirm(who, request)
  /\ grant \in {AnyOperation, log[request].proposal}
  /\ log' = Append(log, Approval(who, request, Operator, TRUE, grant))
  /\ UNCHANGED <<minimum, unrefused, loop>>

-----------------------------------------------------------------------------
\* context_events: inputs of this cycle that no run was started for and that
\* have not been rejected.
Rejected == {log[i].request : i \in OfKind("InputRejected")}
NewInputs(t) == {i \in (loop[t].mark + 1)..Len(log) :
                  log[i].task = t /\ log[i].kind \in ContextKinds /\ i \notin Rejected}

\* AgentSupervisor::tick and AgentLoop::build_initial_context; the run before
\* ended with its last turn.
StartRun(t) ==
  /\ loop[t].phase \in {"idle", "turn"} /\ NewInputs(t) # {}
  /\ loop' = [loop EXCEPT ![t] = [Idle EXCEPT !.phase = "turn", !.seen = Visible(t),
                                    !.inputs = NewInputs(t), !.mark = Len(log)]]
  /\ UNCHANGED <<log, minimum, unrefused>>

\* The model may name any event it has seen, one it has not, or none.
Propose(t, op, parent) ==
  /\ loop[t].phase = "turn" /\ Room(2) /\ Cardinality(OfKind("Proposed")) < MaxProposals
  /\ op = Delegation => t = "main"
  /\ log' = Append(log, [Event(t, "Proposed", "Model") EXCEPT !.op = op, !.parent = parent])
  /\ loop' = [loop EXCEPT ![t].phase = "proposed", ![t].proposal = Len(log')]
  /\ UNCHANGED <<minimum, unrefused>>

Settle(t, kind, seen) ==
  /\ log' = Append(log, [Event(t, kind, "Tool") EXCEPT !.proposal = loop[t].proposal])
  /\ loop' = [loop EXCEPT ![t].phase = "turn", ![t].seen = seen]
Deny(t) == Settle(t, "Denied", loop[t].seen)
Start(t) == Settle(t, "Started", loop[t].seen)

\* direct_external_input_permission: only a user's message or an alert of the
\* main conversation may authorize what a child is told.
IsDirectInput(i) ==
  /\ log[i].task = "main" /\ External(log[i])
  /\ log[i].kind \in {"UserMessage", "Alert"} /\ log[i].assessment.effective # None
\* task.input and TaskManager::request_input_child.
Delegate(t) ==
  LET parent == log[loop[t].proposal].parent
      usable == {ev \in IF parent = NoEvent THEN {} ELSE ResolveAuthorityChain(parent) :
                   ev.permission # None}
  IN IF usable # {} /\ IsDirectInput(parent)
     THEN /\ log' = Append(log, [Event("child", "UserMessage", "Model") EXCEPT
                                   !.parent = parent, !.assessment = log[parent].assessment])
          /\ loop' = [loop EXCEPT ![t].phase = "turn"]
     ELSE Deny(t)

\* handle_tool_call: Validated, resolve_evidence, the grant, the permission.
CheckTool(t) ==
  LET p == loop[t].proposal
      op == log[p].op
      evidence == ResolveAuthorityChain(p)
      inContext == log[p].parent \in loop[t].seen \cup {NoEvent}
      granted == \A ev \in evidence : GrantMatches(ev, op)
  IN /\ loop[t].phase = "proposed" /\ Room(1)
     /\ IF ~inContext \/ ~granted THEN Deny(t)
        ELSE IF op = Delegation THEN Delegate(t)
        ELSE IF Allowed(op, evidence) THEN Start(t)
        ELSE IF AuthorizationSources(op, evidence) = {} THEN Deny(t)
        ELSE /\ log' = Append(log, [Event(t, "ApprovalRequested", "System") EXCEPT !.proposal = p])
             /\ loop' = [loop EXCEPT ![t].phase = "asking", ![t].request = Len(log')]
     /\ UNCHANGED <<minimum, unrefused>>

\* request_authorization: the source shows the request and answers later, says
\* no, or names an event the core then checks itself.  QQ shows a request in
\* the group the input it is for came from, and none beyond an operator's.
Shows(source, p) ==
  source = QQ => Required[log[p].op] <= Operator /\ log[p].parent # NoEvent
                 /\ log[log[p].parent].kind \in ContextKinds /\ log[log[p].parent].place \in Groups
SourceDefers(t) ==
  /\ loop[t].phase = "asking"
  /\ LET p == loop[t].proposal
     IN \E source \in AuthorizationSources(log[p].op, ResolveAuthorityChain(p)) : Shows(source, p)
  /\ loop' = [loop EXCEPT ![t].phase = "waiting"]
  /\ UNCHANGED <<log, minimum, unrefused>>
SourceDenies(t) ==
  /\ loop[t].phase = "asking" /\ Room(1)
  /\ Deny(t)
  /\ UNCHANGED <<minimum, unrefused>>
SourceAuthorizes(t, a) ==
  LET p == loop[t].proposal
      evidence == ResolveAuthorityChain(p) \cup {EvidenceOf(a)}
  IN /\ loop[t].phase = "asking" /\ Room(1) /\ log[a].task = t
     /\ IF log[a].request = loop[t].request /\ Allowed(log[p].op, evidence)
        THEN Start(t) ELSE Deny(t)
     /\ UNCHANGED <<minimum, unrefused>>

\* resume_after_approval, once the answer's request is known to be the latest;
\* the run that goes on has read the answer too.
\* When the event the proposal names is no longer in the context the run fails
\* and the task goes on waiting.
Suffices(t, answer, evidence) ==
  LET op == log[loop[t].proposal].op
  IN answer.approved /\ (\A ev \in evidence : GrantMatches(ev, op))
     /\ Allowed(op, ResolveAuthorityChain(loop[t].proposal) \cup evidence)
CanResume(t) == log[loop[t].proposal].parent \in Visible(t) \cup {NoEvent}
Resume(t, a) ==
  LET evidence == {ev \in ResolveAuthorityChain(a) : ev.request = loop[t].request}
  IN /\ loop[t].phase = "waiting" /\ Room(1)
     /\ log[a].kind = "ApprovalSubmitted" /\ log[a].request = loop[t].request
     /\ CanResume(t)
     /\ Settle(t, IF Suffices(t, log[a], evidence) THEN "Started" ELSE "Denied", Visible(t))
     /\ UNCHANGED <<minimum, unrefused>>

-----------------------------------------------------------------------------
Inputs ==
  \/ \E d \in Drafts : Register(d)
  \/ \E i \in unrefused : RejectInput(i)
  \/ \E c \in Changes : ExecuteControl(c)
  \/ \E w \in Principals, r \in OfKind("ApprovalRequested"), l \in Suggestions, b \in BOOLEAN,
       g \in {NoEvent, AnyOperation} \cup OfKind("Proposed") : SubmitApproval(w, r, l, b, g)
  \/ \E w \in Principals, r \in OfKind("ApprovalRequested"),
       g \in {AnyOperation} \cup OfKind("Proposed") : Confirm(w, r, g)
Loop ==
  \E t \in Tasks :
    \/ StartRun(t) \/ CheckTool(t) \/ SourceDefers(t) \/ SourceDenies(t)
    \/ \E op \in Operations \cup {Delegation}, parent \in 0..Len(log) : Propose(t, op, parent)
    \/ \E a \in 1..Len(log) : SourceAuthorizes(t, a) \/ Resume(t, a)
Next == Inputs \/ Loop
Spec == Init /\ [][Next]_vars

-----------------------------------------------------------------------------
\* What the properties call a basis: an instruction of an external identity,
\* strong enough by the directory and by the source's maximum, that is either
\* the approval of this very proposal or an ancestor of it.
Ancestors(p) == {Path(log, p, Len(log))[n] : n \in 0..Len(log)} \ {NoEvent}
Answered(a) == log[log[a].request].proposal
Bases(p) ==
  {b \in 1..Len(log) :
    /\ External(log[b])
    /\ \/ log[b].kind \in {"UserMessage", "Alert"}
       \/ log[b].kind = "ApprovalSubmitted" /\ log[b].approved
    /\ Assess(System, log[b].creator, log[b].who).effective >= Required[log[p].op]
    /\ \/ b \in Ancestors(p)
       \/ log[b].kind = "ApprovalSubmitted" /\ Answered(b) = p}
StartedProposals == {log[i].proposal : i \in OfKind("Started")}

\* A tool is started only on the instruction of a user or an alert who may
\* order it: nothing the model, a tool, the core or a refused approval wrote,
\* and no chain through them, ever adds up to a permission.
ToolHasABasis == \A p \in StartedProposals : Bases(p) # {}

\* An approval "for this operation only" starts the operation it was given for,
\* whatever event the model names later.
GrantsAreForTheirOperation ==
  \A p \in StartedProposals : \E b \in Bases(p) :
    \/ log[b].kind # "ApprovalSubmitted"
    \/ log[b].grant = AnyOperation
    \/ log[log[b].grant].op = log[p].op

\* Every tool that was started was ordered by somebody who may, and an approval
\* of one operation starts no other.
ToolsAreOrdered == ToolHasABasis /\ GrantsAreForTheirOperation

\* A request that is shown can be answered: as long as the minimum control
\* permission was not raised meanwhile there is a user the adapter lets answer
\* it and whose yes is enough to start the tool.
EvidenceOfAnswer(a) ==
  [class |-> "Ingress", creator |-> a.creator, who |-> a.who, source |-> a.assessment.source,
   identity |-> a.assessment.identity, permission |-> a.assessment.effective,
   parent |-> NoEvent, request |-> a.request, grant |-> a.grant]
Answers(t, who, suggested) ==
  LET a == Approval(who, loop[t].request, suggested, TRUE, loop[t].proposal)
  IN Suffices(t, a, {EvidenceOfAnswer(a)})
RequestsCanBeAnswered ==
  \A t \in Tasks :
    LET r == loop[t].request
    IN loop[t].phase = "waiting" /\ ~Decided(r) /\ minimum[t] = User =>
         /\ CanResume(t)
         /\ \E who \in Principals :
              \/ \E l \in User..System : SourceOf[who] = Web /\ MayAnswer(who, r, l) /\ Answers(t, who, l)
              \/ SourceOf[who] = QQ /\ MayConfirm(who, r) /\ Answers(t, who, Operator)

\* The scheduler starts no run for inputs the core refuses.
RefusedInputStartsNothing ==
  \A t \in Tasks : loop[t].inputs # {} => \E i \in loop[t].inputs : ~log[i].low
=============================================================================
