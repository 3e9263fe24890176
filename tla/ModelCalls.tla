------------------------------- MODULE ModelCalls -------------------------------
(***************************************************************************)
(* How the tool calls of one model turn and their results find each other  *)
(* in the next request of the task: the continuation state a provider      *)
(* keeps per task (llm.rs), the agent that resets it (agent/loop.rs,       *)
(* agent_runtime.rs) and the model proxy that may stand between the two    *)
(* (model_proxy.rs) and outlives the agent.                                *)
(*                                                                         *)
(* One task.  What a stream does before it completes is in ModelStream;    *)
(* the server of the model is external and gives every call a fresh id.    *)
(***************************************************************************)
EXTENDS Integers, Sequences

CONSTANTS
  Models,          \* the selections of the registry
  MaxCalls,        \* bound: calls of a turn
  MaxTurns,        \* bound: requests sent
  MaxFaults,       \* bound: failures, cancellations and broken connections
  MaxRestarts      \* bound: restarts of the agent or of the proxy

VARIABLES
  proxied,         \* whether the registry was built by build_proxy_model_registry
  provider,        \* conversations[task_id] of each model: pending_tool_calls
  resets,          \* models with the task in reset_pending (ModelProxyProvider)
  lastModel,       \* last_models[task_id]
  run,             \* [on, model, context, todo]: Tool items, calls to execute
  call,            \* [phase, turn, calls]: the model call in progress
  old,             \* streams the proxy still reads for nobody: [model, turn]
  fresh, waiting,  \* results no request carried; a call that waits for approval
  turns, last,     \* requests sent; the last turn recorded
  kept,            \* the last turn answered, until something takes its calls back
  request,         \* the last request: [last, kept, context, pending, bound]
  faults, restarts

vars == <<proxied, provider, resets, lastModel, run, call, old, fresh, waiting,
          turns, last, kept, request, faults, restarts>>
history == <<turns, last, request>>

NoRun == [on |-> FALSE, model |-> "none", context |-> <<>>, todo |-> <<>>]
NoCall == [phase |-> "none", turn |-> 0, calls |-> <<>>]
\* last_models without the task is "none", which is no selection of the registry.
ModelsAreNamed == "none" \notin Models
Id(turn, i) == [turn |-> turn, i |-> i]
Ids(turn, n) == [i \in 1..n |-> Id(turn, i)]

Init ==
  /\ proxied \in BOOLEAN
  /\ provider = [m \in Models |-> <<>>] /\ resets = {} /\ lastModel = "none"
  /\ run = NoRun /\ call = NoCall /\ old = {} /\ fresh = <<>> /\ waiting = <<>>
  /\ turns = 0 /\ last = 0 /\ kept = 0
  /\ request = [last |-> 0, kept |-> 0, context |-> <<>>, pending |-> <<>>, bound |-> {}]
  /\ faults = 0 /\ restarts = 0

Fault == faults < MaxFaults /\ faults' = faults + 1

-----------------------------------------------------------------------------
(* Runs of the loop *)

\* ModelProvider::reset_task and ModelProviderRegistry::reset_task: the proxy
\* provider only remembers it, to tell the proxy before the next request.
ResetIn(models, state) ==
  /\ provider' = IF proxied THEN state
                 ELSE [m \in Models |-> IF m \in models THEN <<>> ELSE state[m]]
  /\ resets' = IF proxied THEN resets \cup models ELSE resets
  /\ kept' = 0
Reset(models) == ResetIn(models, provider)

\* execute_*, resolve_model: a run goes on with the result of an approved call,
\* with the results no request carried (the main conversation), or with none.
Begin(m, context) ==
  /\ ~run.on /\ run' = [on |-> TRUE, model |-> m, context |-> context, todo |-> <<>>]
  /\ lastModel' = m
  /\ IF lastModel \notin {"none", m} THEN Reset(Models) ELSE UNCHANGED <<provider, resets, kept>>
  /\ UNCHANGED <<proxied, call, old, history, faults, restarts>>
Start(m) ==
  /\ waiting = <<>>
  /\ \E context \in {<<>>, fresh} : Begin(m, context) /\ UNCHANGED <<fresh, waiting>>
Resume(m) ==
  /\ waiting # <<>> /\ waiting' = <<>> /\ fresh' = fresh \o waiting /\ Begin(m, waiting)

\* handle_tool_call
RunTool ==
  /\ run.todo # <<>>
  /\ run' = [run EXCEPT !.todo = Tail(@), !.context = Append(@, Head(run.todo))]
  /\ fresh' = Append(fresh, Head(run.todo))
  /\ UNCHANGED <<proxied, provider, resets, lastModel, call, old, waiting, kept, history,
                 faults, restarts>>
\* begin_approval: the run ends, the calls after this one are left.
AskApproval ==
  /\ run.todo # <<>> /\ waiting' = <<Head(run.todo)>> /\ run' = NoRun
  /\ UNCHANGED <<proxied, provider, resets, lastModel, call, old, fresh, kept, history,
                 faults, restarts>>

-----------------------------------------------------------------------------
(* Requests *)

\* Mutant: results go with the pending calls by position, whatever their ids are.
MatchByPosition(context, calls) ==
  {<<j, j>> : j \in 1..(IF Len(context) < Len(calls) THEN Len(context) ELSE Len(calls))}
\* matched_tool_results: the first result with the id of a pending call.
Match(context, calls) ==
  {p \in (1..Len(context)) \X (1..Len(calls)) :
     context[p[1]] = calls[p[2]] /\ \A h \in 1..(p[1] - 1) : context[h] # calls[p[2]]}
\* responses_input, chat_messages: a matched result goes out under its call, every
\* other one as text.
Bound(context, calls) == {<<context[p[1]], calls[p[2]]>> : p \in Match(context, calls)}

Asking == run.on /\ run.todo = <<>>
\* ModelProxyProvider::start: the mark is taken, then the proxy is told.
AskReset ==
  /\ Asking /\ call.phase = "none" /\ run.model \in resets
  /\ resets' = resets \ {run.model}
  /\ provider' = [provider EXCEPT ![run.model] = <<>>]
  /\ call' = [call EXCEPT !.phase = "reset"]
  /\ UNCHANGED <<proxied, lastModel, run, old, fresh, waiting, kept, history, faults, restarts>>
\* request_body: what is pending is read once; a call goes out with its result.
Send ==
  LET pending == provider[run.model]
  IN /\ Asking /\ turns < MaxTurns /\ turns' = turns + 1
     /\ call.phase = "reset" \/ (call.phase = "none" /\ run.model \notin resets)
     /\ call' = [phase |-> "open", turn |-> turns', calls |-> <<>>]
     /\ request' = [last |-> last, kept |-> kept, context |-> run.context, pending |-> pending,
                    bound |-> Bound(run.context, pending)]
     /\ fresh' = <<>>
     /\ UNCHANGED <<proxied, provider, resets, lastModel, run, old, waiting, last, kept,
                    faults, restarts>>

\* remember_tool_calls, at the provider, when the stream completes.
Answer(n) ==
  /\ call.phase = "open"
  /\ call' = [call EXCEPT !.phase = "answered", !.calls = Ids(call.turn, n)]
  /\ provider' = [provider EXCEPT ![run.model] = Ids(call.turn, n)]
  /\ kept' = call.turn
  /\ UNCHANGED <<proxied, resets, lastModel, run, old, fresh, waiting, history,
                 faults, restarts>>

\* Drop of a ModelResponseStream: one that completed leaves its calls.
Left(calls, completed) == IF completed THEN calls ELSE <<>>
\* The agent has the turn and records it.
Deliver ==
  /\ call.phase = "answered" /\ call' = NoCall
  /\ last' = call.turn
  /\ provider' = [provider EXCEPT ![run.model] = Left(@, TRUE)]
  /\ run' = IF call.calls = <<>> THEN NoRun ELSE [run EXCEPT !.todo = call.calls]
  /\ UNCHANGED <<proxied, resets, lastModel, old, fresh, waiting, turns, kept, request,
                 faults, restarts>>

\* The agent is through with the call: the provider's stream is dropped with it,
\* a proxy drops it when it sees, sooner or later, that the connection is closed.
Abandoned == proxied /\ call.phase = "open"
AfterDrop ==
  IF Abandoned \/ call.phase # "open" THEN provider
  ELSE [provider EXCEPT ![run.model] = Left(@, FALSE)]
OldAfter == IF Abandoned THEN old \cup {[model |-> run.model, turn |-> call.turn]} ELSE old

\* A request that cannot be sent or is refused, a reset the proxy does not get, a
\* stream that fails or breaks: reset_task, and the call is tried again or the run
\* ends, finish_run resetting it everywhere.
Fail(ends) ==
  /\ Asking /\ Fault /\ (call.phase = "answered" => proxied)
  /\ ResetIn(IF ends THEN Models ELSE {run.model}, AfterDrop) /\ old' = OldAfter
  /\ call' = NoCall /\ run' = IF ends THEN NoRun ELSE run
  /\ UNCHANGED <<proxied, lastModel, fresh, waiting, history, restarts>>
\* record_cancelled, at any point of a run, an answer not yet recorded included;
\* finish_cancelling for a task that waits.
Cancel ==
  /\ run.on \/ waiting # <<>>
  /\ Fault
  /\ ResetIn(Models, AfterDrop) /\ old' = OldAfter
  /\ call' = NoCall /\ run' = NoRun /\ waiting' = <<>>
  /\ UNCHANGED <<proxied, lastModel, fresh, history, restarts>>

-----------------------------------------------------------------------------
(* The proxy on its own, and restarts *)

OldEnds(s, calls) ==
  /\ old' = old \ {s} /\ provider' = [provider EXCEPT ![s.model] = calls] /\ kept' = 0
  /\ UNCHANGED <<proxied, resets, lastModel, run, call, fresh, waiting, history,
                 faults, restarts>>
OldAnswers(s, n) == OldEnds(s, Ids(s.turn, n))
OldDropped(s) == OldEnds(s, Left(provider[s.model], FALSE))

Restart ==
  /\ restarts < MaxRestarts /\ restarts' = restarts + 1
  /\ run' = NoRun /\ call' = NoCall /\ resets' = {} /\ lastModel' = "none" /\ kept' = 0
  /\ provider' = IF proxied THEN AfterDrop ELSE [m \in Models |-> <<>>]
  /\ old' = OldAfter
  /\ UNCHANGED <<proxied, fresh, waiting, history, faults>>
\* A call in progress fails, with what that means for the agent.
RestartProxy ==
  /\ proxied /\ restarts < MaxRestarts /\ restarts' = restarts + 1
  /\ provider' = [m \in Models |-> <<>>] /\ old' = {} /\ kept' = 0
  /\ call' = NoCall
  /\ resets' = IF call = NoCall THEN resets ELSE resets \cup {run.model}
  /\ UNCHANGED <<proxied, lastModel, run, fresh, waiting, history, faults>>

Next ==
  \/ \E m \in Models : Start(m) \/ Resume(m)
  \/ RunTool \/ AskApproval \/ AskReset \/ Send \/ Deliver \/ Cancel
  \/ \E n \in 0..MaxCalls : Answer(n)
  \/ \E ends \in BOOLEAN : Fail(ends)
  \/ \E s \in old : OldDropped(s) \/ \E n \in 0..MaxCalls : OldAnswers(s, n)
  \/ Restart \/ RestartProxy
Spec == Init /\ [][Next]_vars

-----------------------------------------------------------------------------
\* A result never goes out under the call of another turn, nor under one that is
\* not the last the agent recorded, and no call goes out with two results.
BoundResultsAreCurrent ==
  \A pair \in request.bound :
    /\ pair[1] = pair[2] /\ pair[1].turn = request.last
    /\ \A other \in request.bound : other[2] = pair[2] => other = pair

\* As long as nothing failed, was cancelled or restarted since the last turn, and
\* no stream from before ended late at the proxy, its results go out as the results
\* of its calls and not as text from the past.
ResultsAreBound ==
  \A j \in 1..Len(request.context) :
    LET result == request.context[j]
    IN result.turn = request.kept => \E pair \in request.bound : pair[1] = result

\* A result goes out as the result of its call, unless its turn was broken off,
\* and never as that of another.
ResultsMeetTheirCalls == BoundResultsAreCurrent /\ ResultsAreBound
=============================================================================
