------------------------------ MODULE ModelStream ------------------------------
(***************************************************************************)
(* One streamed answer of a model provider (koi-infra/src/llm.rs): the     *)
(* messages of the server are decoded, gathered in an accumulator and      *)
(* passed on as deltas, until one outcome ends the stream and decides      *)
(* which tool calls the next request of the task may go on with.           *)
(*                                                                         *)
(* The server is external: it has an answer to give and may stop anywhere. *)
(* A text is the number of its pieces; so are the arguments of a call,     *)
(* which are a JSON object only when all the pieces are there.  A refusal  *)
(* is gathered like a text and is left out, as are usage and identifiers.  *)
(***************************************************************************)
EXTENDS Integers, Sequences, FiniteSets

CONSTANTS
  Protocols,       \* of "responses" and "chat"
  Calls,           \* the calls an answer may hold, by output index
  MaxPieces,       \* bound: pieces of a text
  MaxBuffer        \* bound: messages the adapter has not handled

VARIABLES
  protocol, answer,   \* answer: [text, calls]
  server,          \* [text, named, stage, final]: what it has sent
  buffer, body,    \* unhandled messages; "open", "ended", "torn" or "broken"
  acc,             \* StreamAccumulator: [text, tools]
  queue, shown,    \* items that wait, items the caller took
  done, dropped,
  pending          \* conversations[task_id]: "old", "none" or "new" calls

vars == <<protocol, answer, server, buffer, body, acc, queue, shown, done, dropped, pending>>
wire == <<protocol, answer, server, buffer, body>>

Whole == 2           \* pieces of the arguments of a call
NoTool == [named |-> FALSE, args |-> 0]
NoTools == [i \in Calls |-> NoTool]

Init ==
  /\ protocol \in Protocols
  /\ answer \in [text : 0..MaxPieces, calls : SUBSET Calls]
  /\ server = [text |-> 0, stage |-> [i \in Calls |-> "none"], final |-> FALSE]
  /\ buffer = <<>> /\ body = "open"
  /\ acc = [text |-> 0, tools |-> NoTools]
  /\ queue = <<>> /\ shown = <<>> /\ done = FALSE /\ dropped = FALSE /\ pending = "old"

-----------------------------------------------------------------------------
(* The server *)

Message(op, i) == [op |-> op, i |-> i]
Send(message, state) ==
  /\ body = "open" /\ ~server.final /\ Len(buffer) < MaxBuffer
  /\ buffer' = Append(buffer, message) /\ server' = state
  /\ UNCHANGED <<protocol, answer, body, acc, queue, shown, done, dropped, pending>>

SendText ==
  /\ server.text < answer.text
  /\ Send(Message("text", 0), [server EXCEPT !.text = @ + 1])
\* response.output_text.done repeats the text, or is all there is of it.
SendTextDone ==
  /\ protocol = "responses" /\ server.text \in {0, answer.text} /\ answer.text > 0
  /\ Send(Message("textdone", 0), [server EXCEPT !.text = answer.text])

\* What follows what for one call: its name, its arguments in two pieces, and for
\* Responses two messages that carry them whole.
After(stage) ==
  IF protocol = "chat"
  THEN CASE stage = "none" -> {"named"} [] stage = "named" -> {"piece"}
         [] stage = "piece" -> {"last"} [] OTHER -> {}
  ELSE CASE stage = "none" -> {"named"} [] stage = "named" -> {"piece", "argsdone", "itemdone"}
         [] stage = "piece" -> {"last"} [] stage = "last" -> {"argsdone", "itemdone"}
         [] stage = "argsdone" -> {"itemdone"} [] OTHER -> {}
SendCall(i) ==
  \E stage \in After(server.stage[i]) :
    /\ i \in answer.calls
    /\ Send(Message(stage, i), [server EXCEPT !.stage[i] = stage])

Said ==
  /\ server.text = answer.text
  /\ \A i \in answer.calls :
       server.stage[i] \in (IF protocol = "chat" THEN {"last"} ELSE {"last", "argsdone", "itemdone"})
\* [DONE]; response.completed, with the output or without it.
SendFinal ==
  \E op \in IF protocol = "chat" THEN {"DONE"} ELSE {"DONE", "completed", "bare"} :
    Said /\ Send(Message(op, 0), [server EXCEPT !.final = TRUE])
\* error, response.failed, response.incomplete; a message that is no JSON.
SendFailure == Send(Message("failure", 0), [server EXCEPT !.final = TRUE])
\* The connection ends between two messages, inside one, or with an error.
Close ==
  /\ body = "open" /\ body' \in {"ended", "torn", "broken"}
  /\ UNCHANGED <<protocol, answer, server, buffer, acc, queue, shown, done, dropped, pending>>

-----------------------------------------------------------------------------
(* The adapter: ModelResponseStream *)

Item(kind) == [kind |-> kind, turn |-> [text |-> 0, calls |-> {}]]

\* ToolAccumulator::to_model_output: a call needs a name and parsed arguments.
IsCall(tool) == tool.named /\ tool.args = Whole
\* StreamAccumulator::finish and parse_responses_turn without an output.
Started == {i \in Calls : acc.tools[i] # NoTool}
Gathered == [text |-> acc.text, calls |-> {<<i, acc.tools[i].args>> : i \in Started}]
CanFinish == (\A i \in Started : IsCall(acc.tools[i])) /\ (acc.text > 0 \/ Started # {})

\* remember_tool_calls
Remembered(turn) == IF turn.calls = {} THEN "none" ELSE "new"
Complete(turn) ==
  /\ pending' = Remembered(turn) /\ done' = TRUE
  /\ queue' = <<[kind |-> "completed", turn |-> turn]>>
\* Mutant: the calls of the turn before stay.
FailKeeps ==
  pending' = pending /\ done' = TRUE /\ queue' = <<Item("error")>>
Fail ==
  pending' = "none" /\ done' = TRUE /\ queue' = <<Item("error")>>
Finish == IF CanFinish THEN Complete(Gathered) ELSE Fail

Polled == ~dropped /\ queue = <<>> /\ ~done

Delta(kind) ==
  /\ queue' = <<Item(kind)>>
  /\ UNCHANGED <<done, pending>>
Silent == UNCHANGED <<queue, done, pending>>

\* capture_completed_text: only when no delta brought it.
IsNew == acc.text = 0
TextDone ==
  IF IsNew
  THEN /\ acc' = [acc EXCEPT !.text = @ + answer.text]
       /\ queue' = [k \in 1..answer.text |-> Item("text")] /\ UNCHANGED <<done, pending>>
  ELSE UNCHANGED acc /\ Silent

\* What the parts of a call add to it: its name and its arguments piece by piece,
\* or both whole, which overrides the pieces.
NameComes(i) == acc' = [acc EXCEPT !.tools[i].named = TRUE] /\ Delta("name")
ArgumentsCome(i) == acc' = [acc EXCEPT !.tools[i].args = @ + 1] /\ Delta("arguments")
CallIsDone(i) == acc' = [acc EXCEPT !.tools[i] = [named |-> TRUE, args |-> Whole]] /\ Silent
\* parse_responses_turn of the response in response.completed
FullTurn == [text |-> answer.text, calls |-> answer.calls \X {Whole}]

\* handle_message, handle_responses_event, handle_chat_event
Handle ==
  LET message == Head(buffer)
      i == message.i
  IN /\ Polled /\ buffer # <<>> /\ buffer' = Tail(buffer)
     /\ CASE message.op = "text" -> acc' = [acc EXCEPT !.text = @ + 1] /\ Delta("text")
          [] message.op = "textdone" -> TextDone
          [] message.op = "named" -> NameComes(i)
          [] message.op \in {"piece", "last"} -> ArgumentsCome(i)
          [] message.op \in {"argsdone", "itemdone"} -> CallIsDone(i)
          [] message.op = "completed" ->
               /\ UNCHANGED acc
               /\ IF FullTurn.text = 0 /\ FullTurn.calls = {} THEN Finish ELSE Complete(FullTurn)
          [] message.op \in {"DONE", "bare"} -> UNCHANGED acc /\ Finish
          [] message.op = "failure" -> UNCHANGED acc /\ Fail
     /\ UNCHANGED <<protocol, answer, server, body, shown, dropped>>

\* The end of the body counts as the end of the answer, an unfinished line as a
\* message that does not parse.
AtEnd ==
  /\ Polled /\ buffer = <<>> /\ body # "open"
  /\ IF body = "ended" THEN Finish ELSE Fail
  /\ UNCHANGED <<wire, acc, shown, dropped>>
Cancel ==
  /\ Polled /\ Fail
  /\ UNCHANGED <<wire, acc, shown, dropped>>
Take ==
  /\ ~dropped /\ queue # <<>>
  /\ shown' = Append(shown, Head(queue)) /\ queue' = Tail(queue)
  /\ UNCHANGED <<wire, acc, done, dropped, pending>>
\* Drop: the caller leaves the stream.
Drop ==
  /\ ~dropped /\ dropped' = TRUE
  /\ pending' = IF done THEN pending ELSE "none"
  /\ UNCHANGED <<wire, acc, queue, shown, done>>

Next ==
  \/ SendText \/ SendTextDone \/ SendFinal \/ SendFailure \/ Close
  \/ \E i \in Calls : SendCall(i)
  \/ Handle \/ AtEnd \/ Cancel \/ Take \/ Drop
Spec == Init /\ [][Next]_vars

-----------------------------------------------------------------------------
Items == shown \o queue
Outcomes == {k \in 1..Len(Items) : Items[k].kind \in {"completed", "error"}}
Turns == {Items[k].turn : k \in {k \in 1..Len(Items) : Items[k].kind = "completed"}}

\* What the next request goes on with is decided by the outcome: the calls of a
\* completed turn, nothing after a failure, a cancellation or a stream left
\* half-way, and the outcome is one and the last item.
OutcomeDecidesContinuation ==
  /\ Outcomes = IF done THEN {Len(Items)} ELSE {}
  /\ pending = IF \E turn \in Turns : turn.calls # {} THEN "new"
               ELSE IF done \/ dropped THEN "none" ELSE "old"

\* A turn holds no call whose arguments did not all arrive, none that the model did
\* not make, and all of them when the server said that it had finished.
CallsAreWhole ==
  \A turn \in Turns :
    /\ turn.calls \subseteq answer.calls \X {Whole}
    /\ server.final /\ buffer = <<>> => turn.calls = answer.calls \X {Whole}

\* The pieces of text that are shown are those of the turn, each once.
TextIsShownOnce ==
  LET pieces == Cardinality({k \in 1..Len(Items) : Items[k].kind = "text"})
  IN pieces = acc.text /\ pieces <= answer.text

\* The outcome of a stream is one, the last item, and decides what the next request
\* goes on with; its calls are whole, and what was shown is its text.
StreamsEndWhole == OutcomeDecidesContinuation /\ CallsAreWhole /\ TextIsShownOnce
=============================================================================
