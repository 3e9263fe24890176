--------------------------- MODULE ContextAssembly ---------------------------
(***************************************************************************)
(* What the model is shown (agent/context.rs, AgentLoop's                  *)
(* build_initial_context and fit_context_to_budget): the event stream is   *)
(* projected to context items, the oldest ordinary items are replaced by a *)
(* summary when the items exceed the input budget, the replacement is a    *)
(* ContextCompacted event of the same stream, and a later run, also after  *)
(* a crash, starts from the stream again.                                  *)
(*                                                                         *)
(* An event's identity is its index.  An item has a size in place of its   *)
(* text; "about" records which events an item speaks of, the item of an    *)
(* event of itself and a summary of everything it was made from (the text  *)
(* of a summary is cut to a length, which is not modelled).                *)
(***************************************************************************)
EXTENDS Integers, Sequences

CONSTANTS
  Window,          \* the context window configured for the model, 0 for none
  Reserved,        \* the output tokens reserved
  Margin,          \* the safety margin
  Fixed,           \* the estimate of the prompt and the tool definitions
  DefaultWindow,   \* the window of a model without a configured one
  Sizes,           \* the sizes of inputs, answers and tool results
  SummarySizes,    \* the sizes a summary can be cut to
  MaxEvents,       \* bound: events
  MaxRestarts      \* bound: crashes

\* The numbers the configuration and the texts give.
ConstantsFit ==
  /\ Window \in Nat /\ Reserved \in Nat /\ Margin \in Nat /\ Fixed \in Nat
  /\ DefaultWindow \in Nat
  /\ Sizes \subseteq Nat /\ SummarySizes \subseteq Nat

VARIABLES
  stream,          \* the stored events of the task
  context,         \* the items the run holds
  known,           \* the events the run has loaded or written
  given,           \* the events some CallStarted lists
  phase,           \* "idle", "fit" or "call"
  restarts

vars == <<stream, context, known, given, phase, restarts>>

Monus(a, b) == IF a > b THEN a - b ELSE 0
\* ContextBudget::new, available_input_tokens
InputBudget ==
  Monus(Monus(Monus(IF Window > 0 THEN Window ELSE DefaultWindow, Reserved), Margin), Fixed)

Event(kind, size) == [kind |-> kind, size |-> size, dropped |-> {}, about |-> {}]
Item(id, role, size, about) == [id |-> id, role |-> role, size |-> size, about |-> about]
Ids(items) == {items[i].id : i \in DOMAIN items}
\* estimate_context_tokens: the sizes of all items.
Estimate(items) ==
  LET total[n \in 0..Len(items)] == IF n = 0 THEN 0 ELSE total[n - 1] + items[n].size
  IN total[Len(items)]
\* The members of ids up to n, in order.
InOrder(ids, n) ==
  LET taken[k \in 0..n] ==
        IF k = 0 THEN <<>> ELSE taken[k - 1] \o (IF k \in ids THEN <<k>> ELSE <<>>)
  IN taken[n]
Latest(ids) == IF ids = {} THEN 0 ELSE CHOOSE i \in ids : \A j \in ids : j <= i

Init ==
  /\ stream = <<Event("system", 1)>>
  /\ context = <<>> /\ known = {} /\ given = {}
  /\ phase = "idle" /\ restarts = 0

-----------------------------------------------------------------------------
Compactions(events) == {i \in DOMAIN events : events[i].kind = "compacted"}
LatestSummary(events) == Latest(Compactions(events))

\* Mutant: the first checkpoint instead of the latest.
FirstCoverage(events) ==
  IF Compactions(events) = {} THEN {}
  ELSE events[CHOOSE i \in Compactions(events) : \A j \in Compactions(events) : i <= j].dropped

\* latest_compaction: what the latest checkpoint names, and what the
\* checkpoints among that name in turn.
Coverage(events) ==
  LET open(ids) == ids \cup UNION {events[i].dropped : i \in ids}
      reach[n \in 0..Len(events)] ==
        IF n > 0 THEN open(reach[n - 1])
        ELSE IF LatestSummary(events) = 0 THEN {} ELSE events[LatestSummary(events)].dropped
  IN reach[Len(events)]

\* The role an event has when the history is read back: a tool's result is a
\* memory then, so that it is not paired with a call of this run.
Role(kind) ==
  CASE kind = "system" -> "System"
    [] kind = "input" -> "User"
    [] kind = "answer" -> "Assistant"
    [] kind = "tool" -> "Memory"
VisibleEvents(events, ids) ==
  {i \in ids : events[i].kind # "compacted"}

SummaryItem(events, i) == Item(i, "Memory", events[i].size, events[i].about)

\* from_events: the latest summary first, then every visible event it does not
\* cover and the caller does not provide, in order.
FromEvents(events, provided) ==
  LET hidden == Coverage(events) \cup provided
      shown == InOrder(VisibleEvents(events, DOMAIN events \ hidden), Len(events))
      s == LatestSummary(events)
  IN (IF s = 0 THEN <<>> ELSE <<SummaryItem(events, s)>>)
     \o [k \in DOMAIN shown |-> Item(shown[k], Role(events[shown[k]].kind),
                                     events[shown[k]].size, {shown[k]})]

ToolItem(i) == Item(i, "Tool", stream[i].size, {i})

\* compact: the fewest of the oldest candidates whose removal lets some length
\* of summary fit, and the longest such summary.
Candidates(items) ==
  InOrder({i \in DOMAIN items : items[i].role \notin {"System", "Developer", "Tool"}}, Len(items))
Without(items, n) ==
  LET gone == {Candidates(items)[k] : k \in 1..n}
      kept == InOrder(DOMAIN items \ gone, Len(items))
  IN [k \in DOMAIN kept |-> items[kept[k]]]
FittingSizes(items, n) ==
  {s \in SummarySizes : Estimate(Without(items, n)) + s <= InputBudget}
Plans(items) ==
  {n \in 1..Len(Candidates(items)) : FittingSizes(items, n) # {}}
Fewest(ns) == CHOOSE n \in ns : \A m \in ns : n <= m

\* summary_position: where the first candidate stood.
Position(items) == Candidates(items)[1]
InsertSummary(items, rest, item) ==
  SubSeq(rest, 1, Position(items) - 1) \o <<item>> \o SubSeq(rest, Position(items), Len(rest))
-----------------------------------------------------------------------------
Room == Len(stream) < MaxEvents

\* Others write to the stream while the run works: an input, the result of a
\* child.
Receive(kind, size) ==
  /\ Room /\ kind \in {"input", "tool"}
  /\ stream' = Append(stream, Event(kind, size))
  /\ UNCHANGED <<context, known, given, phase, restarts>>

\* build_initial_context.  A run of the main conversation is handed the results
\* no call has listed yet (pending_tool_results), a resumed one nothing.
PendingResults == {i \in DOMAIN stream : stream[i].kind = "tool"} \ given
Begin(provided) ==
  LET results == InOrder(provided, Len(stream))
  IN /\ phase = "idle" /\ provided \in {{}, PendingResults}
     /\ Len(stream) > 1
     /\ context' = FromEvents(stream, provided) \o [k \in DOMAIN results |-> ToolItem(results[k])]
     /\ known' = DOMAIN stream
     /\ phase' = IF InputBudget = 0 THEN "idle" ELSE "fit"
     /\ UNCHANGED <<stream, given, restarts>>

\* fit_context_to_budget: one round of at most eight.
Fits == Estimate(context) <= InputBudget
Compact ==
  LET n == Fewest(Plans(context))
      gone == {context[Candidates(context)[k]] : k \in 1..n}
      about == UNION {item.about : item \in gone}
      size == Latest(FittingSizes(context, n))
      event == [Event("compacted", size) EXCEPT
                  !.dropped = Coverage(stream) \cup {item.id : item \in gone}, !.about = about]
  IN /\ phase = "fit" /\ ~Fits /\ Plans(context) # {}
     /\ Room
     /\ stream' = Append(stream, event)
     /\ context' = InsertSummary(context, Without(context, n),
                                 Item(Len(stream'), "Memory", size, about))
     /\ known' = known \cup {Len(stream')}
     /\ UNCHANGED <<given, phase, restarts>>
Ready ==
  /\ phase = "fit" /\ Fits
  /\ given' = given \cup Ids(context)
  /\ phase' = "call"
  /\ UNCHANGED <<stream, context, known, restarts>>
\* NoCompactableContext: the run fails.
GiveUp ==
  /\ phase = "fit" /\ ~Fits /\ Plans(context) = {}
  /\ phase' = "idle" /\ context' = <<>> /\ known' = {}
  /\ UNCHANGED <<stream, given, restarts>>

\* The call is answered; a tool it asks for runs, and its result is an item of
\* this run for the next turn.
Answer(size) ==
  /\ phase = "call" /\ Room
  /\ stream' = Append(stream, Event("answer", size))
  /\ phase' = "idle" /\ context' = <<>> /\ known' = {}
  /\ UNCHANGED <<given, restarts>>
AnswerAndRunTool(size, result) ==
  /\ phase = "call" /\ Len(stream) + 2 <= MaxEvents
  /\ stream' = stream \o <<Event("answer", size), Event("tool", result)>>
  /\ context' = context \o <<Item(Len(stream) + 1, "Assistant", size, {Len(stream) + 1}),
                             Item(Len(stream) + 2, "Tool", result, {Len(stream) + 2})>>
  /\ known' = known \cup {Len(stream) + 1, Len(stream) + 2}
  /\ phase' = "fit"
  /\ UNCHANGED <<given, restarts>>

\* The process stops at any point; what was stored stays.
Crash ==
  /\ restarts < MaxRestarts /\ phase # "idle"
  /\ phase' = "idle" /\ context' = <<>> /\ known' = {} /\ restarts' = restarts + 1
  /\ UNCHANGED <<stream, given>>

Next ==
  \/ \E k \in {"input", "tool"}, s \in Sizes : Receive(k, s)
  \/ \E provided \in {{}, PendingResults} : Begin(provided)
  \/ Compact \/ Ready \/ GiveUp \/ Crash
  \/ \E s \in Sizes : Answer(s)
  \/ \E s, r \in Sizes : AnswerAndRunTool(s, r)
Spec == Init /\ [][Next]_vars

-----------------------------------------------------------------------------
Working == phase # "idle"
Results == {context[i].id : i \in {j \in DOMAIN context : context[j].role = "Tool"}}

\* However often a run compacts, stops or is started again, it works on what a
\* restart would read: nothing that was summarised comes back, and the run has
\* forgotten nothing the stream still shows.  Results handed to the run as such
\* are the exception: they are shown again until a call has listed them.
RestartShowsTheSame ==
  Working => Ids(context) \ Results = (Ids(FromEvents(stream, {})) \cap known) \ Results

\* Every event the run knows is in its context, by itself or in a summary made
\* from it, also through several summaries and restarts.
NothingIsLost ==
  Working => VisibleEvents(stream, known) \subseteq UNION {context[i].about : i \in DOMAIN context}

\* One round is enough: what a plan leaves fits the budget it was made for, so
\* the limit of rounds is never what ends a run.
OneRoundIsEnough == Compact => Estimate(context') <= InputBudget
=============================================================================
