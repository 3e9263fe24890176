------------------------------ MODULE ModelProofs ------------------------------
(***************************************************************************)
(* The models a task talks to: the calls of their answers and what the     *)
(* next requests make of them, the stream that brings one answer, and what *)
(* a model is shown of the task's history.                                 *)
(*                                                                         *)
(* Tool calls and their results, for any models, any number of calls,      *)
(* requests, failures and restarts, with the proxy or without it: a result *)
(* goes out under its own call and never under that of another turn.       *)
(*                                                                         *)
(* The argument: a result the agent holds is of a turn it has recorded,    *)
(* and of the last one unless it stayed in the context of the run that     *)
(* asked for it; what a provider keeps for the model of that run is of the *)
(* last turn too, or of a turn nobody recorded.  A stream the proxy reads  *)
(* for nobody is of such a turn, whenever it ends.                         *)
(***************************************************************************)
EXTENDS ModelCalls, SequenceTheorems, FiniteSetTheorems, WellFoundedInduction, TLAPS

CallIds == [turn : Nat, i : Nat]
Elements(s) == {s[i] : i \in 1 .. Len(s)}
CallPhases == {"none", "reset", "open", "answered"}

Shapes ==
  /\ provider \in [Models -> Seq(CallIds)]
  /\ resets \subseteq Models /\ lastModel \in Models \cup {"none"}
  /\ run \in [on : BOOLEAN, model : Models \cup {"none"},
              context : Seq(CallIds), todo : Seq(CallIds)]
  /\ call \in [phase : CallPhases, turn : Nat, calls : Seq(CallIds)]
  /\ old \subseteq [model : Models, turn : Nat]
  /\ fresh \in Seq(CallIds) /\ waiting \in Seq(CallIds)
  /\ turns \in Nat /\ last \in 0 .. turns /\ kept \in 0 .. turns

(* A call is that of a run with nothing left to execute, and a task that   *)
(* waits for an approval has no run.                                       *)
Calling == call.phase # "none"
Streaming == call.phase \in {"open", "answered"}
RunsAreInOrder ==
  /\ run.on => run.model \in Models /\ lastModel = run.model /\ waiting = <<>>
  /\ ~ run.on => run.context = <<>> /\ run.todo = <<>> /\ ~ Calling
  /\ Calling => run.todo = <<>>
  /\ ~ Calling => call = NoCall
  /\ Streaming => fresh = <<>> /\ call.turn = turns /\ call.turn > last

(* The results the agent holds, and the calls it has still to execute, are *)
(* of recorded turns, outside the context of a run of the last one.        *)
Unsent == Elements(run.todo) \cup Elements(fresh) \cup Elements(waiting)
Held == Elements(run.context) \cup Unsent
HeldAreRecorded ==
  /\ \A id \in Unsent : id.turn = last
  /\ \A id \in Held : id.turn \in 1 .. last
  /\ call.phase = "answered" => \A id \in Elements(call.calls) : id.turn = call.turn

(* A stream the proxy still reads is of a turn nobody has recorded.        *)
OldAreLost ==
  \A s \in old :
    /\ s.turn <= turns /\ s.turn # last
    /\ Streaming => s.turn # call.turn
    /\ \A id \in Held : id.turn # s.turn

(* Of what the model of a run may go on with only the last turn's calls    *)
(* can have results in the context.                                        *)
ProviderIsCurrent ==
  run.on =>
    \A id \in Elements(run.context), c \in Elements(provider[run.model]) :
      id.turn = c.turn => id.turn = last /\ call.phase # "answered"

(* As long as nothing came between, the calls of the last answer are kept  *)
(* for the last model and no reset is due.                                 *)
Awaited == Held \cup (IF call.phase = "answered" THEN Elements(call.calls) ELSE {})
KeptIsThere ==
  /\ Calling => run.model \notin resets
  /\ call.phase = "answered" => kept \in {0, call.turn}
  /\ kept # 0 =>
       /\ lastModel \in Models \ resets
       /\ \A id \in Awaited : id.turn = kept => id \in Elements(provider[lastModel])

IInv ==
  /\ Shapes /\ RunsAreInOrder /\ HeldAreRecorded /\ OldAreLost
  /\ ProviderIsCurrent /\ KeptIsThere
  /\ BoundResultsAreCurrent /\ ResultsAreBound

-----------------------------------------------------------------------------
(***************************************************************************)
(* The elements of sequences.                                              *)
(***************************************************************************)
LEMMA NoElements == Elements(<<>>) = {}
BY DEF Elements

LEMMA OneElement ==
  ASSUME NEW x
  PROVE  Elements(<<x>>) = {x}
BY DEF Elements

LEMMA ElementsOfAppend ==
  ASSUME NEW S, NEW s \in Seq(S), NEW x \in S
  PROVE  Elements(Append(s, x)) = Elements(s) \cup {x}
<1>1. /\ Len(s) \in Nat /\ Len(Append(s, x)) = Len(s) + 1 /\ Append(s, x)[Len(s) + 1] = x
      /\ \A i \in 1 .. Len(s) : Append(s, x)[i] = s[i]
  BY AppendProperties, LenProperties
<1>2. 1 .. (Len(s) + 1) = (1 .. Len(s)) \cup {Len(s) + 1}
  BY <1>1
<1> QED BY <1>1, <1>2 DEF Elements

LEMMA ElementsOfConcat ==
  ASSUME NEW S, NEW s \in Seq(S), NEW t \in Seq(S)
  PROVE  Elements(s \o t) = Elements(s) \cup Elements(t)
<1> DEFINE st == s \o t
<1>1. /\ Len(s) \in Nat /\ Len(t) \in Nat /\ Len(st) = Len(s) + Len(t)
      /\ \A i \in 1 .. (Len(s) + Len(t)) :
           st[i] = IF i <= Len(s) THEN s[i] ELSE t[i - Len(s)]
  BY ConcatProperties, LenProperties
<1> HIDE DEF st
<1>2. ASSUME NEW x \in Elements(st) PROVE x \in Elements(s) \cup Elements(t)
  <2>1. PICK i \in 1 .. Len(st) : x = st[i]
    BY <1>2 DEF Elements
  <2>2. i <= Len(s) => i \in 1 .. Len(s) /\ x = s[i]
    BY <1>1, <2>1
  <2>3. ~ (i <= Len(s)) => i - Len(s) \in 1 .. Len(t) /\ x = t[i - Len(s)]
    BY <1>1, <2>1
  <2> QED BY <2>2, <2>3 DEF Elements
<1>3. ASSUME NEW i \in 1 .. Len(s) PROVE s[i] \in Elements(st)
  <2>1. i \in 1 .. Len(st) /\ st[i] = s[i]
    BY <1>1
  <2> QED BY <2>1 DEF Elements
<1>4. ASSUME NEW i \in 1 .. Len(t) PROVE t[i] \in Elements(st)
  <2>1. i + Len(s) \in 1 .. Len(st) /\ st[i + Len(s)] = t[i]
    BY <1>1
  <2> QED BY <2>1 DEF Elements
<1>5. Elements(s) \cup Elements(t) \subseteq Elements(st)
  BY <1>3, <1>4 DEF Elements
<1>6. Elements(st) = Elements(s) \cup Elements(t)
  BY <1>2, <1>5
<1> QED BY <1>6 DEF st

LEMMA HeadAndTail ==
  ASSUME NEW S, NEW s \in Seq(S), s # <<>>
  PROVE  /\ Head(s) \in S /\ Head(s) \in Elements(s)
         /\ Tail(s) \in Seq(S) /\ Elements(Tail(s)) \subseteq Elements(s)
<1>1. /\ Len(s) \in Nat /\ Len(s) # 0 /\ Head(s) = s[1] /\ Tail(s) \in Seq(S)
      /\ Len(Tail(s)) = Len(s) - 1 /\ \A i \in 1 .. Len(Tail(s)) : Tail(s)[i] = s[i + 1]
  BY HeadTailProperties, EmptySeq, LenProperties
<1>2. 1 \in 1 .. Len(s) /\ s[1] \in S
  BY <1>1, ElementOfSeq
<1>3. \A i \in 1 .. Len(Tail(s)) : Tail(s)[i] = s[i + 1] /\ i + 1 \in 1 .. Len(s)
  BY <1>1
<1> QED BY <1>1, <1>2, <1>3 DEF Elements

LEMMA IdsAreOfTheTurn ==
  ASSUME NEW t \in Nat, NEW n \in 0 .. MaxCalls
  PROVE  Ids(t, n) \in Seq(CallIds) /\ \A id \in Elements(Ids(t, n)) : id.turn = t
<1>1. n \in Nat /\ \A i \in 1 .. n : Id(t, i) \in CallIds /\ Id(t, i).turn = t
  BY DEF Id, CallIds
<1>2. Ids(t, n) \in Seq(CallIds) /\ Len(Ids(t, n)) = n
      /\ \A i \in 1 .. n : Ids(t, n)[i] = Id(t, i)
  BY <1>1 DEF Ids
<1> QED BY <1>1, <1>2 DEF Elements

(* A set of positions has a first one. *)
LEMMA FirstExists ==
  ASSUME NEW S, S \subseteq Nat, S # {}
  PROVE  \E x \in S : \A y \in S : x <= y
<1> DEFINE Less == {p \in Nat \X Nat : p[1] < p[2]}
<1>1. Less = OpToRel(<, Nat)
  BY DEF OpToRel
<1>2. IsWellFoundedOn(Less, Nat)
  BY <1>1, NatLessThanWellFounded
<1> HIDE DEF Less
<1>3. PICK x \in S : \A y \in S : ~ (<<y, x>> \in Less)
  BY <1>2, WFMin
<1>4. ASSUME NEW y \in S, ~ (<<y, x>> \in Less) PROVE x <= y
  BY <1>4 DEF Less
<1> QED BY <1>3, <1>4

-----------------------------------------------------------------------------
(***************************************************************************)
(* What matched_tool_results makes of a context and the pending calls.     *)
(***************************************************************************)
(* Only a result of a pending call goes out, under that call. *)
LEMMA BoundAreMatches ==
  ASSUME NEW context \in Seq(CallIds), NEW calls \in Seq(CallIds),
         NEW pair \in Bound(context, calls)
  PROVE  /\ pair = <<pair[1], pair[1]>>
         /\ pair[1] \in Elements(context) /\ pair[1] \in Elements(calls)
<1>1. PICK p \in Match(context, calls) : pair = <<context[p[1]], calls[p[2]]>>
  BY DEF Bound
<1>2. /\ p[1] \in 1 .. Len(context) /\ p[2] \in 1 .. Len(calls)
      /\ context[p[1]] = calls[p[2]]
  BY <1>1 DEF Match
<1> QED BY <1>1, <1>2 DEF Elements

(* The result of a pending call goes out as such. *)
LEMMA MatchesAreBound ==
  ASSUME NEW context \in Seq(CallIds), NEW calls \in Seq(CallIds),
         NEW id \in Elements(context), id \in Elements(calls)
  PROVE  <<id, id>> \in Bound(context, calls)
<1>1. PICK k \in 1 .. Len(calls) : calls[k] = id
  BY DEF Elements
<1> DEFINE places == {j \in 1 .. Len(context) : context[j] = id}
<1>2. places \subseteq Nat /\ places # {}
  BY DEF Elements
<1>3. PICK j \in places : \A h \in places : j <= h
  BY <1>2, FirstExists
<1>4. \A h \in 1 .. (j - 1) : context[h] # calls[k]
  <2> SUFFICES ASSUME NEW h \in 1 .. (j - 1), context[h] = id PROVE FALSE
    BY <1>1
  <2>1. Len(context) \in Nat
    BY LenProperties
  <2>2. h \in places /\ ~ (j <= h)
    BY <1>3, <2>1
  <2> QED BY <1>3, <2>2
<1>5. <<j, k>> \in Match(context, calls)
  BY <1>1, <1>3, <1>4 DEF Match
<1>6. <<context[j], calls[k]>> \in Bound(context, calls)
  BY <1>5 DEF Bound
<1> QED BY <1>1, <1>3, <1>6

-----------------------------------------------------------------------------
(***************************************************************************)
(* The steps.                                                              *)
(***************************************************************************)
LEMMA RequestStays ==
  ASSUME IInv, UNCHANGED request
  PROVE  BoundResultsAreCurrent' /\ ResultsAreBound'
BY DEF IInv, BoundResultsAreCurrent, ResultsAreBound

(* What a reset leaves at the providers. *)
LEMMA ResetLeaves ==
  ASSUME NEW state \in [Models -> Seq(CallIds)], NEW models \in SUBSET Models,
         resets \subseteq Models, ResetIn(models, state)
  PROVE  /\ provider' \in [Models -> Seq(CallIds)] /\ kept' = 0 /\ resets' \subseteq Models
         /\ \A m \in Models : provider'[m] = state[m] \/ provider'[m] = <<>>
         /\ \A m \in Models : m \in resets' => m \in resets \cup models
<1>1. <<>> \in Seq(CallIds)
  OBVIOUS
<1>2. CASE proxied
  BY <1>2 DEF ResetIn
<1>3. CASE ~ proxied
  BY <1>1, <1>3 DEF ResetIn
<1> QED BY <1>2, <1>3

(* A run begins with nothing, or with results of the last turn. *)
LEMMA BeginStep ==
  ASSUME ModelsAreNamed, IInv, NEW m \in Models, NEW ctx \in Seq(CallIds),
         Elements(ctx) \subseteq Unsent, Begin(m, ctx), waiting' = <<>>,
         fresh' \in Seq(CallIds), Elements(fresh') \subseteq Unsent
  PROVE  IInv'
<1>1. /\ ~ run.on /\ ~ Calling
      /\ run' = [on |-> TRUE, model |-> m, context |-> ctx, todo |-> <<>>]
      /\ lastModel' = m
      /\ UNCHANGED <<proxied, call, old, turns, last, request>>
  BY DEF Begin, IInv, RunsAreInOrder, history
<1>2. run'.on /\ run'.model = m /\ run'.context = ctx /\ run'.todo = <<>>
  BY <1>1
<1>3. /\ provider' \in [Models -> Seq(CallIds)] /\ resets' \subseteq Models
      /\ kept' # 0 => kept' = kept /\ provider' = provider /\ resets' = resets /\ lastModel = m
      /\ kept' \in 0 .. turns
  <2>1. CASE lastModel \notin {"none", m}
    <3>1. ResetIn(Models, provider)
      BY <2>1 DEF Begin, Reset
    <3>2. kept' = 0 /\ provider' \in [Models -> Seq(CallIds)] /\ resets' \subseteq Models
      BY <3>1, ResetLeaves DEF IInv, Shapes
    <3> QED BY <3>2 DEF IInv, Shapes
  <2>2. CASE lastModel \in {"none", m}
    <3>1. UNCHANGED <<provider, resets, kept>>
      BY <2>2 DEF Begin
    <3>2. kept # 0 => lastModel = m
      BY <2>2 DEF IInv, KeptIsThere, ModelsAreNamed
    <3> QED BY <3>1, <3>2 DEF IInv, Shapes
  <2> QED BY <2>1, <2>2
<1>4. Unsent' \subseteq Unsent /\ Held' \subseteq Unsent /\ Unsent \subseteq Held
  BY <1>2, NoElements DEF Unsent, Held
<1>5. call.phase = "none"
  BY <1>1 DEF Calling
<1>6. Shapes'
  <2>1. run' \in [on : BOOLEAN, model : Models \cup {"none"},
                  context : Seq(CallIds), todo : Seq(CallIds)]
    BY <1>1
  <2>2. waiting' \in Seq(CallIds)
    OBVIOUS
  <2> QED BY <1>1, <1>3, <2>1, <2>2 DEF IInv, Shapes
<1>7. RunsAreInOrder'
  BY <1>1, <1>2, <1>5 DEF IInv, RunsAreInOrder, Calling, Streaming
<1>8. HeldAreRecorded'
  BY <1>1, <1>4, <1>5 DEF IInv, HeldAreRecorded
<1>9. OldAreLost'
  BY <1>1, <1>4, <1>5 DEF IInv, OldAreLost, Streaming
<1>10. ProviderIsCurrent'
  BY <1>1, <1>2, <1>5 DEF IInv, ProviderIsCurrent, HeldAreRecorded
<1>11. KeptIsThere'
  <2>1. Awaited' \subseteq Awaited
    BY <1>1, <1>4, <1>5 DEF Awaited
  <2> QED BY <1>1, <1>2, <1>3, <1>5, <2>1 DEF IInv, KeptIsThere, Calling
<1> QED BY <1>1, <1>6, <1>7, <1>8, <1>9, <1>10, <1>11, RequestStays DEF IInv

LEMMA StartStep ==
  ASSUME ModelsAreNamed, IInv, NEW m \in Models, Start(m)
  PROVE  IInv'
<1>1. PICK ctx \in {<<>>, fresh} : Begin(m, ctx) /\ UNCHANGED <<fresh, waiting>>
  BY DEF Start
<1>2. waiting = <<>> /\ ctx \in Seq(CallIds) /\ fresh \in Seq(CallIds)
  BY DEF Start, IInv, Shapes
<1>3. Elements(ctx) \subseteq Unsent /\ Elements(fresh) \subseteq Unsent
  BY NoElements DEF Unsent
<1> QED BY <1>1, <1>2, <1>3, BeginStep

LEMMA ResumeStep ==
  ASSUME ModelsAreNamed, IInv, NEW m \in Models, Resume(m)
  PROVE  IInv'
<1>1. PICK ctx : ctx = waiting
  OBVIOUS
<1>2. Begin(m, ctx) /\ waiting' = <<>> /\ fresh' = fresh \o waiting
  BY <1>1 DEF Resume
<1>3. waiting \in Seq(CallIds) /\ fresh \in Seq(CallIds)
  BY DEF IInv, Shapes
<1>4. Elements(fresh') = Elements(fresh) \cup Elements(waiting) /\ fresh' \in Seq(CallIds)
  BY <1>2, <1>3, ElementsOfConcat, ConcatProperties
<1>5. Elements(ctx) \subseteq Unsent /\ Elements(fresh') \subseteq Unsent
  BY <1>1, <1>4 DEF Unsent
<1> QED BY <1>1, <1>2, <1>3, <1>4, <1>5, BeginStep

LEMMA RunToolStep ==
  ASSUME IInv, RunTool
  PROVE  IInv'
<1> DEFINE id == Head(run.todo)
<1>1. /\ run.todo # <<>>
      /\ run' = [run EXCEPT !.todo = Tail(run.todo), !.context = Append(run.context, id)]
      /\ fresh' = Append(fresh, id)
      /\ UNCHANGED <<proxied, provider, resets, lastModel, call, old, waiting, kept,
                     turns, last, request>>
  BY DEF RunTool, history
<1>2. /\ run.todo \in Seq(CallIds) /\ run.context \in Seq(CallIds) /\ fresh \in Seq(CallIds)
      /\ run \in [on : BOOLEAN, model : Models \cup {"none"},
                  context : Seq(CallIds), todo : Seq(CallIds)]
  BY DEF IInv, Shapes
<1>3. /\ id \in CallIds /\ id \in Elements(run.todo) /\ Tail(run.todo) \in Seq(CallIds)
      /\ Elements(Tail(run.todo)) \subseteq Elements(run.todo)
  BY <1>1, <1>2, HeadAndTail
<1>4. ~ Calling /\ run.on
  BY <1>1 DEF IInv, RunsAreInOrder
<1> HIDE DEF id
<1>5. /\ run'.on /\ run'.model = run.model /\ run'.context = Append(run.context, id)
      /\ run'.todo = Tail(run.todo)
  BY <1>1, <1>2, <1>4
<1>6. /\ Elements(run'.context) = Elements(run.context) \cup {id}
      /\ Elements(fresh') = Elements(fresh) \cup {id}
      /\ run'.context \in Seq(CallIds) /\ fresh' \in Seq(CallIds)
  BY <1>1, <1>2, <1>3, <1>5, ElementsOfAppend, AppendProperties
<1>7. id \in Unsent /\ Unsent' \subseteq Unsent /\ Held' \subseteq Held /\ id.turn = last
  BY <1>1, <1>3, <1>5, <1>6 DEF Unsent, Held, IInv, HeldAreRecorded
<1>8. call.phase = "none"
  BY <1>4 DEF Calling
<1>9. Shapes'
  BY <1>1, <1>2, <1>3, <1>6 DEF IInv, Shapes
<1>10. RunsAreInOrder'
  BY <1>1, <1>4, <1>5, <1>8 DEF IInv, RunsAreInOrder, Calling, Streaming
<1>11. HeldAreRecorded'
  BY <1>1, <1>7, <1>8 DEF IInv, HeldAreRecorded
<1>12. OldAreLost'
  BY <1>1, <1>7, <1>8 DEF IInv, OldAreLost, Streaming
<1>13. ProviderIsCurrent'
  BY <1>1, <1>4, <1>5, <1>6, <1>7, <1>8 DEF IInv, ProviderIsCurrent
<1>14. KeptIsThere'
  <2>1. Awaited' \subseteq Awaited
    BY <1>1, <1>7, <1>8 DEF Awaited
  <2> QED BY <1>1, <1>5, <1>8, <2>1 DEF IInv, KeptIsThere, Calling
<1> QED BY <1>1, <1>9, <1>10, <1>11, <1>12, <1>13, <1>14, RequestStays DEF IInv

LEMMA AskApprovalStep ==
  ASSUME IInv, AskApproval
  PROVE  IInv'
<1> DEFINE id == Head(run.todo)
<1>1. /\ run.todo # <<>> /\ waiting' = <<id>> /\ run' = NoRun
      /\ UNCHANGED <<proxied, provider, resets, lastModel, call, old, fresh, kept,
                     turns, last, request>>
  BY DEF AskApproval, history
<1>2. run.todo \in Seq(CallIds)
  BY DEF IInv, Shapes
<1>3. id \in CallIds /\ id \in Elements(run.todo)
  BY <1>1, <1>2, HeadAndTail
<1>4. call.phase = "none"
  BY <1>1 DEF IInv, RunsAreInOrder, Calling
<1> HIDE DEF id
<1>5. /\ ~ run'.on /\ run'.context = <<>> /\ run'.todo = <<>>
      /\ run' \in [on : BOOLEAN, model : Models \cup {"none"},
                   context : Seq(CallIds), todo : Seq(CallIds)]
  BY <1>1 DEF NoRun
<1>6. Unsent' \subseteq Unsent /\ Held' \subseteq Held
  BY <1>1, <1>3, <1>5, NoElements, OneElement DEF Unsent, Held
<1>7. waiting' \in Seq(CallIds)
  BY <1>1, <1>3
<1>8. Shapes'
  BY <1>1, <1>5, <1>7 DEF IInv, Shapes
<1>9. RunsAreInOrder'
  BY <1>1, <1>4, <1>5 DEF IInv, RunsAreInOrder, Calling, Streaming
<1>10. HeldAreRecorded'
  BY <1>1, <1>4, <1>6 DEF IInv, HeldAreRecorded
<1>11. OldAreLost'
  BY <1>1, <1>4, <1>6 DEF IInv, OldAreLost, Streaming
<1>12. ProviderIsCurrent'
  BY <1>5 DEF ProviderIsCurrent
<1>13. KeptIsThere'
  <2>1. Awaited' \subseteq Awaited
    BY <1>1, <1>4, <1>6 DEF Awaited
  <2> QED BY <1>1, <1>4, <2>1 DEF IInv, KeptIsThere, Calling
<1> QED BY <1>1, <1>8, <1>9, <1>10, <1>11, <1>12, <1>13, RequestStays DEF IInv

LEMMA AskResetStep ==
  ASSUME IInv, AskReset
  PROVE  IInv'
<1>1. /\ run.on /\ run.todo = <<>> /\ call.phase = "none" /\ run.model \in resets
      /\ resets' = resets \ {run.model}
      /\ provider' = [provider EXCEPT ![run.model] = <<>>]
      /\ call' = [call EXCEPT !.phase = "reset"]
      /\ UNCHANGED <<proxied, lastModel, run, old, fresh, waiting, kept, turns, last, request>>
  BY DEF AskReset, Asking, history
<1>2. run.model \in Models /\ lastModel = run.model /\ waiting = <<>>
  BY <1>1 DEF IInv, RunsAreInOrder
<1>3. kept = 0
  BY <1>1, <1>2 DEF IInv, KeptIsThere
<1>4. call'.phase = "reset" /\ call' \in [phase : CallPhases, turn : Nat, calls : Seq(CallIds)]
  BY <1>1 DEF IInv, Shapes, CallPhases
<1>5. provider' \in [Models -> Seq(CallIds)] /\ provider'[run.model] = <<>>
  BY <1>1, <1>2 DEF IInv, Shapes
<1>6. Unsent' = Unsent /\ Held' = Held
  BY <1>1 DEF Unsent, Held
<1>7. Shapes'
  BY <1>1, <1>4, <1>5 DEF IInv, Shapes
<1>8. RunsAreInOrder'
  BY <1>1, <1>2, <1>4 DEF RunsAreInOrder, Calling, Streaming
<1>9. HeldAreRecorded'
  BY <1>1, <1>4, <1>6 DEF IInv, HeldAreRecorded
<1>10. OldAreLost'
  BY <1>1, <1>4, <1>6 DEF IInv, OldAreLost, Streaming
<1>11. ProviderIsCurrent'
  BY <1>1, <1>5, NoElements DEF ProviderIsCurrent
<1>12. KeptIsThere'
  BY <1>1, <1>3, <1>4 DEF KeptIsThere
<1> QED BY <1>1, <1>7, <1>8, <1>9, <1>10, <1>11, <1>12, RequestStays DEF IInv

(* What goes out as the result of a call is a result of the last turn's    *)
(* calls, and all of those the agent holds do.                             *)
LEMMA SendStep ==
  ASSUME IInv, Send
  PROVE  IInv'
<1>1. PICK pending : pending = provider[run.model]
  OBVIOUS
<1>2. /\ run.on /\ run.todo = <<>> /\ turns' = turns + 1
      /\ call.phase = "reset" \/ (call.phase = "none" /\ run.model \notin resets)
      /\ call' = [phase |-> "open", turn |-> turns + 1, calls |-> <<>>]
      /\ request' = [last |-> last, kept |-> kept, context |-> run.context,
                     pending |-> pending, bound |-> Bound(run.context, pending)]
      /\ fresh' = <<>>
      /\ UNCHANGED <<proxied, provider, resets, lastModel, run, old, waiting, last, kept>>
  BY <1>1 DEF Send, Asking
<1>3. run.model \in Models /\ lastModel = run.model /\ waiting = <<>>
  BY <1>2 DEF IInv, RunsAreInOrder
<1>4. turns \in Nat /\ last \in 0 .. turns /\ kept \in 0 .. turns
      /\ run.context \in Seq(CallIds) /\ pending \in Seq(CallIds)
  BY <1>1, <1>3 DEF IInv, Shapes
<1>5. /\ call'.phase = "open" /\ call'.turn = turns + 1
      /\ call' \in [phase : CallPhases, turn : Nat, calls : Seq(CallIds)]
  BY <1>2, <1>4 DEF CallPhases
<1>6. Unsent' \subseteq Unsent /\ Held' \subseteq Held
  BY <1>2, NoElements DEF Unsent, Held
<1>7. Shapes'
  <2>1. <<>> \in Seq(CallIds)
    OBVIOUS
  <2> QED BY <1>2, <1>4, <1>5, <2>1 DEF IInv, Shapes
<1>8. RunsAreInOrder'
  BY <1>2, <1>3, <1>4, <1>5 DEF RunsAreInOrder, Calling, Streaming
<1>9. HeldAreRecorded'
  BY <1>2, <1>5, <1>6 DEF IInv, HeldAreRecorded
<1>10. OldAreLost'
  <2> SUFFICES ASSUME NEW s \in old
               PROVE  /\ s.turn <= turns' /\ s.turn # last' /\ s.turn # call'.turn
                      /\ \A id \in Held' : id.turn # s.turn
    BY <1>2 DEF OldAreLost
  <2>1. s.turn \in Nat /\ s.turn <= turns
    BY DEF IInv, Shapes, OldAreLost
  <2> QED BY <1>2, <1>4, <1>5, <1>6, <2>1 DEF IInv, OldAreLost
<1>11. ProviderIsCurrent'
  BY <1>2, <1>5 DEF IInv, ProviderIsCurrent
<1>12. KeptIsThere'
  <2>1. run.model \notin resets
    BY <1>2 DEF IInv, KeptIsThere, Calling
  <2>2. Awaited' \subseteq Awaited
    BY <1>5, <1>6 DEF Awaited
  <2> QED BY <1>2, <1>5, <2>1, <2>2 DEF IInv, KeptIsThere
<1> DEFINE bound == Bound(run.context, pending)
<1>13. request'.bound = bound /\ request'.last = last /\ request'.kept = kept
       /\ request'.context = run.context
  BY <1>2
<1> HIDE DEF bound
<1>14. BoundResultsAreCurrent'
  <2> SUFFICES ASSUME NEW pair \in bound
               PROVE  /\ pair[1] = pair[2] /\ pair[1].turn = last
                      /\ \A other \in bound : other[2] = pair[2] => other = pair
    BY <1>13 DEF BoundResultsAreCurrent
  <2>1. \A other \in bound : /\ other = <<other[1], other[1]>>
                             /\ other[1] \in Elements(run.context)
                             /\ other[1] \in Elements(pending)
    BY <1>4, BoundAreMatches DEF bound
  <2>2. pair[1].turn = last
    BY <1>1, <1>2, <2>1 DEF IInv, ProviderIsCurrent
  <2>3. \A other \in bound : other[2] = other[1]
    <3> SUFFICES ASSUME NEW other \in bound PROVE other[2] = other[1]
      OBVIOUS
    <3>1. PICK x : other = <<x, x>>
      BY <2>1
    <3> QED BY <3>1
  <2> QED BY <2>1, <2>2, <2>3
<1>15. ResultsAreBound'
  <2> SUFFICES ASSUME NEW j \in 1 .. Len(run.context), run.context[j].turn = kept
               PROVE  \E pair \in bound : pair[1] = run.context[j]
    BY <1>13 DEF ResultsAreBound
  <2> DEFINE id == run.context[j]
  <2>1. id \in Elements(run.context) /\ id \in Held
    BY DEF Elements, Held
  <2>2. kept # 0
    BY <2>1 DEF IInv, HeldAreRecorded
  <2>3. id \in Elements(pending)
    BY <1>1, <1>3, <2>1, <2>2 DEF IInv, KeptIsThere, Awaited
  <2>4. <<id, id>> \in bound
    BY <1>4, <2>1, <2>3, MatchesAreBound DEF bound
  <2> QED BY <2>4
<1> QED BY <1>7, <1>8, <1>9, <1>10, <1>11, <1>12, <1>14, <1>15 DEF IInv

LEMMA AnswerStep ==
  ASSUME IInv, NEW n \in 0 .. MaxCalls, Answer(n)
  PROVE  IInv'
<1>1. PICK ids : ids = Ids(call.turn, n)
  OBVIOUS
<1>2. /\ call.phase = "open" /\ kept' = call.turn
      /\ call' = [call EXCEPT !.phase = "answered", !.calls = ids]
      /\ provider' = [provider EXCEPT ![run.model] = ids]
      /\ UNCHANGED <<proxied, resets, lastModel, run, old, fresh, waiting, turns, last, request>>
  BY <1>1 DEF Answer, history
<1>3. /\ run.on /\ run.todo = <<>> /\ fresh = <<>> /\ call.turn = turns /\ call.turn > last
      /\ run.model \in Models /\ lastModel = run.model /\ waiting = <<>>
  BY <1>2 DEF IInv, RunsAreInOrder, Calling, Streaming
<1>4. turns \in Nat /\ last \in 0 .. turns /\ call.turn \in Nat
      /\ call \in [phase : CallPhases, turn : Nat, calls : Seq(CallIds)]
  BY <1>3 DEF IInv, Shapes
<1>5. ids \in Seq(CallIds) /\ \A id \in Elements(ids) : id.turn = call.turn
  BY <1>1, <1>4, IdsAreOfTheTurn
<1>6. /\ call'.phase = "answered" /\ call'.turn = call.turn /\ call'.calls = ids
      /\ call' \in [phase : CallPhases, turn : Nat, calls : Seq(CallIds)]
  BY <1>2, <1>4, <1>5 DEF CallPhases
<1>7. provider' \in [Models -> Seq(CallIds)] /\ provider'[run.model] = ids
  BY <1>2, <1>3, <1>5 DEF IInv, Shapes
<1>8. Unsent' = Unsent /\ Held' = Held /\ Elements(run.context) \subseteq Held
  BY <1>2 DEF Unsent, Held
<1>9. \A id \in Held : id.turn < call.turn
  BY <1>3, <1>4 DEF IInv, HeldAreRecorded
<1>10. Shapes'
  BY <1>2, <1>3, <1>4, <1>6, <1>7 DEF IInv, Shapes
<1>11. RunsAreInOrder'
  BY <1>2, <1>3, <1>6 DEF RunsAreInOrder, Calling, Streaming
<1>12. HeldAreRecorded'
  BY <1>2, <1>5, <1>6, <1>8 DEF IInv, HeldAreRecorded
<1>13. OldAreLost'
  BY <1>2, <1>6, <1>8 DEF IInv, OldAreLost, Streaming
<1>14. ProviderIsCurrent'
  <2>1. \A id \in Elements(run.context), c \in Elements(ids) : id.turn # c.turn
    BY <1>4, <1>5, <1>8, <1>9
  <2> QED BY <1>2, <1>7, <2>1 DEF ProviderIsCurrent
<1>15. KeptIsThere'
  <2>1. run.model \notin resets
    BY <1>2 DEF IInv, KeptIsThere, Calling
  <2>2. Awaited' = Held \cup Elements(ids)
    BY <1>6, <1>8 DEF Awaited
  <2>3. \A id \in Awaited' : id.turn = call.turn => id \in Elements(ids)
    BY <1>4, <1>9, <2>2
  <2> QED BY <1>2, <1>3, <1>6, <1>7, <2>1, <2>3 DEF KeptIsThere
<1> QED BY <1>2, <1>10, <1>11, <1>12, <1>13, <1>14, <1>15, RequestStays DEF IInv

LEMMA NoRunIsARun ==
  NoRun \in [on : BOOLEAN, model : Models \cup {"none"},
            context : Seq(CallIds), todo : Seq(CallIds)]
<1>1. <<>> \in Seq(CallIds)
  OBVIOUS
<1> QED BY <1>1 DEF NoRun

LEMMA DeliverStep ==
  ASSUME IInv, Deliver
  PROVE  IInv'
<1>1. /\ call.phase = "answered" /\ call' = NoCall /\ last' = call.turn
      /\ provider' = [provider EXCEPT ![run.model] = provider[run.model]]
      /\ run' = IF call.calls = <<>> THEN NoRun ELSE [run EXCEPT !.todo = call.calls]
      /\ UNCHANGED <<proxied, resets, lastModel, old, fresh, waiting, turns, kept, request>>
  BY DEF Deliver, Left
<1>2. /\ run.on /\ run.todo = <<>> /\ fresh = <<>> /\ call.turn = turns /\ call.turn > last
      /\ run.model \in Models /\ lastModel = run.model /\ waiting = <<>>
  BY <1>1 DEF IInv, RunsAreInOrder, Calling, Streaming
<1>3. /\ turns \in Nat /\ last \in 0 .. turns /\ call.turn \in Nat /\ call.calls \in Seq(CallIds)
      /\ run \in [on : BOOLEAN, model : Models \cup {"none"},
                  context : Seq(CallIds), todo : Seq(CallIds)]
  BY <1>2 DEF IInv, Shapes
<1>4. provider' = provider
  BY <1>1 DEF IInv, Shapes
<1>5. call'.phase = "none" /\ call' \in [phase : CallPhases, turn : Nat, calls : Seq(CallIds)]
  BY <1>1 DEF NoCall, CallPhases
<1>6. \/ /\ run' = NoRun /\ ~ run'.on /\ run'.context = <<>> /\ run'.todo = <<>>
      \/ /\ run' = [run EXCEPT !.todo = call.calls]
         /\ run'.on /\ run'.model = run.model /\ run'.context = run.context
         /\ run'.todo = call.calls
  BY <1>1, <1>2, <1>3 DEF NoRun
<1>7. run' \in [on : BOOLEAN, model : Models \cup {"none"},
                context : Seq(CallIds), todo : Seq(CallIds)]
  <2>1. NoRun \in [on : BOOLEAN, model : Models \cup {"none"},
                  context : Seq(CallIds), todo : Seq(CallIds)]
    BY NoRunIsARun
  <2>2. [run EXCEPT !.todo = call.calls] \in
          [on : BOOLEAN, model : Models \cup {"none"},
           context : Seq(CallIds), todo : Seq(CallIds)]
    BY <1>3
  <2> QED BY <1>6, <2>1, <2>2
<1>8. Elements(run'.context) \subseteq Held /\ Elements(run'.todo) \subseteq Elements(call.calls)
  BY <1>6, NoElements DEF Held
<1>9. /\ Unsent' \subseteq Elements(call.calls)
      /\ Held' \subseteq Held \cup Elements(call.calls)
  BY <1>1, <1>2, <1>8, NoElements DEF Unsent, Held
<1>10. /\ \A id \in Elements(call.calls) : id.turn = call.turn
       /\ \A id \in Held : id.turn \in 1 .. last
  BY <1>1 DEF IInv, HeldAreRecorded
<1>11. Shapes'
  BY <1>1, <1>2, <1>3, <1>4, <1>5, <1>7 DEF IInv, Shapes
<1>12. RunsAreInOrder'
  BY <1>1, <1>2, <1>5, <1>6 DEF RunsAreInOrder, Calling, Streaming
<1>13. HeldAreRecorded'
  <2>1. \A id \in Held' : id.turn \in 1 .. call.turn
    BY <1>2, <1>3, <1>9, <1>10
  <2> QED BY <1>1, <1>5, <1>9, <1>10, <2>1 DEF HeldAreRecorded
<1>14. OldAreLost'
  BY <1>1, <1>5, <1>9, <1>10 DEF IInv, OldAreLost, Streaming
<1>15. ProviderIsCurrent'
  BY <1>1, <1>2, <1>4, <1>6 DEF IInv, ProviderIsCurrent
<1>16. KeptIsThere'
  <2>1. Awaited' \subseteq Awaited
    BY <1>1, <1>5, <1>9 DEF Awaited
  <2> QED BY <1>1, <1>4, <1>5, <2>1 DEF IInv, KeptIsThere, Calling
<1> QED BY <1>1, <1>11, <1>12, <1>13, <1>14, <1>15, <1>16, RequestStays DEF IInv

(* What dropping the stream of a call leaves, and adds to the old ones. *)
LEMMA DropLeaves ==
  ASSUME IInv
  PROVE  /\ AfterDrop \in [Models -> Seq(CallIds)]
         /\ \A m \in Models : AfterDrop[m] = provider[m] \/ AfterDrop[m] = <<>>
         /\ OldAfter \subseteq [model : Models, turn : Nat]
         /\ \A s \in OldAfter : s \in old \/ (call.phase = "open" /\ s.turn = call.turn)
<1>1. /\ provider \in [Models -> Seq(CallIds)] /\ call.turn \in Nat
      /\ old \subseteq [model : Models, turn : Nat]
      /\ call.phase = "open" => run.model \in Models
  BY DEF IInv, Shapes, RunsAreInOrder, Calling
<1>2. CASE Abandoned
  <2>1. AfterDrop = provider /\ call.phase = "open"
    BY <1>2 DEF AfterDrop, Abandoned
  <2>2. OldAfter = old \cup {[model |-> run.model, turn |-> call.turn]}
    BY <1>2 DEF OldAfter
  <2> QED BY <1>1, <2>1, <2>2
<1>3. CASE ~ Abandoned
  <2>1. OldAfter = old
    BY <1>3 DEF OldAfter
  <2>2. AfterDrop = provider \/ AfterDrop = [provider EXCEPT ![run.model] = <<>>]
    BY <1>3 DEF AfterDrop, Left
  <2>3. <<>> \in Seq(CallIds)
    OBVIOUS
  <2> QED BY <1>1, <2>1, <2>2, <2>3
<1> QED BY <1>2, <1>3

(* A call is over without an answer, and perhaps its run: what is kept is  *)
(* forgotten, what was held is at most what it was.                        *)
LEMMA CallIsLost ==
  ASSUME IInv,
         provider' \in [Models -> Seq(CallIds)],
         \A m \in Models : provider'[m] = provider[m] \/ provider'[m] = <<>>,
         old' \subseteq [model : Models, turn : Nat],
         \A s \in old' : s \in old \/ (call.phase = "open" /\ s.turn = call.turn),
         resets' \subseteq Models, lastModel' \in Models \cup {"none"}, call' = NoCall, kept' = 0,
         run' = NoRun \/ (run' = run /\ lastModel' = lastModel),
         waiting' = waiting \/ waiting' = <<>>,
         UNCHANGED <<fresh, turns, last, request>>
  PROVE  IInv'
<1>1. call'.phase = "none" /\ call' \in [phase : CallPhases, turn : Nat, calls : Seq(CallIds)]
  BY DEF NoCall, CallPhases
<1>2. /\ run' \in [on : BOOLEAN, model : Models \cup {"none"},
                   context : Seq(CallIds), todo : Seq(CallIds)]
      /\ waiting' \in Seq(CallIds)
  <2>1. /\ NoRun \in [on : BOOLEAN, model : Models \cup {"none"},
                     context : Seq(CallIds), todo : Seq(CallIds)]
        /\ run \in [on : BOOLEAN, model : Models \cup {"none"},
                   context : Seq(CallIds), todo : Seq(CallIds)]
    BY NoRunIsARun DEF IInv, Shapes
  <2>2. waiting \in Seq(CallIds) /\ <<>> \in Seq(CallIds)
    BY DEF IInv, Shapes
  <2> QED BY <2>1, <2>2
<1>3. \/ run' = run /\ lastModel' = lastModel
      \/ ~ run'.on /\ run'.context = <<>> /\ run'.todo = <<>>
  BY DEF NoRun
<1>4. Unsent' \subseteq Unsent /\ Held' \subseteq Held
  BY <1>3, NoElements DEF Unsent, Held
<1>5. turns \in Nat /\ last \in 0 .. turns /\ call.turn \in Nat
  BY DEF IInv, Shapes
<1>6. Shapes'
  <2>1. fresh' \in Seq(CallIds) /\ turns' \in Nat /\ last' \in 0 .. turns' /\ kept' \in 0 .. turns'
    BY <1>5 DEF IInv, Shapes
  <2> QED BY <1>1, <1>2, <2>1 DEF Shapes
<1>7. RunsAreInOrder'
  BY <1>1, <1>3 DEF IInv, RunsAreInOrder, Calling, Streaming
<1>8. HeldAreRecorded'
  BY <1>1, <1>4 DEF IInv, HeldAreRecorded
<1>9. OldAreLost'
  <2> SUFFICES ASSUME NEW s \in old'
               PROVE  s.turn <= turns /\ s.turn # last /\ \A id \in Held' : id.turn # s.turn
    BY <1>1 DEF OldAreLost, Streaming
  <2>1. CASE s \in old
    BY <1>4, <2>1 DEF IInv, OldAreLost
  <2>2. CASE call.phase = "open" /\ s.turn = call.turn
    <3>1. call.turn = turns /\ call.turn > last
      BY <2>2 DEF IInv, RunsAreInOrder, Streaming
    <3>2. \A id \in Held : id.turn # call.turn
      BY <1>5, <3>1 DEF IInv, HeldAreRecorded
    <3> QED BY <1>4, <1>5, <2>2, <3>1, <3>2
  <2> QED BY <2>1, <2>2
<1>10. ProviderIsCurrent'
  <2> SUFFICES ASSUME run'.on, run' = run, NEW id \in Elements(run.context),
                      NEW c \in Elements(provider'[run.model]), id.turn = c.turn
               PROVE  id.turn = last
    BY <1>1, <1>3 DEF ProviderIsCurrent
  <2>1. run.model \in Models /\ run.on
    BY DEF IInv, RunsAreInOrder
  <2>2. c \in Elements(provider[run.model])
    BY <2>1, NoElements
  <2> QED BY <2>1, <2>2 DEF IInv, ProviderIsCurrent
<1>11. KeptIsThere'
  BY <1>1 DEF KeptIsThere, Calling
<1> QED BY <1>6, <1>7, <1>8, <1>9, <1>10, <1>11, RequestStays DEF IInv

LEMMA FailStep ==
  ASSUME IInv, NEW ends \in BOOLEAN, Fail(ends)
  PROVE  IInv'
<1> DEFINE models == IF ends THEN Models ELSE {run.model}
<1>1. /\ run.on /\ ResetIn(models, AfterDrop) /\ old' = OldAfter
      /\ call' = NoCall /\ run' = (IF ends THEN NoRun ELSE run)
      /\ UNCHANGED <<lastModel, fresh, waiting, turns, last, request>>
  BY DEF Fail, Asking, history
<1>2. models \in SUBSET Models
  BY <1>1 DEF IInv, RunsAreInOrder
<1> HIDE DEF models
<1>3. /\ AfterDrop \in [Models -> Seq(CallIds)]
      /\ \A m \in Models : AfterDrop[m] = provider[m] \/ AfterDrop[m] = <<>>
      /\ old' \subseteq [model : Models, turn : Nat]
      /\ \A s \in old' : s \in old \/ (call.phase = "open" /\ s.turn = call.turn)
  BY <1>1, DropLeaves
<1>4. /\ provider' \in [Models -> Seq(CallIds)] /\ kept' = 0 /\ resets' \subseteq Models
      /\ \A m \in Models : provider'[m] = AfterDrop[m] \/ provider'[m] = <<>>
  BY <1>1, <1>2, <1>3, ResetLeaves DEF IInv, Shapes
<1>5. \A m \in Models : provider'[m] = provider[m] \/ provider'[m] = <<>>
  BY <1>3, <1>4
<1>6. lastModel' \in Models \cup {"none"} /\ (run' = NoRun \/ run' = run)
  BY <1>1 DEF IInv, Shapes
<1> QED BY <1>1, <1>3, <1>4, <1>5, <1>6, CallIsLost

LEMMA CancelStep ==
  ASSUME IInv, Cancel
  PROVE  IInv'
<1>1. /\ ResetIn(Models, AfterDrop) /\ old' = OldAfter
      /\ call' = NoCall /\ run' = NoRun /\ waiting' = <<>>
      /\ UNCHANGED <<lastModel, fresh, turns, last, request>>
  BY DEF Cancel, history
<1>2. /\ AfterDrop \in [Models -> Seq(CallIds)]
      /\ \A m \in Models : AfterDrop[m] = provider[m] \/ AfterDrop[m] = <<>>
      /\ old' \subseteq [model : Models, turn : Nat]
      /\ \A s \in old' : s \in old \/ (call.phase = "open" /\ s.turn = call.turn)
  BY <1>1, DropLeaves
<1>3. /\ provider' \in [Models -> Seq(CallIds)] /\ kept' = 0 /\ resets' \subseteq Models
      /\ \A m \in Models : provider'[m] = AfterDrop[m] \/ provider'[m] = <<>>
  BY <1>1, <1>2, ResetLeaves DEF IInv, Shapes
<1>4. \A m \in Models : provider'[m] = provider[m] \/ provider'[m] = <<>>
  BY <1>2, <1>3
<1>5. lastModel' \in Models \cup {"none"}
  BY <1>1 DEF IInv, Shapes
<1> QED BY <1>1, <1>2, <1>3, <1>4, <1>5, CallIsLost

(* A stream nobody waits for ends: with calls of its turn, of which nobody *)
(* has results, or with none.                                              *)
LEMMA OldEndsStep ==
  ASSUME IInv, NEW s \in old, NEW ids \in Seq(CallIds),
         \A id \in Elements(ids) : id.turn = s.turn, OldEnds(s, ids)
  PROVE  IInv'
<1>1. /\ old' = old \ {s} /\ provider' = [provider EXCEPT ![s.model] = ids] /\ kept' = 0
      /\ UNCHANGED <<resets, lastModel, run, call, fresh, waiting, turns, last, request>>
  BY DEF OldEnds, history
<1>2. s.model \in Models /\ provider \in [Models -> Seq(CallIds)] /\ turns \in Nat
  BY DEF IInv, Shapes
<1>3. /\ provider' \in [Models -> Seq(CallIds)] /\ provider'[s.model] = ids
      /\ \A m \in Models : m # s.model => provider'[m] = provider[m]
  BY <1>1, <1>2
<1>4. Unsent' = Unsent /\ Held' = Held /\ Elements(run.context) \subseteq Held
  BY <1>1 DEF Unsent, Held
<1>5. Shapes'
  <2>1. old' \subseteq [model : Models, turn : Nat]
    BY <1>1 DEF IInv, Shapes
  <2>2. last' \in 0 .. turns' /\ kept' \in 0 .. turns'
    BY <1>1, <1>2 DEF IInv, Shapes
  <2> QED BY <1>1, <1>3, <2>1, <2>2 DEF IInv, Shapes
<1>6. RunsAreInOrder'
  BY <1>1 DEF IInv, RunsAreInOrder, Calling, Streaming
<1>7. HeldAreRecorded'
  BY <1>1, <1>4 DEF IInv, HeldAreRecorded
<1>8. OldAreLost'
  BY <1>1, <1>4 DEF IInv, OldAreLost, Streaming
<1>9. ProviderIsCurrent'
  <2> SUFFICES ASSUME run.on, NEW id \in Elements(run.context),
                      NEW c \in Elements(provider'[run.model]), id.turn = c.turn
               PROVE  id.turn = last /\ call.phase # "answered"
    BY <1>1 DEF ProviderIsCurrent
  <2>1. run.model \in Models
    BY DEF IInv, RunsAreInOrder
  <2>2. run.model # s.model
    BY <1>3, <1>4 DEF IInv, OldAreLost
  <2> QED BY <1>3, <2>1, <2>2 DEF IInv, ProviderIsCurrent
<1>10. KeptIsThere'
  BY <1>1 DEF IInv, KeptIsThere, Calling
<1> QED BY <1>1, <1>5, <1>6, <1>7, <1>8, <1>9, <1>10, RequestStays DEF IInv

LEMMA OldStep ==
  ASSUME IInv, NEW s \in old, OldDropped(s) \/ \E n \in 0 .. MaxCalls : OldAnswers(s, n)
  PROVE  IInv'
<1>1. CASE OldDropped(s)
  <2>1. OldEnds(s, <<>>) /\ <<>> \in Seq(CallIds)
    BY <1>1 DEF OldDropped, Left
  <2> QED BY <2>1, NoElements, OldEndsStep
<1>2. ASSUME NEW n \in 0 .. MaxCalls, OldAnswers(s, n) PROVE IInv'
  <2>1. PICK ids : ids = Ids(s.turn, n)
    OBVIOUS
  <2>2. OldEnds(s, ids)
    BY <1>2, <2>1 DEF OldAnswers
  <2>3. s.turn \in Nat
    BY DEF IInv, Shapes
  <2>4. ids \in Seq(CallIds) /\ \A id \in Elements(ids) : id.turn = s.turn
    BY <2>1, <2>3, IdsAreOfTheTurn
  <2> QED BY <2>2, <2>4, OldEndsStep
<1> QED BY <1>1, <1>2

LEMMA RestartStep ==
  ASSUME IInv, Restart
  PROVE  IInv'
<1>1. /\ run' = NoRun /\ call' = NoCall /\ resets' = {} /\ lastModel' = "none" /\ kept' = 0
      /\ provider' = (IF proxied THEN AfterDrop ELSE [m \in Models |-> <<>>])
      /\ old' = OldAfter
      /\ UNCHANGED <<fresh, waiting, turns, last, request>>
  BY DEF Restart, history
<1>2. /\ AfterDrop \in [Models -> Seq(CallIds)]
      /\ \A m \in Models : AfterDrop[m] = provider[m] \/ AfterDrop[m] = <<>>
      /\ old' \subseteq [model : Models, turn : Nat]
      /\ \A s \in old' : s \in old \/ (call.phase = "open" /\ s.turn = call.turn)
  BY <1>1, DropLeaves
<1>3. /\ provider' \in [Models -> Seq(CallIds)]
      /\ \A m \in Models : provider'[m] = provider[m] \/ provider'[m] = <<>>
  <2>1. <<>> \in Seq(CallIds)
    OBVIOUS
  <2> QED BY <1>1, <1>2, <2>1
<1> QED BY <1>1, <1>2, <1>3, CallIsLost

LEMMA RestartProxyStep ==
  ASSUME IInv, RestartProxy
  PROVE  IInv'
<1>1. /\ provider' = [m \in Models |-> <<>>] /\ old' = {} /\ kept' = 0 /\ call' = NoCall
      /\ resets' = (IF call = NoCall THEN resets ELSE resets \cup {run.model})
      /\ UNCHANGED <<lastModel, run, fresh, waiting, turns, last, request>>
  BY DEF RestartProxy, history
<1>2. provider' \in [Models -> Seq(CallIds)] /\ \A m \in Models : provider'[m] = <<>>
  <2>1. <<>> \in Seq(CallIds)
    OBVIOUS
  <2> QED BY <1>1, <2>1
<1>3. call # NoCall => run.model \in Models
  BY DEF IInv, RunsAreInOrder
<1>4. resets' \subseteq Models /\ lastModel' \in Models \cup {"none"}
  BY <1>1, <1>3 DEF IInv, Shapes
<1> QED BY <1>1, <1>2, <1>4, CallIsLost

LEMMA InitSetsUp ==
  ASSUME Init
  PROVE  IInv
<1>1. <<>> \in Seq(CallIds) /\ NoRun \in [on : BOOLEAN, model : Models \cup {"none"},
                                        context : Seq(CallIds), todo : Seq(CallIds)]
  BY NoRunIsARun
<1>2. /\ ~ run.on /\ run.context = <<>> /\ run.todo = <<>> /\ call.phase = "none"
      /\ call \in [phase : CallPhases, turn : Nat, calls : Seq(CallIds)]
  BY <1>1 DEF Init, NoRun, NoCall, CallPhases
<1>3. Shapes
  BY <1>1, <1>2 DEF Init, Shapes
<1>4. Unsent = {} /\ Held = {}
  BY <1>2, NoElements DEF Init, Unsent, Held
<1>5. RunsAreInOrder /\ HeldAreRecorded /\ OldAreLost /\ ProviderIsCurrent /\ KeptIsThere
  BY <1>2, <1>4 DEF Init, RunsAreInOrder, Calling, Streaming, HeldAreRecorded, OldAreLost,
                    ProviderIsCurrent, KeptIsThere
<1>6. BoundResultsAreCurrent /\ ResultsAreBound
  <2>1. request.bound = {} /\ request.context = <<>>
    BY DEF Init
  <2>2. 1 .. Len(request.context) = {}
    BY <2>1
  <2> QED BY <2>1, <2>2 DEF BoundResultsAreCurrent, ResultsAreBound
<1> QED BY <1>3, <1>5, <1>6 DEF IInv

LEMMA Stutters ==
  ASSUME IInv, UNCHANGED vars
  PROVE  IInv'
<1>1. UNCHANGED <<proxied, provider, resets, lastModel, run, call, old, fresh, waiting,
                  turns, last, kept, request>>
  BY DEF vars
<1>2. Unsent' = Unsent /\ Held' = Held /\ Awaited' = Awaited
  BY <1>1 DEF Unsent, Held, Awaited
<1>3. Shapes' /\ RunsAreInOrder' /\ HeldAreRecorded'
  BY <1>1, <1>2 DEF IInv, Shapes, RunsAreInOrder, HeldAreRecorded, Calling, Streaming
<1>4. OldAreLost' /\ ProviderIsCurrent' /\ KeptIsThere'
  BY <1>1, <1>2 DEF IInv, OldAreLost, ProviderIsCurrent, KeptIsThere, Calling, Streaming
<1> QED BY <1>1, <1>3, <1>4, RequestStays DEF IInv

LEMMA NextKeeps ==
  ASSUME ModelsAreNamed, IInv, [Next]_vars
  PROVE  IInv'
<1>1. CASE \E m \in Models : Start(m) \/ Resume(m)
  BY <1>1, StartStep, ResumeStep
<1>2. CASE RunTool \/ AskApproval
  BY <1>2, RunToolStep, AskApprovalStep
<1>3. CASE AskReset \/ Send \/ Deliver
  BY <1>3, AskResetStep, SendStep, DeliverStep
<1>4. CASE \E n \in 0 .. MaxCalls : Answer(n)
  BY <1>4, AnswerStep
<1>5. CASE Cancel \/ \E ends \in BOOLEAN : Fail(ends)
  BY <1>5, CancelStep, FailStep
<1>6. CASE \E s \in old : OldDropped(s) \/ \E n \in 0 .. MaxCalls : OldAnswers(s, n)
  BY <1>6, OldStep
<1>7. CASE Restart \/ RestartProxy
  BY <1>7, RestartStep, RestartProxyStep
<1>8. CASE UNCHANGED vars
  BY <1>8, Stutters
<1> QED BY <1>1, <1>2, <1>3, <1>4, <1>5, <1>6, <1>7, <1>8 DEF Next

-----------------------------------------------------------------------------
(***************************************************************************)
(* The theorems.                                                           *)
(***************************************************************************)
(* What the agent, its providers and the proxy hold fits together, with    *)
(* any names of models that differ from the mark of none.                  *)
THEOREM InductiveInvariant ==
  ASSUME ModelsAreNamed
  PROVE  Spec => []IInv
<1>1. Init => IInv
  BY InitSetsUp
<1>2. IInv /\ [Next]_vars => IInv'
  BY NextKeeps
<1> QED BY <1>1, <1>2, PTL DEF Spec

(* A result goes out under its own call only, a call of the last turn the  *)
(* agent recorded, whatever streams ended late, were broken off, cancelled *)
(* or survived a restart of the agent at the proxy.                        *)
THEOREM BoundResultsStayCurrent ==
  ASSUME ModelsAreNamed
  PROVE  Spec => []BoundResultsAreCurrent
<1>1. IInv => BoundResultsAreCurrent
  BY DEF IInv
<1> QED BY <1>1, InductiveInvariant, PTL

(* As long as nothing took the calls of the last answer back, none of its  *)
(* results goes out as text.                                               *)
THEOREM ResultsStayBound ==
  ASSUME ModelsAreNamed
  PROVE  Spec => []ResultsAreBound
<1>1. IInv => ResultsAreBound
  BY DEF IInv
<1> QED BY <1>1, InductiveInvariant, PTL

(* Both: results and calls meet.                                           *)
THEOREM ResultsAndCallsMeet ==
  ASSUME ModelsAreNamed
  PROVE  Spec => []ResultsMeetTheirCalls
<1>1. BoundResultsAreCurrent /\ ResultsAreBound => ResultsMeetTheirCalls
  BY DEF ResultsMeetTheirCalls
<1> QED BY <1>1, BoundResultsStayCurrent, ResultsStayBound, PTL

-----------------------------------------------------------------------------
(***************************************************************************)
(* One streamed answer, of any calls and any length, with any number of    *)
(* messages on their way: its one outcome decides what the next request    *)
(* goes on with, its calls are whole, and what was shown is its text.      *)
(*                                                                         *)
(* The argument: what the accumulator holds is what the server had sent    *)
(* some messages ago, and the messages of the buffer lead from there to    *)
(* what it has sent by now.  An outcome is an item, the first is the last, *)
(* and the pieces of the text among the items are as many as the           *)
(* accumulator has.                                                        *)
(***************************************************************************)
CONSTANTS Protocols, Calls, MaxPieces, MaxBuffer
VARIABLES protocol, answer, server, buffer, body, acc, queue, shown, done, dropped, pending
Stream == INSTANCE ModelStream

Stages == {"none", "named", "piece", "last", "argsdone", "itemdone"}
Finals == {"DONE", "completed", "bare"}
Ops == (Stages \ {"none"}) \cup Finals \cup {"text", "textdone", "failure"}
States == [text : Nat, stage : [Calls -> Stages], final : BOOLEAN]
Tools == [named : BOOLEAN, args : Nat]
Turn == [text : Nat, calls : SUBSET (Calls \X Nat)]
ItemTypes == [kind : {"text", "name", "arguments", "completed", "error"}, turn : Turn]

Types ==
  /\ answer \in [text : Nat, calls : SUBSET Calls] /\ server \in States
  /\ buffer \in Seq([op : Ops, i : Calls \cup {0}])
  /\ acc \in [text : Nat, tools : [Calls -> Tools]]
  /\ queue \in Seq(ItemTypes) /\ shown \in Seq(ItemTypes)
  /\ done \in BOOLEAN /\ dropped \in BOOLEAN

(* What the accumulator holds of a call the server has come so far with. *)
ToolOf(stage) ==
  IF stage = "none" THEN Stream!NoTool
  ELSE IF stage = "named" THEN [named |-> TRUE, args |-> 0]
  ELSE IF stage = "piece" THEN [named |-> TRUE, args |-> 1]
  ELSE [named |-> TRUE, args |-> Stream!Whole]

(* A message takes the server from a state to the next. *)
SaidBy(state) ==
  /\ state.text = answer.text
  /\ \A i \in answer.calls :
       state.stage[i] \in (IF protocol = "chat" THEN {"last"} ELSE {"last", "argsdone", "itemdone"})
SendsText(message, from, to) ==
  /\ message.op = "text" /\ from.text < answer.text
  /\ to.text = from.text + 1 /\ to.stage = from.stage /\ to.final = FALSE
SendsTextDone(message, from, to) ==
  /\ message.op = "textdone" /\ from.text \in {0, answer.text}
  /\ to.text = answer.text /\ to.stage = from.stage /\ to.final = FALSE
SendsCall(message, from, to) ==
  /\ message.i \in answer.calls /\ message.op \in Stream!After(from.stage[message.i])
  /\ to.stage = [from.stage EXCEPT ![message.i] = message.op]
  /\ to.text = from.text /\ to.final = FALSE
SendsFinal(message, from, to) ==
  /\ message.op \in Finals \cup {"failure"}
  /\ message.op \in Finals => SaidBy(from)
  /\ to.text = from.text /\ to.stage = from.stage /\ to.final = TRUE
Sends(message, from, to) ==
  /\ from.final = FALSE
  /\ \/ SendsText(message, from, to) \/ SendsTextDone(message, from, to)
     \/ SendsCall(message, from, to) \/ SendsFinal(message, from, to)

(* The states of the server since the message handled last: one for every  *)
(* message of the buffer, from what the accumulator holds to the server's. *)
LagsBehind(state) ==
  /\ acc.text = state.text /\ state.text <= answer.text
  /\ \A i \in Calls : /\ acc.tools[i] = ToolOf(state.stage[i])
                      /\ i \notin answer.calls => state.stage[i] = "none"
  /\ state.final => done
Path(states) ==
  /\ states \in [0 .. Len(buffer) -> States] /\ states[Len(buffer)] = server
  /\ \A k \in 1 .. Len(buffer) : Sends(buffer[k], states[k - 1], states[k])
  /\ LagsBehind(states[0])
Follows == \E states : Path(states)

Pieces == {k \in 1 .. Len(Stream!Items) : Stream!Items[k].kind = "text"}
TurnFits(turn) ==
  /\ turn.calls \subseteq answer.calls \X {Stream!Whole}
  /\ \/ turn.calls = answer.calls \X {Stream!Whole}
     \/ body # "open" /\ server.final = FALSE

StreamIInv ==
  /\ Types /\ Follows /\ Stream!OutcomeDecidesContinuation
  /\ \A turn \in Stream!Turns : TurnFits(turn)
  /\ Cardinality(Pieces) = acc.text

-----------------------------------------------------------------------------
(* The items. *)
LEMMA SameItems ==
  ASSUME UNCHANGED <<shown, queue>>
  PROVE  Stream!Items' = Stream!Items /\ Stream!Outcomes' = Stream!Outcomes
         /\ Stream!Turns' = Stream!Turns /\ Pieces' = Pieces
<1>1. Stream!Items' = Stream!Items
  BY DEF Stream!Items
<1> QED BY <1>1 DEF Stream!Outcomes, Stream!Turns, Pieces

LEMMA SameContinuation ==
  ASSUME StreamIInv, UNCHANGED <<shown, queue, done, dropped, pending>>
  PROVE  Stream!OutcomeDecidesContinuation'
BY SameItems DEF StreamIInv, Stream!OutcomeDecidesContinuation

LEMMA ItemsAreItems ==
  ASSUME Types
  PROVE  /\ Stream!Items \in Seq(ItemTypes) /\ Len(Stream!Items) \in Nat
         /\ Pieces \in SUBSET (1 .. Len(Stream!Items)) /\ IsFiniteSet(Pieces)
         /\ queue = <<>> => Stream!Items = shown
<1>1. Stream!Items \in Seq(ItemTypes) /\ (queue = <<>> => Stream!Items = shown)
  BY ConcatProperties, ConcatEmptySeq DEF Types, Stream!Items
<1>2. Len(Stream!Items) \in Nat
  BY <1>1, LenProperties
<1>3. Pieces \in SUBSET (1 .. Len(Stream!Items))
  BY DEF Pieces
<1>4. IsFiniteSet(Pieces)
  <2>1. IsFiniteSet(1 .. Len(Stream!Items))
    BY <1>2, FS_Interval
  <2> QED BY <1>3, <2>1, FS_Subset
<1> QED BY <1>1, <1>2, <1>3, <1>4

LEMMA TakenItems ==
  ASSUME Types, Stream!Take
  PROVE  Stream!Items' = Stream!Items /\ queue' \in Seq(ItemTypes) /\ shown' \in Seq(ItemTypes)
<1>1. /\ queue # <<>> /\ shown' = Append(shown, Head(queue)) /\ queue' = Tail(queue)
      /\ queue \in Seq(ItemTypes) /\ shown \in Seq(ItemTypes)
  BY DEF Types, Stream!Take
<1>2. /\ Head(queue) \in ItemTypes /\ Tail(queue) \in Seq(ItemTypes)
      /\ queue = <<Head(queue)>> \o Tail(queue)
  BY <1>1, HeadTailProperties, HeadTailAppend
<1>3. Append(shown, Head(queue)) = shown \o <<Head(queue)>>
  BY <1>1, <1>2, AppendIsConcat
<1>4. <<Head(queue)>> \in Seq(ItemTypes)
  BY <1>2
<1>5. (shown \o <<Head(queue)>>) \o Tail(queue) = shown \o (<<Head(queue)>> \o Tail(queue))
  BY <1>1, <1>2, <1>4, ConcatAssociative
<1>6. Stream!Items' = Stream!Items
  BY <1>1, <1>2, <1>3, <1>5 DEF Stream!Items
<1> QED BY <1>1, <1>2, <1>6, AppendProperties

LEMMA NewItems ==
  ASSUME Types, queue = <<>>, shown' = shown, queue' \in Seq(ItemTypes),
         NEW n \in Nat, n = Len(Stream!Items), NEW t \in Nat, t = Len(queue')
  PROVE  /\ Len(Stream!Items)' = n + t
         /\ \A k \in 1 .. n : Stream!Items'[k] = Stream!Items[k]
         /\ \A k \in 1 .. t : Stream!Items'[n + k] = queue'[k]
         /\ \A k \in (n + 1) .. (n + t) : k - n \in 1 .. t /\ Stream!Items'[k] = queue'[k - n]
<1>1. Stream!Items = shown /\ shown \in Seq(ItemTypes)
  BY ItemsAreItems DEF Types
<1>2. Stream!Items' = shown \o queue'
  BY DEF Stream!Items
<1>3. /\ Len(Stream!Items') = n + t
      /\ \A k \in 1 .. (n + t) : Stream!Items'[k] = IF k <= n THEN shown[k] ELSE queue'[k - n]
  BY <1>1, <1>2, ConcatProperties, LenProperties
<1>4. \A k \in 1 .. t : n + k \in 1 .. (n + t) /\ ~ (n + k <= n) /\ n + k - n = k
  OBVIOUS
<1>5. \A k \in (n + 1) .. (n + t) : k \in 1 .. (n + t) /\ ~ (k <= n) /\ k - n \in 1 .. t
  OBVIOUS
<1>6. \A k \in 1 .. n : k \in 1 .. (n + t)
  OBVIOUS
<1>7. \A k \in 1 .. n : Stream!Items'[k] = Stream!Items[k]
  BY <1>1, <1>3, <1>6
<1>8. \A k \in 1 .. t : Stream!Items'[n + k] = queue'[k]
  <2> SUFFICES ASSUME NEW k \in 1 .. t PROVE Stream!Items'[n + k] = queue'[k]
    OBVIOUS
  <2>1. Stream!Items'[n + k] = IF n + k <= n THEN shown[n + k] ELSE queue'[n + k - n]
    BY <1>3, <1>4
  <2> QED BY <1>4, <2>1
<1>9. \A k \in (n + 1) .. (n + t) : k - n \in 1 .. t /\ Stream!Items'[k] = queue'[k - n]
  BY <1>3, <1>5
<1> QED BY <1>3, <1>7, <1>8, <1>9

LEMMA NoOutcomeAdded ==
  ASSUME Types, queue = <<>>, shown' = shown, queue' \in Seq(ItemTypes),
         \A k \in 1 .. Len(queue') : queue'[k].kind \notin {"completed", "error"}
  PROVE  Stream!Outcomes' = Stream!Outcomes /\ Stream!Turns' = Stream!Turns
<1>1. PICK n \in Nat : n = Len(Stream!Items)
  BY ItemsAreItems
<1>2. PICK t \in Nat : t = Len(queue')
  BY LenProperties
<1>3. /\ Len(Stream!Items)' = n + t /\ \A k \in 1 .. n : Stream!Items'[k] = Stream!Items[k]
      /\ \A k \in (n + 1) .. (n + t) : Stream!Items'[k].kind \notin {"completed", "error"}
  <2>1. /\ Len(Stream!Items)' = n + t /\ \A k \in 1 .. n : Stream!Items'[k] = Stream!Items[k]
        /\ \A k \in (n + 1) .. (n + t) : k - n \in 1 .. t /\ Stream!Items'[k] = queue'[k - n]
    BY <1>1, <1>2, NewItems
  <2> QED BY <1>2, <2>1
<1>4. 1 .. (n + t) = (1 .. n) \cup ((n + 1) .. (n + t))
  OBVIOUS
<1>5. Stream!Outcomes' = Stream!Outcomes
  BY <1>1, <1>3, <1>4 DEF Stream!Outcomes
<1>6. {k \in 1 .. Len(Stream!Items) : Stream!Items[k].kind = "completed"}'
      = {k \in 1 .. Len(Stream!Items) : Stream!Items[k].kind = "completed"}
  BY <1>1, <1>3, <1>4
<1>7. \A k \in {k \in 1 .. Len(Stream!Items) : Stream!Items[k].kind = "completed"}
      : Stream!Items'[k] = Stream!Items[k]
  BY <1>1, <1>3
<1>8. Stream!Turns' = Stream!Turns
  BY <1>6, <1>7 DEF Stream!Turns
<1> QED BY <1>5, <1>8

LEMMA PiecesAdded ==
  ASSUME Types, queue = <<>>, shown' = shown, queue' \in Seq(ItemTypes), NEW t \in Nat,
         t = Len(queue'), \A k \in 1 .. t : queue'[k].kind = "text"
  PROVE  Cardinality(Pieces)' = Cardinality(Pieces) + t
<1>1. PICK n \in Nat : n = Len(Stream!Items)
  BY ItemsAreItems
<1>2. /\ Len(Stream!Items)' = n + t /\ \A k \in 1 .. n : Stream!Items'[k] = Stream!Items[k]
      /\ \A k \in (n + 1) .. (n + t) : Stream!Items'[k].kind = "text"
  <2>1. /\ Len(Stream!Items)' = n + t /\ \A k \in 1 .. n : Stream!Items'[k] = Stream!Items[k]
        /\ \A k \in (n + 1) .. (n + t) : k - n \in 1 .. t /\ Stream!Items'[k] = queue'[k - n]
    BY <1>1, NewItems
  <2> QED BY <2>1
<1>3. 1 .. (n + t) = (1 .. n) \cup ((n + 1) .. (n + t)) /\ (1 .. n) \cap ((n + 1) .. (n + t)) = {}
  OBVIOUS
<1>4. Pieces' = Pieces \cup ((n + 1) .. (n + t)) /\ Pieces \cap ((n + 1) .. (n + t)) = {}
  BY <1>1, <1>2, <1>3 DEF Pieces
<1>5. IsFiniteSet((n + 1) .. (n + t)) /\ Cardinality((n + 1) .. (n + t)) = t
  <2>1. n + 1 \in Int /\ n + t \in Int /\ (n + 1 > n + t <=> t = 0) /\ (n + t) - (n + 1) + 1 = t
    OBVIOUS
  <2>2. /\ IsFiniteSet((n + 1) .. (n + t))
        /\ Cardinality((n + 1) .. (n + t)) = IF n + 1 > n + t THEN 0 ELSE (n + t) - (n + 1) + 1
    BY <2>1, FS_Interval
  <2> QED BY <2>1, <2>2
<1>6. IsFiniteSet(Pieces) /\ Cardinality(Pieces) \in Nat
  BY ItemsAreItems, FS_CardinalityType
<1>7. Cardinality({}) = 0
  BY FS_EmptySet
<1>8. Cardinality(Pieces \cup ((n + 1) .. (n + t)))
        = Cardinality(Pieces) + t - Cardinality(Pieces \cap ((n + 1) .. (n + t)))
  BY <1>5, <1>6, FS_Union
<1>9. Cardinality(Pieces)' = Cardinality(Pieces') /\ t - 0 = t
  OBVIOUS
<1> QED BY <1>4, <1>6, <1>7, <1>8, <1>9

LEMMA NoPieceAdded ==
  ASSUME Types, queue = <<>>, shown' = shown, queue' \in Seq(ItemTypes),
         \A k \in 1 .. Len(queue') : queue'[k].kind # "text"
  PROVE  Pieces' = Pieces
<1>1. PICK n \in Nat : n = Len(Stream!Items)
  BY ItemsAreItems
<1>2. PICK t \in Nat : t = Len(queue')
  BY LenProperties
<1>3. /\ Len(Stream!Items)' = n + t /\ \A k \in 1 .. n : Stream!Items'[k] = Stream!Items[k]
      /\ \A k \in (n + 1) .. (n + t) : Stream!Items'[k].kind # "text"
  <2>1. /\ Len(Stream!Items)' = n + t /\ \A k \in 1 .. n : Stream!Items'[k] = Stream!Items[k]
        /\ \A k \in (n + 1) .. (n + t) : k - n \in 1 .. t /\ Stream!Items'[k] = queue'[k - n]
    BY <1>1, <1>2, NewItems
  <2> QED BY <1>2, <2>1
<1>4. 1 .. (n + t) = (1 .. n) \cup ((n + 1) .. (n + t))
  OBVIOUS
<1> QED BY <1>1, <1>3, <1>4 DEF Pieces

LEMMA OutcomeAdded ==
  ASSUME StreamIInv, queue = <<>>, ~ done, shown' = shown, NEW item \in ItemTypes,
         queue' = <<item>>,
         item.kind \in {"completed", "error"}
  PROVE  /\ Stream!Outcomes' = {Len(Stream!Items)'} /\ Pieces' = Pieces
         /\ Stream!Turns' = IF item.kind = "completed" THEN {item.turn} ELSE {}
<1>1. PICK n \in Nat : n = Len(Stream!Items)
  BY ItemsAreItems DEF StreamIInv
<1>2. queue' \in Seq(ItemTypes) /\ Len(queue') = 1 /\ queue'[1] = item
  OBVIOUS
<1>3. /\ Len(Stream!Items)' = n + 1 /\ \A k \in 1 .. n : Stream!Items'[k] = Stream!Items[k]
      /\ Stream!Items'[n + 1] = item
  BY <1>1, <1>2, NewItems DEF StreamIInv
<1>4. 1 .. (n + 1) = (1 .. n) \cup {n + 1}
  OBVIOUS
<1>5. \A k \in 1 .. n : Stream!Items[k].kind \notin {"completed", "error"}
  BY <1>1 DEF StreamIInv, Stream!OutcomeDecidesContinuation, Stream!Outcomes
<1>6. Stream!Outcomes' = {n + 1}
  BY <1>3, <1>4, <1>5 DEF Stream!Outcomes
<1>7. {k \in 1 .. Len(Stream!Items) : Stream!Items[k].kind = "completed"}' =
      IF item.kind = "completed" THEN {n + 1} ELSE {}
  BY <1>3, <1>4, <1>5
<1>8. Stream!Turns' = IF item.kind = "completed" THEN {item.turn} ELSE {}
  BY <1>3, <1>7 DEF Stream!Turns
<1>9. Pieces' = Pieces
  BY <1>2, NoPieceAdded DEF StreamIInv
<1> QED BY <1>3, <1>6, <1>8, <1>9

-----------------------------------------------------------------------------
(* The server. *)
LEMMA WireKeeps ==
  ASSUME StreamIInv, UNCHANGED <<protocol, answer, acc, queue, shown, done, dropped, pending>>,
         Types', Follows', body = "open" \/ (body' = body /\ server' = server),
         body' # "open" => server' = server
  PROVE  StreamIInv'
<1>1. Stream!OutcomeDecidesContinuation'
  BY SameContinuation
<1>2. \A turn \in Stream!Turns : TurnFits(turn)'
  BY DEF StreamIInv, TurnFits
<1> QED BY <1>1, <1>2, SameItems DEF StreamIInv

LEMMA SendKeeps ==
  ASSUME StreamIInv, NEW message \in [op : Ops, i : Calls \cup {0}], NEW state \in States,
         Sends(message, server, state), Stream!Send(message, state)
  PROVE  StreamIInv'
<1>1. PICK states : Path(states)
  BY DEF StreamIInv, Follows
<1>2. PICK n \in Nat : n = Len(buffer)
  BY LenProperties DEF StreamIInv, Types
<1>3. /\ body = "open" /\ buffer' = Append(buffer, message) /\ server' = state
      /\ UNCHANGED <<protocol, answer, body, acc, queue, shown, done, dropped, pending>>
  BY DEF Stream!Send
<1>4. /\ buffer' \in Seq([op : Ops, i : Calls \cup {0}]) /\ Len(buffer') = n + 1
      /\ buffer'[n + 1] = message /\ \A k \in 1 .. n : buffer'[k] = buffer[k]
  BY <1>2, <1>3, AppendProperties, LenProperties DEF StreamIInv, Types
<1> DEFINE longer == [k \in 0 .. (n + 1) |-> IF k = n + 1 THEN state ELSE states[k]]
<1>5. /\ states \in [0 .. n -> States] /\ states[n] = server /\ LagsBehind(states[0])
      /\ \A k \in 1 .. n : Sends(buffer[k], states[k - 1], states[k])
  BY <1>1, <1>2 DEF Path
<1>6. /\ longer \in [0 .. (n + 1) -> States] /\ longer[n + 1] = state
      /\ \A k \in 0 .. n : longer[k] = states[k]
  BY <1>5
<1> HIDE DEF longer
<1>7. ASSUME NEW k \in 1 .. (n + 1) PROVE Sends(buffer'[k], longer[k - 1], longer[k])
  <2>1. CASE k = n + 1
    <3>1. n + 1 - 1 = n /\ n \in 0 .. n
      OBVIOUS
    <3> QED BY <1>4, <1>5, <1>6, <2>1, <3>1
  <2>2. CASE k # n + 1
    <3>1. k \in 1 .. n /\ k \in 0 .. n /\ k - 1 \in 0 .. n
      BY <2>2
    <3> QED BY <1>4, <1>5, <1>6, <3>1
  <2> QED BY <2>1, <2>2
<1>8. \A m, s, t : Sends(m, s, t)' <=> Sends(m, s, t)
  BY <1>3 DEF Sends, SendsText, SendsTextDone, SendsCall, SendsFinal, SaidBy, Stream!After
<1>9. LagsBehind(longer[0])'
  <2>1. longer[0] = states[0] /\ 0 \in 0 .. n
    BY <1>6
  <2> QED BY <1>3, <1>5, <2>1 DEF LagsBehind
<1>10. Follows'
  <2>1. ASSUME NEW k \in 1 .. (n + 1) PROVE Sends(buffer[k], longer[k - 1], longer[k])'
    <3>1. PICK m, s, t : m = buffer'[k] /\ s = longer[k - 1] /\ t = longer[k]
      OBVIOUS
    <3>2. Sends(m, s, t)
      BY <1>7, <3>1
    <3>3. Sends(m, s, t)'
      BY <1>8, <3>2
    <3> QED BY <3>1, <3>3 DEF Sends, SendsText, SendsTextDone, SendsCall, SendsFinal
  <2>2. Path(longer)'
    BY <1>3, <1>4, <1>6, <1>9, <2>1 DEF Path
  <2> QED BY <2>2 DEF Follows
<1>11. Types'
  BY <1>3, <1>4 DEF StreamIInv, Types
<1> QED BY <1>3, <1>10, <1>11, WireKeeps

LEMMA ServerKeeps ==
  ASSUME StreamIInv, Stream!SendText \/ Stream!SendTextDone \/ Stream!SendFinal
         \/ Stream!SendFailure \/ \E i \in Calls : Stream!SendCall(i)
  PROVE  StreamIInv'
<1>1. /\ server \in States /\ answer.text \in Nat /\ answer.calls \subseteq Calls
      /\ server.text \in Nat
      /\ server.stage \in [Calls -> Stages] /\ server.final \in BOOLEAN
      /\ server = [text |-> server.text, stage |-> server.stage, final |-> server.final]
  BY DEF StreamIInv, Types, States
<1>2. CASE Stream!SendText
  <2>1. /\ Stream!Send(Stream!Message("text", 0), [server EXCEPT !.text = @ + 1])
        /\ server.text < answer.text
        /\ ~ server.final
    BY <1>2 DEF Stream!SendText, Stream!Send
  <2> DEFINE state == [server EXCEPT !.text = @ + 1]
  <2>2. /\ state.text = server.text + 1 /\ state.stage = server.stage /\ state.final = server.final
        /\ state \in States
    BY <1>1 DEF States
  <2>3. Stream!Message("text", 0) \in [op : Ops, i : Calls \cup {0}]
        /\ Stream!Message("text", 0).op = "text"
    BY DEF Stream!Message, Ops
  <2> HIDE DEF state
  <2>4. Sends(Stream!Message("text", 0), server, state)
    BY <1>1, <2>1, <2>2, <2>3 DEF Sends, SendsText
  <2> QED BY <2>1, <2>2, <2>3, <2>4, SendKeeps DEF state
<1>3. CASE Stream!SendTextDone
  <2>1. /\ Stream!Send(Stream!Message("textdone", 0), [server EXCEPT !.text = answer.text])
        /\ server.text \in {0, answer.text} /\ ~ server.final
    BY <1>3 DEF Stream!SendTextDone, Stream!Send
  <2> DEFINE state == [server EXCEPT !.text = answer.text]
  <2>2. /\ state.text = answer.text /\ state.stage = server.stage /\ state.final = server.final
        /\ state \in States
    BY <1>1 DEF States
  <2>3. Stream!Message("textdone", 0) \in [op : Ops, i : Calls \cup {0}]
        /\ Stream!Message("textdone", 0).op = "textdone"
    BY DEF Stream!Message, Ops
  <2> HIDE DEF state
  <2>4. Sends(Stream!Message("textdone", 0), server, state)
    BY <1>1, <2>1, <2>2, <2>3 DEF Sends, SendsTextDone
  <2> QED BY <2>1, <2>2, <2>3, <2>4, SendKeeps DEF state
<1>4. CASE Stream!SendFinal
  <2>1. PICK op \in Finals : Stream!Said
             /\ Stream!Send(Stream!Message(op, 0), [server EXCEPT !.final = TRUE])
    BY <1>4 DEF Stream!SendFinal, Finals
  <2> DEFINE state == [server EXCEPT !.final = TRUE]
  <2>2. /\ state.text = server.text /\ state.stage = server.stage /\ state.final = TRUE
        /\ state \in States
    BY <1>1 DEF States
  <2>3. Stream!Message(op, 0) \in [op : Ops, i : Calls \cup {0}] /\ Stream!Message(op, 0).op = op
    BY DEF Stream!Message, Ops
  <2> HIDE DEF state
  <2>4. SaidBy(server) /\ ~ server.final
    BY <2>1 DEF Stream!Said, SaidBy, Stream!Send
  <2>5. Sends(Stream!Message(op, 0), server, state)
    BY <1>1, <2>2, <2>3, <2>4 DEF Sends, SendsFinal
  <2> QED BY <2>1, <2>2, <2>3, <2>5, SendKeeps DEF state
<1>5. CASE Stream!SendFailure
  <2>1. Stream!Send(Stream!Message("failure", 0), [server EXCEPT !.final = TRUE]) /\ ~ server.final
    BY <1>5 DEF Stream!SendFailure, Stream!Send
  <2> DEFINE state == [server EXCEPT !.final = TRUE]
  <2>2. /\ state.text = server.text /\ state.stage = server.stage /\ state.final = TRUE
        /\ state \in States
    BY <1>1 DEF States
  <2>3. /\ Stream!Message("failure", 0) \in [op : Ops, i : Calls \cup {0}]
        /\ Stream!Message("failure", 0).op = "failure"
    BY DEF Stream!Message, Ops
  <2> HIDE DEF state
  <2>4. Sends(Stream!Message("failure", 0), server, state)
    BY <1>1, <2>1, <2>2, <2>3 DEF Sends, SendsFinal, Finals
  <2> QED BY <2>1, <2>2, <2>3, <2>4, SendKeeps DEF state
<1>6. ASSUME NEW i \in Calls, Stream!SendCall(i) PROVE StreamIInv'
  <2>1. PICK stage \in Stream!After(server.stage[i]) :
          i \in answer.calls
          /\ Stream!Send(Stream!Message(stage, i), [server EXCEPT !.stage[i] = stage])
    BY <1>6 DEF Stream!SendCall
  <2>2. stage \in Stages \ {"none"}
    BY DEF Stream!After, Stages
  <2> DEFINE state == [server EXCEPT !.stage[i] = stage]
  <2>3. /\ state.text = server.text /\ state.stage = [server.stage EXCEPT ![i] = stage]
        /\ state.final = server.final /\ state \in States
    BY <1>1, <2>2 DEF States
  <2>4. /\ Stream!Message(stage, i) \in [op : Ops, i : Calls \cup {0}]
        /\ Stream!Message(stage, i).op = stage
        /\ Stream!Message(stage, i).i = i
    BY <2>2 DEF Stream!Message, Ops
  <2> HIDE DEF state
  <2>5. Sends(Stream!Message(stage, i), server, state)
    <3>1. ~ server.final
      BY <2>1 DEF Stream!Send
    <3> QED BY <1>1, <2>1, <2>3, <2>4, <3>1 DEF Sends, SendsCall
  <2> QED BY <2>1, <2>3, <2>4, <2>5, SendKeeps DEF state
<1> QED BY <1>2, <1>3, <1>4, <1>5, <1>6

LEMMA PathStays ==
  ASSUME StreamIInv, UNCHANGED <<protocol, answer, server, buffer, acc>>, done => done'
  PROVE  Follows'
<1>1. PICK states : Path(states)
  BY DEF StreamIInv, Follows
<1>2. Path(states)'
  BY <1>1 DEF Path, LagsBehind, Sends, SendsText, SendsTextDone, SendsCall, SendsFinal, SaidBy,
     Stream!After
<1> QED BY <1>2 DEF Follows

LEMMA CloseKeeps ==
  ASSUME StreamIInv, Stream!Close
  PROVE  StreamIInv'
<1>1. /\ body = "open" /\ body' # "open"
      /\ UNCHANGED <<protocol, answer, server, buffer, acc, queue, shown, done, dropped, pending>>
  BY DEF Stream!Close
<1>2. Types' /\ Follows'
  BY <1>1, PathStays DEF StreamIInv, Types
<1> QED BY <1>1, <1>2, WireKeeps

-----------------------------------------------------------------------------
(* The adapter. *)
LEMMA HeadIsSent ==
  ASSUME StreamIInv, buffer # <<>>
  PROVE  \E states : /\ Path(states) /\ states[0] \in States /\ states[1] \in States
                     /\ Sends(Head(buffer), states[0], states[1]) /\ LagsBehind(states[0])
                     /\ Head(buffer) \in [op : Ops, i : Calls \cup {0}]
<1>1. PICK states : Path(states)
  BY DEF StreamIInv, Follows
<1>2. PICK n \in Nat : n = Len(buffer)
  BY LenProperties DEF StreamIInv, Types
<1>3. n # 0 /\ Head(buffer) = buffer[1] /\ buffer[1] \in [op : Ops, i : Calls \cup {0}]
  <2>1. buffer \in Seq([op : Ops, i : Calls \cup {0}])
    BY DEF StreamIInv, Types
  <2>2. n # 0
    BY <1>2, <2>1, EmptySeq
  <2>3. 1 \in 1 .. Len(buffer)
    BY <1>2, <2>2
  <2>4. buffer[1] \in [op : Ops, i : Calls \cup {0}]
    BY <2>1, <2>3, ElementOfSeq
  <2>5. Head(buffer) = buffer[1]
    BY <2>1
  <2> QED BY <2>2, <2>4, <2>5
<1>4. 1 \in 1 .. n /\ 0 \in 0 .. n /\ 1 \in 0 .. n /\ 1 - 1 = 0
  BY <1>3
<1> QED BY <1>1, <1>2, <1>3, <1>4 DEF Path

LEMMA PathMoves ==
  ASSUME StreamIInv, buffer # <<>>, buffer' = Tail(buffer), UNCHANGED <<protocol, answer, server>>,
         NEW states, Path(states), LagsBehind(states[1])'
  PROVE  Follows' /\ buffer' \in Seq([op : Ops, i : Calls \cup {0}])
<1>1. PICK n \in Nat : n = Len(buffer)
  BY LenProperties DEF StreamIInv, Types
<1>2. /\ buffer' \in Seq([op : Ops, i : Calls \cup {0}]) /\ n # 0 /\ Len(buffer') = n - 1
      /\ \A k \in 1 .. (n - 1) : buffer'[k] = buffer[k + 1]
  BY <1>1, HeadTailProperties, EmptySeq DEF StreamIInv, Types
<1> DEFINE rest == [k \in 0 .. (n - 1) |-> states[k + 1]]
<1>3. /\ states \in [0 .. n -> States] /\ states[n] = server
      /\ \A k \in 1 .. n : Sends(buffer[k], states[k - 1], states[k])
  BY <1>1 DEF Path
<1>4. /\ rest \in [0 .. (n - 1) -> States] /\ rest[n - 1] = server /\ rest[0] = states[1]
      /\ \A k \in 0 .. (n - 1) : rest[k] = states[k + 1]
  <2>1. \A k \in 0 .. (n - 1) : k + 1 \in 0 .. n
    OBVIOUS
  <2>2. n - 1 \in 0 .. (n - 1) /\ n - 1 + 1 = n /\ 0 \in 0 .. (n - 1) /\ 0 + 1 = 1
    BY <1>2
  <2> QED BY <1>3, <2>1, <2>2
<1> HIDE DEF rest
<1>5. ASSUME NEW k \in 1 .. (n - 1) PROVE Sends(buffer[k], rest[k - 1], rest[k])'
  <2>1. k + 1 \in 1 .. n /\ k \in 0 .. (n - 1) /\ k - 1 \in 0 .. (n - 1) /\ k - 1 + 1 = k
        /\ k + 1 - 1 = k
    OBVIOUS
  <2>2. PICK m, s, t : m = buffer'[k] /\ s = rest[k - 1] /\ t = rest[k]
    OBVIOUS
  <2>3. m = buffer[k + 1] /\ s = states[k] /\ t = states[k + 1]
    BY <1>2, <1>4, <2>1, <2>2
  <2>4. Sends(m, s, t)
    BY <1>3, <2>1, <2>3
  <2>5. Sends(m, s, t)'
    BY <2>4 DEF Sends, SendsText, SendsTextDone, SendsCall, SendsFinal, SaidBy, Stream!After
  <2> QED BY <2>2, <2>5 DEF Sends, SendsText, SendsTextDone, SendsCall, SendsFinal
<1>6. Path(rest)'
  BY <1>2, <1>4, <1>5 DEF Path
<1> QED BY <1>2, <1>6 DEF Follows

LEMMA DeltaKeeps ==
  ASSUME StreamIInv, ~ done, queue = <<>>,
         UNCHANGED <<answer, server, body, shown, done, dropped, pending>>,
         Types', Follows', \A k \in 1 .. Len(queue') : queue'[k].kind \notin {"completed", "error"},
         Cardinality(Pieces)' = acc'.text
  PROVE  StreamIInv'
<1>1. Stream!Outcomes' = Stream!Outcomes /\ Stream!Turns' = Stream!Turns
  BY NoOutcomeAdded DEF StreamIInv, Types
<1>2. Stream!OutcomeDecidesContinuation'
  BY <1>1 DEF StreamIInv, Stream!OutcomeDecidesContinuation
<1>3. \A turn \in Stream!Turns : TurnFits(turn)'
  BY DEF StreamIInv, TurnFits
<1> QED BY <1>1, <1>2, <1>3 DEF StreamIInv

LEMMA OutcomeKeeps ==
  ASSUME StreamIInv, ~ done, ~ dropped, queue = <<>>,
         UNCHANGED <<protocol, answer, server, body, acc, shown, dropped>>,
         buffer' \in Seq([op : Ops, i : Calls \cup {0}]), Follows',
         Stream!Fail \/ \E turn \in Turn : Stream!Complete(turn) /\ TurnFits(turn)
  PROVE  StreamIInv'
<1>1. \E item \in ItemTypes :
        /\ queue' = <<item>> /\ item.kind \in {"completed", "error"} /\ done' = TRUE
        /\ item.kind = "error" => pending' = "none"
        /\ item.kind = "completed" => pending' = Stream!Remembered(item.turn) /\ TurnFits(item.turn)
  <2>1. CASE Stream!Fail
    <3> DEFINE item == Stream!Item("error")
    <3>1. item \in ItemTypes /\ item.kind = "error"
      BY DEF Stream!Item, ItemTypes, Turn
    <3> QED BY <2>1, <3>1 DEF Stream!Fail
  <2>2. ASSUME NEW turn \in Turn, Stream!Complete(turn), TurnFits(turn)
        PROVE  \E item \in ItemTypes :
                 /\ queue' = <<item>> /\ item.kind = "completed" /\ done' = TRUE
                 /\ pending' = Stream!Remembered(item.turn) /\ TurnFits(item.turn)
    <3> DEFINE item == [kind |-> "completed", turn |-> turn]
    <3>1. item \in ItemTypes /\ item.kind = "completed" /\ item.turn = turn
      BY DEF ItemTypes
    <3>2. queue' = <<item>> /\ done' = TRUE /\ pending' = Stream!Remembered(turn)
      BY <2>2 DEF Stream!Complete
    <3> HIDE DEF item
    <3> QED BY <2>2, <3>1, <3>2
  <2>3. CASE \E turn \in Turn : Stream!Complete(turn) /\ TurnFits(turn)
    <3>1. PICK turn \in Turn : Stream!Complete(turn) /\ TurnFits(turn)
      BY <2>3
    <3>2. PICK item \in ItemTypes :
            /\ queue' = <<item>> /\ item.kind = "completed" /\ done' = TRUE
            /\ pending' = Stream!Remembered(item.turn) /\ TurnFits(item.turn)
      BY <2>2, <3>1
    <3> QED BY <3>2
  <2> QED BY <2>1, <2>3
<1>2. PICK item \in ItemTypes :
        /\ queue' = <<item>> /\ item.kind \in {"completed", "error"} /\ done' = TRUE
        /\ item.kind = "error" => pending' = "none"
        /\ item.kind = "completed" => pending' = Stream!Remembered(item.turn) /\ TurnFits(item.turn)
  BY <1>1
<1>3. /\ Stream!Outcomes' = {Len(Stream!Items)'} /\ Pieces' = Pieces
      /\ Stream!Turns' = IF item.kind = "completed" THEN {item.turn} ELSE {}
  BY <1>2, OutcomeAdded
<1>4. Types'
  <2>1. queue' \in Seq(ItemTypes)
    BY <1>2
  <2> QED BY <1>2, <2>1 DEF StreamIInv, Types
<1>5. Stream!OutcomeDecidesContinuation'
  BY <1>2, <1>3 DEF Stream!OutcomeDecidesContinuation, Stream!Remembered
<1>6. \A turn \in Stream!Turns' : TurnFits(turn)'
  BY <1>2, <1>3 DEF TurnFits
<1>7. Cardinality(Pieces)' = acc'.text
  BY <1>3 DEF StreamIInv
<1> QED BY <1>4, <1>5, <1>6, <1>7 DEF StreamIInv

LEMMA GatheredFits ==
  ASSUME StreamIInv, NEW state \in States, LagsBehind(state), Stream!CanFinish
  PROVE  /\ Stream!Gathered \in Turn
         /\ Stream!Gathered.calls \subseteq answer.calls \X {Stream!Whole}
         /\ SaidBy(state) => Stream!Gathered.calls = answer.calls \X {Stream!Whole}
<1>1. /\ acc.text \in Nat /\ acc.tools \in [Calls -> Tools] /\ answer.calls \subseteq Calls
  BY DEF StreamIInv, Types
<1>2. \A i \in Stream!Started : i \in answer.calls /\ acc.tools[i].args = Stream!Whole
      /\ i \in Calls
  BY DEF Stream!Started, LagsBehind, ToolOf, Stream!CanFinish, Stream!IsCall
<1>3. Stream!Gathered
      = [text |-> acc.text, calls |-> {<<i, acc.tools[i].args>> : i \in Stream!Started}]
  BY DEF Stream!Gathered
<1>4. /\ Stream!Gathered.text = acc.text
      /\ Stream!Gathered.calls = {<<i, acc.tools[i].args>> : i \in Stream!Started}
  BY <1>3
<1>5. Stream!Gathered.calls = Stream!Started \X {Stream!Whole}
  BY <1>2, <1>4
<1>6. SaidBy(state) => answer.calls \subseteq Stream!Started
  BY <1>1 DEF SaidBy, LagsBehind, ToolOf, Stream!Started, Stream!NoTool
<1>7. Stream!Whole \in Nat
  BY DEF Stream!Whole
<1>8. Stream!Gathered \in Turn
  BY <1>1, <1>2, <1>3, <1>5, <1>7 DEF Turn
<1> QED BY <1>2, <1>5, <1>6, <1>8

(* What the messages do to the accumulator. *)
LEMMA TextIsHandled ==
  ASSUME StreamIInv, NEW message, NEW from \in States, NEW to \in States, LagsBehind(from),
         Sends(message, from, to), message.op \in {"text", "textdone"}, queue = <<>>, ~ done,
         UNCHANGED <<protocol, answer, server, body, shown, dropped>>,
         IF message.op = "text"
         THEN acc' = [acc EXCEPT !.text = @ + 1] /\ Stream!Delta("text") ELSE Stream!TextDone
  PROVE  /\ LagsBehind(to)' /\ UNCHANGED <<done, pending>> /\ queue' \in Seq(ItemTypes)
         /\ acc' \in [text : Nat, tools : [Calls -> Tools]]
         /\ \A k \in 1 .. Len(queue') : queue'[k].kind \notin {"completed", "error"}
         /\ Cardinality(Pieces)' = acc'.text
<1>1. /\ acc.text \in Nat /\ answer.text \in Nat /\ acc.text = from.text
      /\ acc.tools \in [Calls -> Tools]
      /\ Cardinality(Pieces) = acc.text /\ acc \in [text : Nat, tools : [Calls -> Tools]]
      /\ from.final = FALSE
  BY DEF StreamIInv, Types, LagsBehind, Sends
<1>2. Stream!Item("text") \in ItemTypes /\ Stream!Item("text").kind = "text"
  BY DEF Stream!Item, ItemTypes, Turn
<1>3. message.op \notin Stages /\ message.op \notin Finals
  BY DEF Stages, Finals
<1>4. \A stage : Stream!After(stage) \subseteq Stages
  BY DEF Stream!After, Stages
<1>5. SendsText(message, from, to) \/ SendsTextDone(message, from, to)
  BY <1>3, <1>4 DEF Sends, SendsCall, SendsFinal
<1>6. \E t \in Nat : /\ acc' = [acc EXCEPT !.text = acc.text + t] /\ to.text = acc.text + t
                     /\ to.text <= answer.text /\ UNCHANGED <<done, pending>>
                     /\ queue' = [k \in 1 .. t |-> Stream!Item("text")]
  <2>1. CASE message.op = "text"
    <3>1. /\ acc' = [acc EXCEPT !.text = acc.text + 1] /\ queue' = <<Stream!Item("text")>>
          /\ UNCHANGED <<done, pending>>
      BY <2>1 DEF Stream!Delta
    <3>2. to.text = acc.text + 1 /\ to.text <= answer.text
      BY <1>1, <1>5, <2>1 DEF SendsText, SendsTextDone
    <3>3. <<Stream!Item("text")>> = [k \in 1 .. 1 |-> Stream!Item("text")]
      OBVIOUS
    <3> QED BY <3>1, <3>2, <3>3
  <2>2. CASE message.op = "textdone"
    <3>1. Stream!TextDone /\ to.text = answer.text /\ from.text \in {0, answer.text}
      BY <1>5, <2>2 DEF SendsText, SendsTextDone
    <3>2. CASE acc.text = 0
      <4>1. /\ acc' = [acc EXCEPT !.text = acc.text + answer.text]
            /\ queue' = [k \in 1 .. answer.text |-> Stream!Item("text")]
            /\ UNCHANGED <<done, pending>>
        BY <3>1, <3>2 DEF Stream!TextDone, Stream!IsNew
      <4>2. to.text = acc.text + answer.text /\ to.text <= answer.text
        BY <1>1, <3>1, <3>2
      <4> QED BY <1>1, <4>1, <4>2
    <3>3. CASE acc.text # 0
      <4>1. UNCHANGED <<acc, queue, done, pending>>
        BY <3>1, <3>3 DEF Stream!TextDone, Stream!IsNew, Stream!Silent
      <4>2. to.text = acc.text + 0 /\ to.text <= answer.text /\ acc.text + 0 = acc.text
        BY <1>1, <3>1, <3>3
      <4>3. acc' = [acc EXCEPT !.text = acc.text + 0]
        BY <1>1, <4>1, <4>2
      <4>4. queue' = [k \in 1 .. 0 |-> Stream!Item("text")]
        BY <4>1
      <4> QED BY <4>1, <4>2, <4>3, <4>4
    <3> QED BY <3>2, <3>3
  <2> QED BY <2>1, <2>2
<1>7. PICK t \in Nat : /\ acc' = [acc EXCEPT !.text = acc.text + t] /\ to.text = acc.text + t
                       /\ to.text <= answer.text /\ UNCHANGED <<done, pending>>
                       /\ queue' = [k \in 1 .. t |-> Stream!Item("text")]
  BY <1>6
<1>8. /\ acc'.text = acc.text + t /\ acc'.tools = acc.tools
      /\ acc' \in [text : Nat, tools : [Calls -> Tools]]
  BY <1>1, <1>7
<1>9. queue' \in Seq(ItemTypes) /\ Len(queue') = t /\ \A k \in 1 .. t : queue'[k].kind = "text"
  BY <1>2, <1>7
<1>10. LagsBehind(to)'
  <2>1. to.stage = from.stage /\ to.final = FALSE
    BY <1>5 DEF SendsText, SendsTextDone
  <2> QED BY <1>1, <1>7, <1>8, <2>1 DEF LagsBehind
<1>11. Cardinality(Pieces)' = acc'.text
  BY <1>1, <1>8, <1>9, PiecesAdded DEF StreamIInv
<1> QED BY <1>7, <1>8, <1>9, <1>10, <1>11

LEMMA ToolIsNamed ==
  ASSUME NEW tool \in Tools, NEW next, next = [tool EXCEPT !.named = TRUE]
  PROVE  next = [named |-> TRUE, args |-> tool.args]
<1>1. next.named = TRUE
  BY DEF Tools
<1>2. next.args = tool.args /\ tool.args \in Nat
  BY DEF Tools
<1>3. next \in Tools
  BY DEF Tools
<1> QED BY <1>1, <1>2, <1>3 DEF Tools

LEMMA ToolGetsArguments ==
  ASSUME NEW tool \in Tools, NEW next, next = [tool EXCEPT !.args = @ + 1]
  PROVE  next = [named |-> tool.named, args |-> tool.args + 1]
<1>1. next.named = tool.named
  BY DEF Tools
<1>2. next.args = tool.args + 1 /\ tool.args \in Nat
  BY DEF Tools
<1>3. next \in Tools
  BY DEF Tools
<1> QED BY <1>1, <1>2, <1>3 DEF Tools

LEMMA CallIsHandled ==
  ASSUME StreamIInv, NEW message, NEW from \in States, NEW to \in States, LagsBehind(from),
         Sends(message, from, to), message.op \in Stages \ {"none"}, queue = <<>>, ~ done,
         UNCHANGED <<protocol, answer, server, body, shown, dropped>>,
         CASE message.op = "named" -> Stream!NameComes(message.i)
           [] message.op \in {"piece", "last"} -> Stream!ArgumentsCome(message.i)
           [] message.op \in {"argsdone", "itemdone"} -> Stream!CallIsDone(message.i)
  PROVE  /\ LagsBehind(to)' /\ UNCHANGED <<done, pending>> /\ queue' \in Seq(ItemTypes)
         /\ acc' \in [text : Nat, tools : [Calls -> Tools]]
         /\ \A k \in 1 .. Len(queue') : queue'[k].kind \notin {"completed", "error"}
         /\ Cardinality(Pieces)' = acc'.text
<1> DEFINE i == message.i
<1>1. /\ acc.text \in Nat /\ acc.text = from.text /\ acc.tools \in [Calls -> Tools]
      /\ Cardinality(Pieces) = acc.text /\ acc \in [text : Nat, tools : [Calls -> Tools]]
      /\ answer.calls \subseteq Calls
  BY DEF StreamIInv, Types, LagsBehind
<1>2. SendsCall(message, from, to)
  BY DEF Sends, SendsCall, SendsText, SendsTextDone, SendsFinal, Stages, Finals
<1>3. /\ i \in answer.calls /\ i \in Calls /\ message.op \in Stream!After(from.stage[i])
      /\ to.stage = [from.stage EXCEPT ![i] = message.op] /\ to.text = from.text /\ to.final = FALSE
      /\ from.stage \in [Calls -> Stages] /\ acc.tools[i] = ToolOf(from.stage[i])
  BY <1>1, <1>2 DEF SendsCall, States, LagsBehind
<1>4. /\ message.op = "named" => from.stage[i] = "none"
      /\ message.op = "piece" => from.stage[i] = "named"
      /\ message.op = "last" => from.stage[i] = "piece"
  BY <1>3 DEF Stream!After
<1>5. ToolOf(message.op) \in Tools
  BY DEF ToolOf, Tools, Stream!NoTool, Stream!Whole
<1>6. acc' = [acc EXCEPT !.tools[i] = ToolOf(message.op)]
  <2>1. CASE message.op = "named"
    <3>1. acc' = [acc EXCEPT !.tools[i].named = TRUE]
      BY <2>1 DEF Stream!NameComes
    <3>2. acc.tools[i] = [named |-> FALSE, args |-> 0]
      BY <1>3, <1>4, <2>1 DEF ToolOf, Stream!NoTool
    <3>3. ToolOf(message.op) = [named |-> TRUE, args |-> 0]
      BY <2>1 DEF ToolOf
    <3>4. acc.tools[i] \in Tools /\ acc.tools[i].args = 0
      BY <1>1, <1>3, <3>2
    <3>5. [acc.tools[i] EXCEPT !.named = TRUE] = [named |-> TRUE, args |-> 0]
      BY <3>4, ToolIsNamed
    <3> QED BY <1>1, <3>1, <3>3, <3>5
  <2>2. CASE message.op \in {"piece", "last"}
    <3>1. acc' = [acc EXCEPT !.tools[i].args = @ + 1]
      BY <2>2 DEF Stream!ArgumentsCome
    <3> DEFINE had == IF message.op = "piece" THEN 0 ELSE 1
    <3>2. acc.tools[i] = [named |-> TRUE, args |-> had]
      BY <1>3, <1>4, <2>2 DEF ToolOf
    <3>3. ToolOf(message.op) = [named |-> TRUE, args |-> had + 1]
      <4>1. CASE message.op = "piece"
        BY <4>1 DEF ToolOf
      <4>2. CASE message.op = "last"
        BY <4>2 DEF ToolOf, Stream!Whole
      <4> QED BY <2>2, <4>1, <4>2
    <3> HIDE DEF had
    <3>4. acc.tools[i] \in Tools /\ acc.tools[i].named = TRUE /\ acc.tools[i].args = had
      BY <1>1, <1>3, <3>2
    <3>5. [acc.tools[i] EXCEPT !.args = @ + 1] = [named |-> TRUE, args |-> had + 1]
      BY <3>4, ToolGetsArguments
    <3> QED BY <1>1, <3>1, <3>3, <3>5
  <2>3. CASE message.op \in {"argsdone", "itemdone"}
    <3>1. acc' = [acc EXCEPT !.tools[i] = [named |-> TRUE, args |-> Stream!Whole]]
      BY <2>3 DEF Stream!CallIsDone
    <3> QED BY <2>3, <3>1 DEF ToolOf
  <2> QED BY <2>1, <2>2, <2>3 DEF Stages
<1>7. /\ UNCHANGED <<done, pending>>
      /\ \/ queue' = queue
         \/ queue' = <<Stream!Item("name")>> \/ queue' = <<Stream!Item("arguments")>>
  BY DEF Stream!NameComes, Stream!ArgumentsCome, Stream!CallIsDone, Stream!Delta, Stream!Silent,
     Stages
<1>8. \A kind \in {"name", "arguments"} : Stream!Item(kind) \in ItemTypes
      /\ Stream!Item(kind).kind = kind
  BY DEF Stream!Item, ItemTypes, Turn
<1>9. queue' \in Seq(ItemTypes)
      /\ \A k \in 1 .. Len(queue') : queue'[k].kind \in {"name", "arguments"}
  <2>1. ASSUME NEW kind \in {"name", "arguments"}, queue' = <<Stream!Item(kind)>>
        PROVE  queue' \in Seq(ItemTypes) /\ \A k \in 1 .. Len(queue') : queue'[k].kind = kind
    <3>1. Stream!Item(kind) \in ItemTypes /\ Stream!Item(kind).kind = kind
      BY <1>8
    <3> QED BY <2>1, <3>1
  <2>2. CASE queue' = queue
    BY <2>2
  <2> QED BY <1>7, <2>1, <2>2
<1>10. /\ acc'.text = acc.text /\ acc'.tools = [acc.tools EXCEPT ![i] = ToolOf(message.op)]
       /\ acc' \in [text : Nat, tools : [Calls -> Tools]]
  BY <1>1, <1>3, <1>5, <1>6
<1>11. LagsBehind(to)'
  <2>1. \A j \in Calls : acc'.tools[j] = ToolOf(to.stage[j])
    BY <1>1, <1>3, <1>10 DEF LagsBehind
  <2>2. \A j \in Calls : j \notin answer.calls => to.stage[j] = "none"
    BY <1>3 DEF LagsBehind
  <2>3. acc'.text = to.text /\ to.text <= answer.text
    BY <1>1, <1>3, <1>10 DEF LagsBehind
  <2>4. \A j : ToolOf(j)' = ToolOf(j)
    BY DEF ToolOf, Stream!NoTool
  <2> QED BY <1>3, <2>1, <2>2, <2>3 DEF LagsBehind, ToolOf, Stream!NoTool
<1>12. Cardinality(Pieces)' = acc'.text
  BY <1>1, <1>9, <1>10, NoPieceAdded DEF StreamIInv
<1> QED BY <1>7, <1>9, <1>10, <1>11, <1>12

LEMMA HandleKeeps ==
  ASSUME StreamIInv, Stream!Handle
  PROVE  StreamIInv'
<1> DEFINE message == Head(buffer)
<1>1. /\ queue = <<>> /\ ~ done /\ ~ dropped /\ buffer # <<>> /\ buffer' = Tail(buffer)
      /\ UNCHANGED <<protocol, answer, server, body, shown, dropped>>
  BY DEF Stream!Handle, Stream!Polled
<1>2. (CASE message.op = "text" -> acc' = [acc EXCEPT !.text = @ + 1] /\ Stream!Delta("text")
        [] message.op = "textdone" -> Stream!TextDone
        [] message.op = "named" -> Stream!NameComes(message.i)
        [] message.op \in {"piece", "last"} -> Stream!ArgumentsCome(message.i)
        [] message.op \in {"argsdone", "itemdone"} -> Stream!CallIsDone(message.i)
        [] message.op = "completed" ->
             /\ UNCHANGED acc
             /\ IF Stream!FullTurn.text = 0 /\ Stream!FullTurn.calls = {}
                THEN Stream!Finish ELSE Stream!Complete(Stream!FullTurn)
        [] message.op \in {"DONE", "bare"} -> UNCHANGED acc /\ Stream!Finish
        [] message.op = "failure" -> UNCHANGED acc /\ Stream!Fail)
  BY DEF Stream!Handle
<1>3. PICK states : /\ Path(states) /\ states[0] \in States /\ states[1] \in States
                    /\ Sends(message, states[0], states[1]) /\ LagsBehind(states[0])
                    /\ message \in [op : Ops, i : Calls \cup {0}]
  BY <1>1, HeadIsSent
<1> HIDE DEF message
<1>4. message.op \in Ops
  BY <1>3
<1>5. ASSUME /\ LagsBehind(states[1])' /\ UNCHANGED <<done, pending>> /\ queue' \in Seq(ItemTypes)
             /\ acc' \in [text : Nat, tools : [Calls -> Tools]]
             /\ \A k \in 1 .. Len(queue') : queue'[k].kind \notin {"completed", "error"}
             /\ Cardinality(Pieces)' = acc'.text
      PROVE  StreamIInv'
  <2>1. Follows' /\ buffer' \in Seq([op : Ops, i : Calls \cup {0}])
    BY <1>1, <1>3, <1>5, PathMoves
  <2>2. Types'
    BY <1>1, <1>5, <2>1 DEF StreamIInv, Types
  <2> QED BY <1>1, <1>5, <2>1, <2>2, DeltaKeeps
<1>6. CASE message.op \in {"text", "textdone"}
  <2>1. IF message.op = "text"
         THEN acc' = [acc EXCEPT !.text = @ + 1] /\ Stream!Delta("text") ELSE Stream!TextDone
    BY <1>2, <1>6
  <2>2. /\ LagsBehind(states[1])' /\ UNCHANGED <<done, pending>> /\ queue' \in Seq(ItemTypes)
        /\ acc' \in [text : Nat, tools : [Calls -> Tools]]
        /\ \A k \in 1 .. Len(queue') : queue'[k].kind \notin {"completed", "error"}
        /\ Cardinality(Pieces)' = acc'.text
    BY <1>1, <1>3, <1>6, <2>1, TextIsHandled
  <2> QED BY <1>5, <2>2
<1>7. CASE message.op \in Stages \ {"none"}
  <2>1. (CASE message.op = "named" -> Stream!NameComes(message.i)
          [] message.op \in {"piece", "last"} -> Stream!ArgumentsCome(message.i)
          [] message.op \in {"argsdone", "itemdone"} -> Stream!CallIsDone(message.i))
    BY <1>2, <1>7 DEF Stages
  <2>2. /\ LagsBehind(states[1])' /\ UNCHANGED <<done, pending>> /\ queue' \in Seq(ItemTypes)
        /\ acc' \in [text : Nat, tools : [Calls -> Tools]]
        /\ \A k \in 1 .. Len(queue') : queue'[k].kind \notin {"completed", "error"}
        /\ Cardinality(Pieces)' = acc'.text
    BY <1>1, <1>3, <1>7, <2>1, CallIsHandled
  <2> QED BY <1>5, <2>2
<1>8. CASE message.op \in Finals \cup {"failure"}
  <2>1. SendsFinal(message, states[0], states[1])
    <3>1. \A stage : Stream!After(stage) \subseteq Stages
      BY DEF Stream!After, Stages
    <3> QED BY <1>3, <1>8, <3>1 DEF Sends, SendsCall, SendsText, SendsTextDone, Stages, Finals
  <2>2. UNCHANGED acc /\ (Stream!Fail \/ \E turn \in Turn : Stream!Complete(turn) /\ TurnFits(turn))
    <3>1. ASSUME Stream!Finish, message.op \in Finals
          PROVE  Stream!Fail \/ \E turn \in Turn : Stream!Complete(turn) /\ TurnFits(turn)
      <4>1. CASE Stream!CanFinish
        <5>1. Stream!Gathered \in Turn
              /\ Stream!Gathered.calls \subseteq answer.calls \X {Stream!Whole}
              /\ Stream!Gathered.calls = answer.calls \X {Stream!Whole}
          BY <1>3, <2>1, <3>1, <4>1, GatheredFits DEF SendsFinal
        <5>2. Stream!Complete(Stream!Gathered)
          BY <3>1, <4>1 DEF Stream!Finish
        <5> QED BY <5>1, <5>2 DEF TurnFits
      <4>2. CASE ~ Stream!CanFinish
        BY <3>1, <4>2 DEF Stream!Finish
      <4> QED BY <4>1, <4>2
    <3>2. Stream!FullTurn \in Turn /\ TurnFits(Stream!FullTurn)
      <4>1. answer.text \in Nat /\ answer.calls \subseteq Calls /\ Stream!Whole \in Nat
        BY DEF StreamIInv, Types, Stream!Whole
      <4>2. Stream!FullTurn \in Turn /\ Stream!FullTurn.calls = answer.calls \X {Stream!Whole}
        BY <4>1 DEF Stream!FullTurn, Turn
      <4> QED BY <4>2 DEF TurnFits
    <3>3. CASE message.op = "completed"
      <4>1. UNCHANGED acc /\ (Stream!Finish \/ Stream!Complete(Stream!FullTurn))
        BY <1>2, <3>3
      <4> QED BY <3>1, <3>2, <3>3, <4>1 DEF Finals
    <3>4. CASE message.op \in {"DONE", "bare"}
      <4>1. UNCHANGED acc /\ Stream!Finish
        BY <1>2, <3>4
      <4> QED BY <3>1, <3>4, <4>1 DEF Finals
    <3>5. CASE message.op = "failure"
      BY <1>2, <3>5
    <3> QED BY <1>8, <3>3, <3>4, <3>5 DEF Finals
  <2>3. done' = TRUE
    BY <2>2 DEF Stream!Fail, Stream!Complete
  <2>4. LagsBehind(states[1])'
    <3>1. \A j : ToolOf(j)' = ToolOf(j)
      BY DEF ToolOf, Stream!NoTool
    <3> QED BY <1>1, <1>3, <2>1, <2>2, <2>3 DEF LagsBehind, SendsFinal, ToolOf, Stream!NoTool
  <2>5. Follows' /\ buffer' \in Seq([op : Ops, i : Calls \cup {0}])
    BY <1>1, <1>3, <2>4, PathMoves
  <2> QED BY <1>1, <2>2, <2>5, OutcomeKeeps
<1> QED BY <1>4, <1>6, <1>7, <1>8 DEF Ops

LEMMA EndKeeps ==
  ASSUME StreamIInv, Stream!AtEnd \/ Stream!Cancel
  PROVE  StreamIInv'
<1>1. /\ queue = <<>> /\ ~ done /\ ~ dropped
      /\ UNCHANGED <<protocol, answer, server, buffer, body, acc, shown, dropped>>
  BY DEF Stream!AtEnd, Stream!Cancel, Stream!Polled, Stream!wire
<1>2. Stream!Fail \/ \E turn \in Turn : Stream!Complete(turn) /\ TurnFits(turn)
  <2>1. CASE Stream!Cancel
    BY <2>1 DEF Stream!Cancel
  <2>2. CASE Stream!AtEnd /\ ~ (body = "ended" /\ Stream!CanFinish)
    BY <2>2 DEF Stream!AtEnd, Stream!Finish
  <2>3. CASE Stream!AtEnd /\ body = "ended" /\ Stream!CanFinish
    <3>1. buffer = <<>> /\ Stream!Complete(Stream!Gathered) /\ body # "open"
      BY <2>3 DEF Stream!AtEnd, Stream!Finish
    <3>2. PICK states : Path(states)
      BY DEF StreamIInv, Follows
    <3>3. states[0] = server /\ LagsBehind(states[0])
      BY <3>1, <3>2 DEF Path
    <3>4. server \in States /\ server.final = FALSE
      BY <1>1, <3>3 DEF StreamIInv, Types, LagsBehind, States
    <3>5. Stream!Gathered \in Turn /\ Stream!Gathered.calls \subseteq answer.calls \X {Stream!Whole}
      BY <2>3, <3>3, <3>4, GatheredFits
    <3> QED BY <3>1, <3>4, <3>5 DEF TurnFits
  <2> QED BY <2>1, <2>2, <2>3
<1>3. Follows' /\ buffer' \in Seq([op : Ops, i : Calls \cup {0}])
  BY <1>1, PathStays DEF StreamIInv, Types
<1> QED BY <1>1, <1>2, <1>3, OutcomeKeeps

LEMMA CallerKeeps ==
  ASSUME StreamIInv, Stream!Take \/ Stream!Drop
  PROVE  StreamIInv'
<1>1. CASE Stream!Take
  <2>1. /\ Stream!Items' = Stream!Items /\ queue' \in Seq(ItemTypes) /\ shown' \in Seq(ItemTypes)
    BY <1>1, TakenItems DEF StreamIInv
  <2>2. UNCHANGED <<protocol, answer, server, buffer, body, acc, done, dropped, pending>>
    BY <1>1 DEF Stream!Take, Stream!wire
  <2>3. Types' /\ Follows'
    BY <2>1, <2>2, PathStays DEF StreamIInv, Types
  <2>4. Stream!Outcomes' = Stream!Outcomes /\ Stream!Turns' = Stream!Turns /\ Pieces' = Pieces
    BY <2>1 DEF Stream!Outcomes, Stream!Turns, Pieces
  <2> QED BY <2>1, <2>2, <2>3, <2>4 DEF StreamIInv, Stream!OutcomeDecidesContinuation, TurnFits
<1>2. CASE Stream!Drop
  <2>1. /\ UNCHANGED <<protocol, answer, server, buffer, body, acc, queue, shown, done>>
        /\ dropped' = TRUE /\ pending' = IF done THEN pending ELSE "none"
    BY <1>2 DEF Stream!Drop, Stream!wire
  <2>2. Types' /\ Follows'
    BY <2>1, PathStays DEF StreamIInv, Types
  <2>3. Stream!Items' = Stream!Items /\ Stream!Outcomes' = Stream!Outcomes
        /\ Stream!Turns' = Stream!Turns /\ Pieces' = Pieces
    BY <2>1, SameItems
  <2>4. ~ done => Stream!Turns = {}
    BY DEF StreamIInv, Stream!OutcomeDecidesContinuation, Stream!Outcomes, Stream!Turns
  <2>5. Stream!OutcomeDecidesContinuation'
    BY <2>1, <2>3, <2>4 DEF StreamIInv, Stream!OutcomeDecidesContinuation
  <2> QED BY <2>1, <2>2, <2>3, <2>5 DEF StreamIInv, TurnFits
<1> QED BY <1>1, <1>2

LEMMA StreamInitSetsUp ==
  ASSUME Stream!Init
  PROVE  StreamIInv
<1>1. /\ answer \in [text : Nat, calls : SUBSET Calls]
      /\ server = [text |-> 0, stage |-> [i \in Calls |-> "none"], final |-> FALSE]
      /\ buffer = <<>> /\ body = "open" /\ acc = [text |-> 0, tools |-> Stream!NoTools]
      /\ queue = <<>> /\ shown = <<>> /\ done = FALSE /\ dropped = FALSE /\ pending = "old"
  BY DEF Stream!Init
<1>2. server \in States /\ acc \in [text : Nat, tools : [Calls -> Tools]]
  BY <1>1 DEF States, Stages, Stream!NoTools, Stream!NoTool, Tools
<1>3. Types
  <2>1. \A S : <<>> \in Seq(S)
    OBVIOUS
  <2> QED BY <1>1, <1>2, <2>1 DEF Types
<1>4. Stream!Items = <<>> /\ Len(Stream!Items) = 0
  BY <1>1 DEF Stream!Items
<1>5. Stream!Outcomes = {} /\ Stream!Turns = {} /\ Pieces = {}
  BY <1>4 DEF Stream!Outcomes, Stream!Turns, Pieces
<1>6. Stream!OutcomeDecidesContinuation
  BY <1>1, <1>5 DEF Stream!OutcomeDecidesContinuation
<1>7. LagsBehind(server)
  BY <1>1 DEF LagsBehind, ToolOf, Stream!NoTools
<1>8. Follows
  <2> DEFINE states == [k \in 0 .. 0 |-> server]
  <2>1. Len(buffer) = 0 /\ states \in [0 .. 0 -> States] /\ states[0] = server
    BY <1>1, <1>2
  <2>2. Path(states)
    BY <1>7, <2>1 DEF Path
  <2> QED BY <2>2 DEF Follows
<1>9. Cardinality(Pieces) = acc.text
  BY <1>1, <1>5, FS_EmptySet
<1> QED BY <1>3, <1>5, <1>6, <1>8, <1>9 DEF StreamIInv

(* What the server sent, what waits, what the accumulator holds and what   *)
(* the caller took fit together, for any calls and bounds.                 *)
THEOREM StreamInductiveInvariant == Stream!Spec => []StreamIInv
<1>1. Stream!Init => StreamIInv
  BY StreamInitSetsUp
<1>2. StreamIInv /\ [Stream!Next]_(Stream!vars) => StreamIInv'
  <2> SUFFICES ASSUME StreamIInv, [Stream!Next]_(Stream!vars) PROVE StreamIInv'
    OBVIOUS
  <2>1. CASE UNCHANGED Stream!vars
    <3>1. UNCHANGED <<protocol, answer, server, buffer, body, acc, queue, shown, done, dropped,
                      pending>>
      BY <2>1 DEF Stream!vars
    <3>2. Types' /\ Follows'
      BY <3>1, PathStays DEF StreamIInv, Types
    <3> QED BY <3>1, <3>2, WireKeeps
  <2>2. CASE Stream!Next
    BY <2>2, ServerKeeps, CloseKeeps, HandleKeeps, EndKeeps, CallerKeeps DEF Stream!Next
  <2> QED BY <2>1, <2>2
<1> QED BY <1>1, <1>2, PTL DEF Stream!Spec

(* A stream has at most one outcome, its last item, and the conversation   *)
(* the provider keeps is the one that outcome stands for: the calls of the *)
(* answer, none of them, or those of the answer before.                    *)
THEOREM OutcomesDecide == Stream!Spec => []Stream!OutcomeDecidesContinuation
<1>1. StreamIInv => Stream!OutcomeDecidesContinuation
  BY DEF StreamIInv
<1> QED BY <1>1, StreamInductiveInvariant, PTL

(* The calls of a completed answer carry all of their arguments and are    *)
(* the server's calls, all of them unless the body broke off.              *)
THEOREM CallsStayWhole == Stream!Spec => []Stream!CallsAreWhole
<1>1. StreamIInv => Stream!CallsAreWhole
  <2> SUFFICES ASSUME StreamIInv, NEW turn \in Stream!Turns
               PROVE  /\ turn.calls \subseteq answer.calls \X {Stream!Whole}
                      /\ server.final /\ buffer = <<>> =>
                           turn.calls = answer.calls \X {Stream!Whole}
    BY DEF Stream!CallsAreWhole
  <2> QED BY DEF StreamIInv, TurnFits
<1> QED BY <1>1, StreamInductiveInvariant, PTL

(* The text of the accumulator is what was shown and what waits to be, no  *)
(* piece of it twice, though the last message may repeat the whole text.   *)
THEOREM TextIsShown == Stream!Spec => []Stream!TextIsShownOnce
<1>1. StreamIInv => Stream!TextIsShownOnce
  <2> SUFFICES ASSUME StreamIInv PROVE Stream!TextIsShownOnce
    OBVIOUS
  <2>1. acc.text <= answer.text
    BY DEF StreamIInv, Follows, Path, LagsBehind
  <2>2. Stream!Cardinality(Pieces) = Cardinality(Pieces)
    BY DEF Stream!Cardinality, Cardinality
  <2> QED BY <2>1, <2>2 DEF StreamIInv, Stream!TextIsShownOnce, Pieces
<1> QED BY <1>1, StreamInductiveInvariant, PTL

(* An answer ends whole: its outcome, its calls and its text.              *)
THEOREM AnswersEndWhole == Stream!Spec => []Stream!StreamsEndWhole
<1>1. /\ Stream!OutcomeDecidesContinuation /\ Stream!CallsAreWhole /\ Stream!TextIsShownOnce
      => Stream!StreamsEndWhole
  BY DEF Stream!StreamsEndWhole
<1> QED BY <1>1, OutcomesDecide, CallsStayWhole, TextIsShown, PTL
-----------------------------------------------------------------------------
(***************************************************************************)
(* What a model is shown, of any stream, sizes and budget: a run works on  *)
(* what a restart would read, nothing it knows is missing, and one round   *)
(* of compaction is enough.                                                *)
(*                                                                         *)
(* The argument: a checkpoint names all that the checkpoints before it     *)
(* name, so that the latest says what all of them cover, and its summary   *)
(* is made from all of that; in a run that summary is the first item that  *)
(* can be compacted, so the next checkpoint always takes it up.            *)
(***************************************************************************)
CONSTANTS Window, Reserved, Margin, Fixed, DefaultWindow, Sizes, SummarySizes, MaxEvents
VARIABLES stream, context, known, given, phase
Assembly == INSTANCE ContextAssembly

StoredKinds == {"system", "input", "answer", "tool", "compacted"}
Roles == {"System", "User", "Assistant", "Memory", "Tool"}
Stored == [kind : StoredKinds, size : Nat, dropped : SUBSET Nat, about : SUBSET Nat]
ContextItems == [id : Nat, role : Roles, size : Nat, about : SUBSET Nat]

ContextTypes ==
  /\ stream \in Seq(Stored) /\ context \in Seq(ContextItems)
  /\ known \subseteq 1 .. Len(stream) /\ phase \in {"idle", "fit", "call"}

(* A checkpoint names earlier events, with what the checkpoints among them *)
(* name, and its summary speaks of all of them.                            *)
Checkpoints(events) ==
  \A i \in 1 .. Len(events) :
    /\ events[i].dropped \subseteq 1 .. (i - 1)
    /\ events[i].kind # "compacted" => events[i].dropped = {}
    /\ \A j \in events[i].dropped : events[j].dropped \subseteq events[i].dropped
    /\ events[i].kind = "compacted" =>
         Assembly!VisibleEvents(events, events[i].dropped) \subseteq events[i].about

(* An item is of an event the run knows, and speaks of it; items of        *)
(* different places are of different events.                               *)
Fits(item, events, ids) ==
  item.id \in ids /\ (events[item.id].kind # "compacted" => item.id \in item.about)
Apart(items) == \A i, j \in 1 .. Len(items) : items[i].id = items[j].id => i = j

(* The latest summary is in the context, before all else that can be       *)
(* compacted.                                                              *)
CanGo(item) == item.role \notin {"System", "Developer", "Tool"}
IsSummary(items, events, i) ==
  /\ items[i].id = Assembly!LatestSummary(events)
  /\ items[i].about = events[Assembly!LatestSummary(events)].about
  /\ CanGo(items[i]) /\ \A j \in 1 .. (i - 1) : ~ CanGo(items[j])
SummaryIsFirst(items, events) ==
  Assembly!LatestSummary(events) # 0 =>
    \E i \in 1 .. Len(items) : IsSummary(items, events, i)

(* What the latest checkpoint covers, and what a run that starts now would *)
(* be shown: the latest summary, and each event it does not cover and that *)
(* is not provided.                                                        *)
Covered(events) ==
  IF Assembly!LatestSummary(events) = 0 THEN {} ELSE events[Assembly!LatestSummary(events)].dropped
Shown(events, provided) ==
  {i \in 1 .. Len(events) : events[i].kind # "compacted"} \ (Covered(events) \cup provided)
Summary(events) ==
  IF Assembly!LatestSummary(events) = 0 THEN {} ELSE {Assembly!LatestSummary(events)}
RestartIds(events) == Summary(events) \cup Shown(events, {})

IdsIn(items) == {item.id : item \in Elements(items)}
ResultIds(items) == {item.id : item \in {x \in Elements(items) : x.role = "Tool"}}
AboutOf(items) == UNION {item.about : item \in Elements(items)}

(* A run that knows the events of ids works on what it would be shown of   *)
(* them, but for the results it was handed.                                *)
WorksOn(items, events, ids) ==
  /\ \A item \in Elements(items) : Fits(item, events, ids)
  /\ Apart(items) /\ SummaryIsFirst(items, events)
  /\ IdsIn(items) \ ResultIds(items) = (RestartIds(events) \cap ids) \ ResultIds(items)

ContextIInv ==
  /\ ContextTypes /\ Checkpoints(stream)
  /\ Assembly!Working => WorksOn(context, stream, known)

-----------------------------------------------------------------------------
(***************************************************************************)
(* Recursive functions.                                                    *)
(***************************************************************************)
(* A table of which each entry is made from the one before. *)
IsTable(table, V, n, start, step) ==
  /\ table \in [0 .. n -> V] /\ table[0] = start
  /\ \A k \in 1 .. n : table[k] = step[<<k, table[k - 1]>>]

LEMMA TableExists ==
  ASSUME NEW V, NEW n \in Nat, NEW start \in V, NEW step \in [(1 .. n) \X V -> V]
  PROVE  \E table : IsTable(table, V, n, start, step)
<1> DEFINE Good(table, m) == IsTable(table, V, m, start, step)
           Bad == {m \in 0 .. n : ~ \E table : Good(table, m)}
<1>0. Bad = {} => \E table : Good(table, n)
  <2> QED OBVIOUS
<1> SUFFICES ASSUME Bad # {} PROVE FALSE
  BY <1>0
<1>1. PICK m \in Bad : \A j \in Bad : m <= j
  <2>1. Bad \subseteq Nat
    OBVIOUS
  <2> QED BY <2>1, FirstExists
<1>2. CASE m = 0
  <2> DEFINE only == [i \in 0 .. 0 |-> start]
  <2>1. only \in [0 .. 0 -> V]
    OBVIOUS
  <2>2. only[0] = start
    OBVIOUS
  <2>3. \A k \in 1 .. 0 : FALSE
    OBVIOUS
  <2> HIDE DEF only
  <2>4. Good(only, 0)
    BY <2>1, <2>2, <2>3 DEF IsTable
  <2> QED BY <1>1, <1>2, <2>4
<1>3. CASE m # 0
  <2>1. m - 1 \in 0 .. n /\ m - 1 \notin Bad /\ m \in 1 .. n
    BY <1>1, <1>3
  <2>2. PICK shorter : Good(shorter, m - 1)
    BY <2>1
  <2> USE DEF IsTable
  <2> DEFINE longer == [i \in 0 .. m |-> IF i = m THEN step[<<m, shorter[m - 1]>>] ELSE shorter[i]]
  <2>3. shorter[m - 1] \in V /\ step[<<m, shorter[m - 1]>>] \in V
    BY <2>1, <2>2
  <2>4. longer \in [0 .. m -> V] /\ longer[0] = start
    BY <1>3, <2>1, <2>2, <2>3
  <2>5. ASSUME NEW k \in 1 .. m PROVE longer[k] = step[<<k, longer[k - 1]>>]
    <3>1. longer[k - 1] = shorter[k - 1]
      BY <2>1
    <3>2. CASE k = m
      BY <3>1, <3>2
    <3>3. CASE k # m
      <4>1. k \in 1 .. (m - 1) /\ longer[k] = shorter[k]
        BY <2>1, <3>3
      <4> QED BY <2>2, <3>1, <4>1
    <3> QED BY <3>2, <3>3
  <2>6. Good(longer, m)
    BY <2>4, <2>5
  <2> QED BY <1>1, <2>6
<1> QED BY <1>2, <1>3

(* What holds at the start and goes on holding. *)
LEMMA StepByStep ==
  ASSUME NEW n \in Nat, NEW S, 0 \in S, \A k \in 1 .. n : k - 1 \in S => k \in S
  PROVE  \A k \in 0 .. n : k \in S
<1> DEFINE Bad == {k \in 0 .. n : k \notin S}
<1> SUFFICES ASSUME Bad # {} PROVE FALSE
  OBVIOUS
<1>1. Bad \subseteq Nat
  OBVIOUS
<1>2. PICK m \in Bad : \A j \in Bad : m <= j
  BY <1>1, FirstExists
<1>3. m # 0 /\ m - 1 \in 0 .. n /\ m - 1 \notin Bad
  BY <1>2
<1> QED BY <1>2, <1>3

-----------------------------------------------------------------------------
(***************************************************************************)
(* InOrder.                                                                *)
(***************************************************************************)
(* What a sequence of positions up to n is that has those of ids in order. *)
IsInOrder(q, ids, n) ==
  /\ q \in Seq(1 .. n) /\ Elements(q) = ids \cap (1 .. n) /\ Len(q) <= n
  /\ \A i, j \in 1 .. Len(q) : i < j => q[i] < q[j]
  /\ \A m \in 0 .. n : 1 .. m \subseteq ids =>
       m <= Len(q) /\ \A i \in 1 .. m : q[i] = i

LEMMA OneMoreInOrder ==
  ASSUME NEW ids, NEW k \in Nat, k # 0, NEW q, IsInOrder(q, ids, k - 1)
  PROVE  IsInOrder(q \o (IF k \in ids THEN <<k>> ELSE <<>>), ids, k)
<1>1. /\ q \in Seq(1 .. (k - 1)) /\ Elements(q) = ids \cap (1 .. (k - 1)) /\ Len(q) <= k - 1
      /\ k - 1 \in Nat /\ Len(q) \in Nat
      /\ \A i, j \in 1 .. Len(q) : i < j => q[i] < q[j]
      /\ \A m \in 0 .. (k - 1) : 1 .. m \subseteq ids =>
           m <= Len(q) /\ \A i \in 1 .. m : q[i] = i
  BY LenProperties DEF IsInOrder
<1>2. 1 .. k = (1 .. (k - 1)) \cup {k} /\ k \notin 1 .. (k - 1) /\ 0 .. k = (0 .. (k - 1)) \cup {k}
  BY <1>1
<1>3. q \in Seq(1 .. k) /\ \A i \in 1 .. Len(q) : q[i] \in 1 .. (k - 1)
  <2>1. \A i \in 1 .. Len(q) : q[i] \in 1 .. (k - 1)
    BY <1>1, ElementOfSeq
  <2>2. Seq(1 .. (k - 1)) \subseteq Seq(1 .. k)
    BY <1>2
  <2> QED BY <1>1, <2>1, <2>2
<1>4. CASE k \notin ids
  <2>1. q \o (IF k \in ids THEN <<k>> ELSE <<>>) = q
    BY <1>3, <1>4, ConcatEmptySeq
  <2>2. ids \cap (1 .. k) = ids \cap (1 .. (k - 1))
    BY <1>2, <1>4
  <2>3. \A m \in 0 .. k : 1 .. m \subseteq ids => m \in 0 .. (k - 1)
    <3>1. k \in 1 .. k
      BY <1>1
    <3> QED BY <1>2, <1>4, <3>1
  <2>4. \A m \in 0 .. k : 1 .. m \subseteq ids => m <= Len(q) /\ \A i \in 1 .. m : q[i] = i
    BY <1>1, <2>3
  <2>5. Len(q) <= k
    BY <1>1
  <2>6. IsInOrder(q, ids, k)
    BY <1>1, <1>3, <2>2, <2>4, <2>5 DEF IsInOrder
  <2> QED BY <2>1, <2>6
<1>5. CASE k \in ids
  <2> DEFINE r == q \o <<k>>
  <2>1. /\ r \in Seq(1 .. k) /\ Len(r) = Len(q) + 1 /\ r[Len(q) + 1] = k
        /\ \A i \in 1 .. Len(q) : r[i] = q[i]
    <3>1. k \in 1 .. k
      BY <1>1
    <3>2. r = Append(q, k)
      BY <1>3, <3>1, AppendIsConcat
    <3> QED BY <1>3, <3>1, <3>2, AppendProperties
  <2> HIDE DEF r
  <2>2. 1 .. Len(r) = (1 .. Len(q)) \cup {Len(r)}
    BY <1>1, <2>1
  <2>3. Elements(r) = ids \cap (1 .. k)
    <3>1. Elements(r) = Elements(q) \cup {k}
      BY <2>1, <2>2 DEF Elements
    <3> QED BY <1>1, <1>2, <1>5, <3>1
  <2>4. ASSUME NEW i \in 1 .. Len(r), NEW j \in 1 .. Len(r), i < j PROVE r[i] < r[j]
    <3>1. i \in 1 .. Len(q)
      BY <1>1, <2>1, <2>4
    <3>2. CASE j = Len(r)
      BY <1>1, <1>3, <2>1, <3>1, <3>2
    <3>3. CASE j # Len(r)
      <4>1. j \in 1 .. Len(q)
        BY <2>2, <3>3
      <4> QED BY <1>1, <2>1, <2>4, <3>1, <4>1
    <3> QED BY <3>2, <3>3
  <2>5. ASSUME NEW m \in 0 .. k, 1 .. m \subseteq ids
        PROVE  m <= Len(r) /\ \A i \in 1 .. m : r[i] = i
    <3>1. CASE m # k
      <4>1. m \in 0 .. (k - 1)
        BY <1>2, <3>1
      <4>2. m <= Len(q) /\ \A i \in 1 .. m : q[i] = i
        BY <1>1, <2>5, <4>1
      <4>3. m <= Len(r)
        BY <1>1, <2>1, <4>1, <4>2
      <4>4. \A i \in 1 .. m : i \in 1 .. Len(q)
        BY <1>1, <4>1, <4>2
      <4> QED BY <2>1, <4>2, <4>3, <4>4
    <3>2. CASE m = k
      <4>1. k - 1 \in 0 .. (k - 1) /\ 1 .. (k - 1) \subseteq ids
        BY <1>1, <1>2, <2>5, <3>2
      <4>2. k - 1 <= Len(q) /\ \A i \in 1 .. (k - 1) : q[i] = i
        BY <1>1, <4>1
      <4>3. Len(q) = k - 1
        BY <1>1, <4>2
      <4>4. \A i \in 1 .. (k - 1) : r[i] = i
        BY <2>1, <4>2, <4>3
      <4>5. r[k] = k /\ Len(r) = k
        BY <1>1, <2>1, <4>3
      <4> QED BY <1>2, <3>2, <4>4, <4>5
    <3> QED BY <3>1, <3>2
  <2>6. Len(r) <= k
    BY <1>1, <2>1
  <2>7. IsInOrder(r, ids, k)
    BY <2>1, <2>3, <2>4, <2>5, <2>6 DEF IsInOrder
  <2> QED BY <1>5, <2>7 DEF r
<1> QED BY <1>4, <1>5

(* InOrder is the members of ids up to n, in order. *)
LEMMA InOrderIs ==
  ASSUME NEW ids, NEW n \in Nat
  PROVE  IsInOrder(Assembly!InOrder(ids, n), ids, n)
<1> DEFINE OneMore(q, k) == q \o (IF k \in ids THEN <<k>> ELSE <<>>)
           IsTaken(f) == f = [k \in 0 .. n |-> IF k = 0 THEN <<>> ELSE OneMore(f[k - 1], k)]
           step == [p \in (1 .. n) \X Seq(Nat) |-> OneMore(p[2], p[1])]
<1>1. step \in [(1 .. n) \X Seq(Nat) -> Seq(Nat)] /\ <<>> \in Seq(Nat)
  <2>1. ASSUME NEW p \in (1 .. n) \X Seq(Nat) PROVE OneMore(p[2], p[1]) \in Seq(Nat)
    <3>1. <<p[1]>> \in Seq(Nat) /\ p[2] \in Seq(Nat) /\ <<>> \in Seq(Nat)
      BY <2>1
    <3> QED BY <3>1, ConcatProperties
  <2> QED BY <2>1
<1>2. PICK table : IsTable(table, Seq(Nat), n, <<>>, step)
  <2> HIDE DEF step
  <2> QED BY <1>1, TableExists
<1>3. \A k \in 1 .. n : table[k] = OneMore(table[k - 1], k)
  <2> HIDE DEF OneMore
  <2>1. ASSUME NEW k \in 1 .. n PROVE table[k] = OneMore(table[k - 1], k)
    <3>1. k - 1 \in 0 .. n /\ <<k, table[k - 1]>> \in (1 .. n) \X Seq(Nat)
      BY <1>2 DEF IsTable
    <3> QED BY <1>2, <3>1 DEF IsTable
  <2> QED BY <2>1
<1>4. \E f : IsTaken(f)
  <2> HIDE DEF OneMore
  <2> DEFINE again == [k \in 0 .. n |-> IF k = 0 THEN <<>> ELSE OneMore(table[k - 1], k)]
  <2>1. \A k \in 0 .. n : table[k] = again[k]
    BY <1>2, <1>3 DEF IsTable
  <2>2. table = [k \in 0 .. n |-> table[k]] /\ again = [k \in 0 .. n |-> again[k]]
    BY <1>2 DEF IsTable
  <2>3. table = again
    <3> HIDE DEF again
    <3> QED BY <2>1, <2>2
  <2> QED BY <2>3
<1> DEFINE taken == CHOOSE f : IsTaken(f)
<1>5. IsTaken(taken)
  <2> HIDE DEF IsTaken
  <2> QED BY <1>4
<1>6. Assembly!InOrder(ids, n) = taken[n]
  BY DEF Assembly!InOrder
<1> HIDE DEF taken
<1>7. taken[0] = <<>> /\ \A k \in 1 .. n : taken[k] = OneMore(taken[k - 1], k)
  <2> HIDE DEF OneMore
  <2>1. \A k \in 0 .. n : taken[k] = IF k = 0 THEN <<>> ELSE OneMore(taken[k - 1], k)
    BY <1>5
  <2> QED BY <2>1
<1> HIDE DEF IsTaken
<1> DEFINE S == {k \in 0 .. n : IsInOrder(taken[k], ids, k)}
<1>8. 0 \in S
  <2>1. IsInOrder(<<>>, ids, 0)
    <3>1. <<>> \in Seq(1 .. 0) /\ Len(<<>>) = 0 /\ Elements(<<>>) = {}
      BY DEF Elements
    <3> QED BY <3>1 DEF IsInOrder
  <2> QED BY <1>7, <2>1
<1>9. ASSUME NEW k \in 1 .. n, k - 1 \in S PROVE k \in S
  <2>1. IsInOrder(taken[k - 1], ids, k - 1) /\ k \in Nat /\ k # 0
    BY <1>9
  <2>2. PICK q : q = taken[k - 1]
    OBVIOUS
  <2>3. IsInOrder(q \o (IF k \in ids THEN <<k>> ELSE <<>>), ids, k)
    BY <2>1, <2>2, OneMoreInOrder
  <2>4. IsInOrder(taken[k], ids, k)
    BY <1>7, <2>2, <2>3
  <2> QED BY <2>4
<1>10. n \in S
  <2> HIDE DEF S
  <2>1. \A k \in 1 .. n : k - 1 \in S => k \in S
    BY <1>9
  <2>2. \A k \in 0 .. n : k \in S
    BY <1>8, <2>1, StepByStep
  <2> QED BY <2>2
<1> QED BY <1>6, <1>10

-----------------------------------------------------------------------------
(***************************************************************************)
(* Estimate.                                                               *)
(***************************************************************************)
Totals(total, items) ==
  /\ total \in [0 .. Len(items) -> Nat] /\ total[0] = 0
  /\ \A k \in 1 .. Len(items) : total[k] = total[k - 1] + items[k].size

LEMMA EstimateIs ==
  ASSUME NEW items \in Seq(ContextItems)
  PROVE  /\ Assembly!Estimate(items) \in Nat
         /\ \E total : Totals(total, items) /\ Assembly!Estimate(items) = total[Len(items)]
<1> DEFINE IsTotal(f) == f = [k \in 0 .. Len(items) |->
                                IF k = 0 THEN 0 ELSE f[k - 1] + items[k].size]
           step == [p \in (1 .. Len(items)) \X Nat |-> p[2] + items[p[1]].size]
<1>1. Len(items) \in Nat /\ \A k \in 1 .. Len(items) : items[k].size \in Nat
  <2>1. ASSUME NEW k \in 1 .. Len(items) PROVE items[k].size \in Nat
    <3>1. items[k] \in ContextItems
      BY ElementOfSeq
    <3> QED BY <3>1 DEF ContextItems
  <2> QED BY <2>1, LenProperties
<1>2. step \in [(1 .. Len(items)) \X Nat -> Nat]
  BY <1>1
<1>3. PICK table : IsTable(table, Nat, Len(items), 0, step)
  <2> HIDE DEF step
  <2> QED BY <1>1, <1>2, TableExists
<1>4. Totals(table, items)
  <2>1. ASSUME NEW k \in 1 .. Len(items) PROVE table[k] = table[k - 1] + items[k].size
    <3>1. k - 1 \in 0 .. Len(items)
      BY <1>1
    <3>2. table[k - 1] \in Nat /\ table[k] = step[<<k, table[k - 1]>>]
      BY <1>3, <3>1 DEF IsTable
    <3> QED BY <3>1, <3>2
  <2> QED BY <1>3, <2>1 DEF Totals, IsTable
<1>5. \E f : IsTotal(f)
  <2> DEFINE again == [k \in 0 .. Len(items) |-> IF k = 0 THEN 0 ELSE table[k - 1] + items[k].size]
  <2>1. \A k \in 0 .. Len(items) : table[k] = again[k]
    BY <1>1, <1>4 DEF Totals
  <2>2. table = [k \in 0 .. Len(items) |-> table[k]] /\ again = [k \in 0 .. Len(items) |-> again[k]]
    BY <1>4 DEF Totals
  <2>3. table = again
    <3> HIDE DEF again
    <3> QED BY <2>1, <2>2
  <2> QED BY <2>3
<1> DEFINE total == CHOOSE f : IsTotal(f)
<1>6. IsTotal(total)
  <2> HIDE DEF IsTotal
  <2> QED BY <1>5
<1>7. Assembly!Estimate(items) = total[Len(items)]
  BY DEF Assembly!Estimate
<1> HIDE DEF total
<1>8. \A k \in 0 .. Len(items) : total[k] = IF k = 0 THEN 0 ELSE total[k - 1] + items[k].size
  BY <1>6
<1>9. total = [k \in 0 .. Len(items) |-> total[k]]
  BY <1>6
<1> HIDE DEF IsTotal
<1>10. total[0] = 0 /\ \A k \in 1 .. Len(items) : total[k] = total[k - 1] + items[k].size
  <2>1. 0 \in 0 .. Len(items) /\ \A k \in 1 .. Len(items) : k \in 0 .. Len(items) /\ k # 0
    BY <1>1
  <2> QED BY <1>8, <2>1
<1> DEFINE S == {k \in 0 .. Len(items) : total[k] \in Nat}
<1>11. \A k \in 0 .. Len(items) : k \in S
  <2>1. 0 \in S
    BY <1>1, <1>10
  <2>2. ASSUME NEW k \in 1 .. Len(items), k - 1 \in S PROVE k \in S
    <3>1. total[k] = total[k - 1] + items[k].size /\ items[k].size \in Nat
      BY <1>1, <1>10
    <3>2. total[k - 1] \in Nat /\ k \in 0 .. Len(items)
      BY <1>1, <2>2
    <3> QED BY <3>1, <3>2
  <2>3. \A k \in 1 .. Len(items) : k - 1 \in S => k \in S
    BY <2>2
  <2> HIDE DEF S
  <2> QED BY <1>1, <2>1, <2>3, StepByStep
<1>12. Totals(total, items)
  <2>1. \A k \in 0 .. Len(items) : total[k] \in Nat
    BY <1>11
  <2> QED BY <1>9, <1>10, <2>1 DEF Totals
<1>13. total[Len(items)] \in Nat
  BY <1>1, <1>12 DEF Totals
<1> QED BY <1>7, <1>12, <1>13

LEMMA EstimateOfConcat ==
  ASSUME NEW s \in Seq(ContextItems), NEW t \in Seq(ContextItems)
  PROVE  Assembly!Estimate(s \o t) = Assembly!Estimate(s) + Assembly!Estimate(t)
<1> DEFINE st == s \o t
<1>1. /\ st \in Seq(ContextItems) /\ Len(s) \in Nat /\ Len(t) \in Nat
      /\ Len(st) = Len(s) + Len(t)
      /\ \A i \in 1 .. (Len(s) + Len(t)) :
           st[i] = IF i <= Len(s) THEN s[i] ELSE t[i - Len(s)]
  BY ConcatProperties, LenProperties
<1> HIDE DEF st
<1>2. PICK a : Totals(a, s) /\ Assembly!Estimate(s) = a[Len(s)]
  BY EstimateIs
<1>3. PICK b : Totals(b, t) /\ Assembly!Estimate(t) = b[Len(t)]
  BY EstimateIs
<1>4. PICK c : Totals(c, st) /\ Assembly!Estimate(st) = c[Len(st)]
  BY <1>1, EstimateIs
<1> DEFINE S == {k \in 0 .. Len(s) : c[k] = a[k]}
           T == {k \in 0 .. Len(t) : c[Len(s) + k] = a[Len(s)] + b[k]}
<1>5. \A k \in 0 .. Len(s) : k \in S
  <2>1. 0 \in S
    BY <1>1, <1>2, <1>4 DEF Totals
  <2>2. ASSUME NEW k \in 1 .. Len(s), k - 1 \in S PROVE k \in S
    <3>1. k \in 1 .. Len(st) /\ st[k] = s[k] /\ c[k - 1] = a[k - 1]
      BY <1>1, <2>2
    <3>2. c[k] = c[k - 1] + st[k].size /\ a[k] = a[k - 1] + s[k].size
      BY <1>2, <1>4, <3>1 DEF Totals
    <3> QED BY <1>1, <3>1, <3>2
  <2>3. \A k \in 1 .. Len(s) : k - 1 \in S => k \in S
    BY <2>2
  <2> HIDE DEF S
  <2> QED BY <1>1, <2>1, <2>3, StepByStep
<1>6. \A k \in 0 .. Len(t) : k \in T
  <2>1. 0 \in T
    <3>1. c[Len(s)] = a[Len(s)]
      BY <1>1, <1>5
    <3>2. a[Len(s)] \in Nat /\ b[0] = 0
      <4>1. Len(s) \in 0 .. Len(s)
        BY <1>1
      <4> QED BY <1>2, <1>3, <4>1 DEF Totals
    <3> QED BY <1>1, <3>1, <3>2
  <2>2. ASSUME NEW k \in 1 .. Len(t), k - 1 \in T PROVE k \in T
    <3> DEFINE n == Len(s) + k
    <3>1. n \in 1 .. Len(st) /\ st[n] = t[k] /\ n - 1 = Len(s) + (k - 1)
      <4>1. n \in 1 .. Len(st) /\ ~ (n <= Len(s)) /\ n - Len(s) = k
            /\ n - 1 = Len(s) + (k - 1)
        BY <1>1
      <4> HIDE DEF n
      <4>2. st[n] = t[n - Len(s)]
        BY <1>1, <4>1
      <4> QED BY <4>1, <4>2
    <3>2. c[n - 1] = a[Len(s)] + b[k - 1]
      BY <2>2, <3>1
    <3> HIDE DEF n
    <3>3. c[n] = c[n - 1] + st[n].size /\ b[k] = b[k - 1] + t[k].size
      BY <1>3, <1>4, <3>1 DEF Totals
    <3>4. t[k].size \in Nat /\ a[Len(s)] \in Nat /\ b[k - 1] \in Nat
      <4>1. k - 1 \in 0 .. Len(t) /\ Len(s) \in 0 .. Len(s)
        BY <1>1
      <4>2. t[k] \in ContextItems
        BY ElementOfSeq
      <4>3. t[k].size \in Nat
        BY <4>2 DEF ContextItems
      <4> QED BY <1>2, <1>3, <4>1, <4>3 DEF Totals
    <3>5. c[n] = a[Len(s)] + b[k]
      BY <3>1, <3>2, <3>3, <3>4
    <3> QED BY <1>1, <3>5 DEF n
  <2>3. \A k \in 1 .. Len(t) : k - 1 \in T => k \in T
    BY <2>2
  <2> HIDE DEF T
  <2> QED BY <1>1, <2>1, <2>3, StepByStep
<1>7. c[Len(st)] = a[Len(s)] + b[Len(t)]
  BY <1>1, <1>6
<1> QED BY <1>2, <1>3, <1>4, <1>7 DEF st

LEMMA EstimateOfOne ==
  ASSUME NEW item \in ContextItems
  PROVE  Assembly!Estimate(<<item>>) = item.size
<1>1. <<item>> \in Seq(ContextItems) /\ Len(<<item>>) = 1 /\ <<item>>[1] = item
  OBVIOUS
<1>2. PICK total : Totals(total, <<item>>) /\ Assembly!Estimate(<<item>>) = total[Len(<<item>>)]
  BY <1>1, EstimateIs
<1>3. total[0] = 0 /\ total[1] = total[0] + item.size
  BY <1>1, <1>2 DEF Totals
<1> QED BY <1>1, <1>2, <1>3 DEF ContextItems

-----------------------------------------------------------------------------
(***************************************************************************)
(* What is read back from the stream.                                      *)
(***************************************************************************)
LEMMA LargestExists ==
  ASSUME NEW n \in Nat, NEW S, S \subseteq 0 .. n, S # {}
  PROVE  \E x \in S : \A y \in S : y <= x
<1> DEFINE T == {n - x : x \in S}
<1>1. T \subseteq Nat /\ T # {}
  <2>1. \A x \in S : n - x \in Nat
    OBVIOUS
  <2>2. PICK x : x \in S
    OBVIOUS
  <2>3. n - x \in T
    BY <2>2
  <2> QED BY <2>1, <2>3
<1>2. PICK t \in T : \A u \in T : t <= u
  BY <1>1, FirstExists
<1>3. PICK x \in S : t = n - x
  BY <1>2
<1>4. \A y \in S : y <= x
  <2>1. ASSUME NEW y \in S PROVE y <= x
    <3>1. n - y \in T /\ y \in 0 .. n /\ x \in 0 .. n
      OBVIOUS
    <3>2. t <= n - y
      BY <1>2, <3>1
    <3> QED BY <1>3, <3>1, <3>2
  <2> QED BY <2>1
<1> QED BY <1>4

LEMMA LatestIs ==
  ASSUME NEW n \in Nat, NEW S, S \subseteq 0 .. n
  PROVE  /\ S = {} => Assembly!Latest(S) = 0
         /\ S # {} => Assembly!Latest(S) \in S /\ \A j \in S : j <= Assembly!Latest(S)
<1>1. CASE S = {}
  BY <1>1 DEF Assembly!Latest
<1>2. CASE S # {}
  BY <1>2, LargestExists DEF Assembly!Latest
<1> QED BY <1>1, <1>2

LEMMA LatestSummaryIs ==
  ASSUME NEW events \in Seq(Stored)
  PROVE  LET s == Assembly!LatestSummary(events) IN
         /\ s \in 0 .. Len(events)
         /\ s # 0 => events[s].kind = "compacted"
         /\ \A i \in 1 .. Len(events) : events[i].kind = "compacted" => i <= s
<1>1. Len(events) \in Nat /\ DOMAIN events = 1 .. Len(events)
  BY LenProperties
<1>2. Assembly!Compactions(events) = {i \in 1 .. Len(events) : events[i].kind = "compacted"}
  BY <1>1 DEF Assembly!Compactions
<1> DEFINE S == {i \in 1 .. Len(events) : events[i].kind = "compacted"}
<1>3. S \subseteq 0 .. Len(events)
  BY <1>1
<1>4. Assembly!LatestSummary(events) = Assembly!Latest(S)
  BY <1>2 DEF Assembly!LatestSummary
<1>5. CASE S = {}
  <2>1. Assembly!Latest(S) = 0
    BY <1>1, <1>3, <1>5, LatestIs
  <2> QED BY <1>1, <1>4, <1>5, <2>1
<1>6. CASE S # {}
  <2>1. Assembly!Latest(S) \in S /\ \A j \in S : j <= Assembly!Latest(S)
    <3> HIDE DEF S
    <3> QED BY <1>1, <1>3, <1>6, LatestIs
  <2> QED BY <1>1, <1>3, <1>4, <2>1
<1> QED BY <1>5, <1>6

(* The latest checkpoint names all there is to name. *)
LEMMA CoverageIs ==
  ASSUME NEW events \in Seq(Stored), Checkpoints(events)
  PROVE  Assembly!Coverage(events) = Covered(events)
<1> DEFINE D == Covered(events)
           opened(ids) == ids \cup UNION {events[i].dropped : i \in ids}
           IsReach(f) == f = [n \in 0 .. Len(events) |->
                                IF n > 0 THEN opened(f[n - 1])
                                ELSE IF Assembly!LatestSummary(events) = 0 THEN {}
                                     ELSE events[Assembly!LatestSummary(events)].dropped]
<1>1. Len(events) \in Nat
  BY LenProperties
<1>2. opened(D) = D
  <2>1. ASSUME NEW i \in D PROVE events[i].dropped \subseteq D
    <3>1. Assembly!LatestSummary(events) \in 1 .. Len(events)
          /\ i \in events[Assembly!LatestSummary(events)].dropped
      BY <1>1, <2>1, LatestSummaryIs DEF Covered
    <3> QED BY <3>1 DEF Checkpoints, Covered
  <2> HIDE DEF D
  <2> QED BY <2>1
<1>3. \E f : IsReach(f)
  <2> DEFINE always == [n \in 0 .. Len(events) |-> D]
             again == [n \in 0 .. Len(events) |->
                                IF n > 0 THEN opened(always[n - 1])
                                ELSE IF Assembly!LatestSummary(events) = 0 THEN {}
                                     ELSE events[Assembly!LatestSummary(events)].dropped]
  <2> HIDE DEF opened
  <2>1. \A n \in 0 .. Len(events) : always[n] = again[n]
    <3>1. ASSUME NEW n \in 0 .. Len(events) PROVE always[n] = again[n]
      <4>1. CASE n = 0
        BY <4>1 DEF Covered
      <4>2. CASE n # 0
        <5>1. n > 0 /\ n - 1 \in 0 .. Len(events) /\ always[n - 1] = D /\ always[n] = D
          BY <1>1, <4>2
        <5> HIDE DEF always, D
        <5> QED BY <1>2, <5>1
      <4> QED BY <4>1, <4>2
    <3> QED BY <3>1
  <2>2. always = [n \in 0 .. Len(events) |-> always[n]] /\ again = [n \in 0 .. Len(events) |-> again[n]]
    OBVIOUS
  <2>3. always = again
    <3> HIDE DEF always, again
    <3> QED BY <2>1, <2>2
  <2>4. IsReach(always)
    BY <2>3
  <2> QED BY <2>4
<1> DEFINE reach == CHOOSE f : IsReach(f)
<1>4. IsReach(reach)
  <2> HIDE DEF IsReach
  <2> QED BY <1>3
<1>5. Assembly!Coverage(events) = reach[Len(events)]
  BY DEF Assembly!Coverage
<1> HIDE DEF reach
<1>6. reach[0] = D /\ \A n \in 1 .. Len(events) : reach[n] = opened(reach[n - 1])
  <2> HIDE DEF opened
  <2>1. \A n \in 0 .. Len(events) :
          reach[n] = IF n > 0 THEN opened(reach[n - 1])
                     ELSE IF Assembly!LatestSummary(events) = 0 THEN {}
                          ELSE events[Assembly!LatestSummary(events)].dropped
    BY <1>4
  <2>2. 0 \in 0 .. Len(events) /\ \A n \in 1 .. Len(events) : n \in 0 .. Len(events) /\ n > 0
    BY <1>1
  <2> QED BY <2>1, <2>2 DEF Covered
<1> HIDE DEF IsReach
<1> DEFINE S == {k \in 0 .. Len(events) : reach[k] = D}
<1>7. \A k \in 0 .. Len(events) : k \in S
  <2> HIDE DEF opened, D
  <2>1. 0 \in S
    BY <1>1, <1>6
  <2>2. ASSUME NEW k \in 1 .. Len(events), k - 1 \in S PROVE k \in S
    BY <1>1, <1>2, <1>6, <2>2
  <2>3. \A k \in 1 .. Len(events) : k - 1 \in S => k \in S
    BY <2>2
  <2> HIDE DEF S
  <2> QED BY <1>1, <2>1, <2>3, StepByStep
<1>8. reach[Len(events)] = D
  BY <1>1, <1>7
<1> QED BY <1>5, <1>8

LEMMA CoveredIsEarlier ==
  ASSUME NEW events \in Seq(Stored), Checkpoints(events)
  PROVE  Covered(events) \subseteq 1 .. (Assembly!LatestSummary(events) - 1)
<1>1. CASE Assembly!LatestSummary(events) = 0
  BY <1>1 DEF Covered
<1>2. CASE Assembly!LatestSummary(events) # 0
  <2>1. Assembly!LatestSummary(events) \in 1 .. Len(events)
    BY <1>2, LatestSummaryIs, LenProperties
  <2> QED BY <1>2, <2>1 DEF Covered, Checkpoints
<1> QED BY <1>1, <1>2

-----------------------------------------------------------------------------
(***************************************************************************)
(* from_events.                                                            *)
(***************************************************************************)
LEMMA ContextSets ==
  ASSUME NEW items \in Seq(ContextItems)
  PROVE  /\ DOMAIN items = 1 .. Len(items) /\ Len(items) \in Nat
         /\ Elements(items) \subseteq ContextItems
         /\ Assembly!Ids(items) = IdsIn(items)
         /\ UNION {items[i].about : i \in DOMAIN items} = AboutOf(items)
         /\ {items[i].id : i \in {j \in DOMAIN items : items[j].role = "Tool"}} = ResultIds(items)
<1>1. DOMAIN items = 1 .. Len(items) /\ Len(items) \in Nat
  BY LenProperties
<1>2. \A i \in 1 .. Len(items) : items[i] \in ContextItems
  BY ElementOfSeq
<1>3. Elements(items) \subseteq ContextItems
  BY <1>2 DEF Elements
<1>4. Assembly!Ids(items) = IdsIn(items)
  BY <1>1 DEF Assembly!Ids, IdsIn, Elements
<1>5. UNION {items[i].about : i \in DOMAIN items} = AboutOf(items)
  BY <1>1 DEF AboutOf, Elements
<1>6. {items[i].id : i \in {j \in DOMAIN items : items[j].role = "Tool"}} = ResultIds(items)
  BY <1>1 DEF ResultIds, Elements
<1> QED BY <1>1, <1>3, <1>4, <1>5, <1>6

(* Sequences of items that have no identity in common. *)
LEMMA ApartConcat ==
  ASSUME NEW s \in Seq(ContextItems), NEW t \in Seq(ContextItems),
         Apart(s), Apart(t), IdsIn(s) \cap IdsIn(t) = {}
  PROVE  Apart(s \o t)
<1> DEFINE st == s \o t
<1>1. /\ Len(s) \in Nat /\ Len(t) \in Nat
      /\ Len(st) = Len(s) + Len(t)
      /\ \A i \in 1 .. (Len(s) + Len(t)) :
           st[i] = IF i <= Len(s) THEN s[i] ELSE t[i - Len(s)]
  BY ConcatProperties, LenProperties
<1> HIDE DEF st
<1>2. ASSUME NEW i \in 1 .. Len(st)
      PROVE  \/ i \in 1 .. Len(s) /\ st[i] = s[i] /\ st[i].id \in IdsIn(s)
             \/ i - Len(s) \in 1 .. Len(t) /\ st[i] = t[i - Len(s)] /\ st[i].id \in IdsIn(t)
  <2>1. CASE i <= Len(s)
    <3>1. i \in 1 .. Len(s) /\ st[i] = s[i]
      BY <1>1, <2>1
    <3> QED BY <3>1 DEF IdsIn, Elements
  <2>2. CASE ~ (i <= Len(s))
    <3>1. i - Len(s) \in 1 .. Len(t) /\ st[i] = t[i - Len(s)]
      BY <1>1, <2>2
    <3> QED BY <3>1 DEF IdsIn, Elements
  <2> QED BY <2>1, <2>2
<1>3. ASSUME NEW i \in 1 .. Len(st), NEW j \in 1 .. Len(st), st[i].id = st[j].id PROVE i = j
  <2>1. CASE i \in 1 .. Len(s) /\ st[i] = s[i] /\ st[i].id \in IdsIn(s)
    <3>1. j \in 1 .. Len(s) /\ st[j] = s[j]
      BY <1>2, <1>3, <2>1
    <3> QED BY <1>3, <2>1, <3>1 DEF Apart
  <2>2. CASE i - Len(s) \in 1 .. Len(t) /\ st[i] = t[i - Len(s)] /\ st[i].id \in IdsIn(t)
    <3>1. j - Len(s) \in 1 .. Len(t) /\ st[j] = t[j - Len(s)]
      BY <1>2, <1>3, <2>2
    <3>2. i - Len(s) = j - Len(s)
      BY <1>3, <2>2, <3>1 DEF Apart
    <3> QED BY <1>1, <3>2
  <2> QED BY <1>2, <2>1, <2>2
<1>4. Apart(st)
  BY <1>3 DEF Apart
<1> QED BY <1>4 DEF st

(* A sequence of items made from the events of ids, in order. *)
MadeInOrder(items, F, ids, n) ==
  items = [k \in DOMAIN Assembly!InOrder(ids, n) |-> F[Assembly!InOrder(ids, n)[k]]]
LEMMA ItemsOfEvents ==
  ASSUME NEW n \in Nat, NEW ids, ids \subseteq 1 .. n,
         NEW F, NEW items,
         \A i \in ids : F[i] \in ContextItems /\ F[i].id = i,
         MadeInOrder(items, F, ids, n)
  PROVE  /\ items \in Seq(ContextItems) /\ Elements(items) = {F[i] : i \in ids}
         /\ IdsIn(items) = ids /\ Apart(items)
<1> DEFINE q == Assembly!InOrder(ids, n)
<1>1. IsInOrder(q, ids, n)
  BY InOrderIs
<1> HIDE DEF q
<1>2. /\ DOMAIN q = 1 .. Len(q) /\ Len(q) \in Nat /\ Elements(q) = ids
      /\ \A i, j \in 1 .. Len(q) : i < j => q[i] < q[j]
      /\ \A i \in 1 .. Len(q) : q[i] \in ids /\ q[i] \in 1 .. n
  <2>1. DOMAIN q = 1 .. Len(q) /\ Len(q) \in Nat /\ Elements(q) = ids
    BY <1>1, LenProperties DEF IsInOrder
  <2>2. \A i \in 1 .. Len(q) : q[i] \in ids
    BY <2>1 DEF Elements
  <2> QED BY <1>1, <2>1, <2>2 DEF IsInOrder
<1>3. items = [k \in 1 .. Len(q) |-> F[q[k]]]
  BY <1>2 DEF q, MadeInOrder
<1>4. \A k \in 1 .. Len(q) : F[q[k]] \in ContextItems /\ F[q[k]].id = q[k]
  BY <1>2
<1>5. items \in Seq(ContextItems) /\ Len(items) = Len(q)
  BY <1>2, <1>3, <1>4
<1>6. \A k \in 1 .. Len(items) : items[k] = F[q[k]]
  BY <1>3, <1>5
<1>7. Elements(items) = {F[i] : i \in ids}
  <2>1. ASSUME NEW k \in 1 .. Len(items) PROVE \E i \in ids : items[k] = F[i]
    BY <1>2, <1>5, <1>6
  <2>2. ASSUME NEW i \in ids PROVE \E k \in 1 .. Len(items) : items[k] = F[i]
    <3>1. PICK k \in 1 .. Len(q) : q[k] = i
      BY <1>2 DEF Elements
    <3> QED BY <1>5, <1>6, <3>1
  <2> QED BY <2>1, <2>2 DEF Elements
<1>8. IdsIn(items) = ids
  <2>1. \A i \in ids : F[i].id = i
    OBVIOUS
  <2>2. IdsIn(items) = {F[i].id : i \in ids}
    BY <1>7 DEF IdsIn
  <2> QED BY <2>1, <2>2
<1>9. ASSUME NEW i \in 1 .. Len(items), NEW j \in 1 .. Len(items), items[i].id = items[j].id
      PROVE  i = j
  <2>1. q[i] = q[j] /\ i \in 1 .. Len(q) /\ j \in 1 .. Len(q)
    BY <1>4, <1>5, <1>6, <1>9
  <2>2. ~ (i < j) /\ ~ (j < i)
    BY <1>2, <2>1
  <2> QED BY <1>2, <2>1, <2>2
<1> QED BY <1>5, <1>7, <1>8, <1>9 DEF Apart

LEMMA FromEventsIs ==
  ASSUME NEW events \in Seq(Stored), Checkpoints(events), NEW provided
  PROVE  LET items == Assembly!FromEvents(events, provided) IN
         /\ items \in Seq(ContextItems) /\ Apart(items)
         /\ IdsIn(items) = Summary(events) \cup Shown(events, provided)
         /\ SummaryIsFirst(items, events)
         /\ \A item \in Elements(items) :
              Fits(item, events, 1 .. Len(events)) /\ item.role # "Tool"
<1> DEFINE s == Assembly!LatestSummary(events)
           n == Len(events)
           visible == Shown(events, provided)
           F == [i \in visible |-> Assembly!Item(i, Assembly!Role(events[i].kind), events[i].size, {i})]
           q == Assembly!InOrder(visible, n)
           rest == [k \in DOMAIN q |-> Assembly!Item(q[k], Assembly!Role(events[q[k]].kind),
                                                      events[q[k]].size, {q[k]})]
           first == IF s = 0 THEN <<>> ELSE <<Assembly!SummaryItem(events, s)>>
<1>1. n \in Nat /\ DOMAIN events = 1 .. n /\ \A i \in 1 .. n : events[i] \in Stored
  BY LenProperties, ElementOfSeq
<1>2. s \in 0 .. n /\ (s # 0 => s \in 1 .. n /\ events[s].kind = "compacted")
  BY LatestSummaryIs, <1>1
<1>3. Assembly!VisibleEvents(events, DOMAIN events \ (Assembly!Coverage(events) \cup provided)) = visible
  BY <1>1, CoverageIs DEF Assembly!VisibleEvents, Shown
<1>4. Assembly!FromEvents(events, provided) = first \o rest
  BY <1>3 DEF Assembly!FromEvents
<1>5. ASSUME NEW i \in visible
      PROVE  F[i] \in ContextItems /\ F[i].id = i /\ F[i].role # "Tool" /\ F[i].about = {i}
  <2>1. i \in 1 .. n /\ events[i].kind \in StoredKinds \ {"compacted"} /\ events[i].size \in Nat
    BY <1>1, <1>5 DEF Shown, Stored
  <2>2. Assembly!Role(events[i].kind) \in Roles \ {"Tool"}
    BY <2>1 DEF Assembly!Role, StoredKinds, Roles
  <2> QED BY <1>1, <2>1, <2>2 DEF Assembly!Item, ContextItems
<1>6. visible \subseteq 1 .. n
  BY DEF Shown
<1>7. rest = [k \in DOMAIN q |-> F[q[k]]]
  <2>1. IsInOrder(q, visible, n)
    BY <1>1, InOrderIs
  <2>2. \A k \in DOMAIN q : q[k] \in visible
    <3> HIDE DEF q, visible
    <3> QED BY <1>6, <2>1, LenProperties DEF IsInOrder, Elements
  <2> HIDE DEF q, visible
  <2> QED BY <2>2
<1>8. /\ rest \in Seq(ContextItems) /\ Elements(rest) = {F[i] : i \in visible}
      /\ IdsIn(rest) = visible /\ Apart(rest)
  <2> HIDE DEF F, visible, rest, n
  <2>1. MadeInOrder(rest, F, visible, n)
    BY <1>7 DEF MadeInOrder, q
  <2>2. \A i \in visible : F[i] \in ContextItems /\ F[i].id = i
    BY <1>5
  <2> QED BY <1>1, <1>6, <2>1, <2>2, ItemsOfEvents
<1>9. \A item \in Elements(rest) : Fits(item, events, 1 .. n) /\ item.role # "Tool"
  <2> HIDE DEF F, visible, rest, n
  <2> QED BY <1>5, <1>6, <1>8 DEF Fits
<1> HIDE DEF rest, F
<1>10. CASE s = 0
  <2>1. Assembly!FromEvents(events, provided) = rest
    BY <1>4, <1>8, <1>10, ConcatEmptySeq
  <2> QED BY <1>8, <1>9, <1>10, <2>1 DEF Summary, SummaryIsFirst
<1>11. CASE s # 0
  <2> DEFINE item == Assembly!SummaryItem(events, s)
  <2>1. /\ item \in ContextItems /\ item.id = s /\ item.role = "Memory"
        /\ item.about = events[s].about
    BY <1>1, <1>2, <1>11 DEF Assembly!SummaryItem, Assembly!Item, ContextItems, Stored, Roles
  <2>2. Assembly!FromEvents(events, provided) = <<item>> \o rest
    BY <1>4, <1>11
  <2> HIDE DEF item
  <2>3. /\ <<item>> \in Seq(ContextItems) /\ Elements(<<item>>) = {item}
        /\ Apart(<<item>>) /\ IdsIn(<<item>>) = {s}
    <3>1. <<item>> \in Seq(ContextItems) /\ Elements(<<item>>) = {item} /\ Len(<<item>>) = 1
      BY <2>1, OneElement
    <3>2. Apart(<<item>>)
      BY <3>1 DEF Apart
    <3> QED BY <2>1, <3>1, <3>2 DEF IdsIn
  <2> DEFINE one == <<item>>
             all == one \o rest
  <2>4. /\ all \in Seq(ContextItems) /\ Elements(all) = {item} \cup Elements(rest)
        /\ all[1] = item /\ 1 \in 1 .. Len(all)
    <3>1. Len(rest) \in Nat /\ Len(one) = 1 /\ one[1] = item
      BY <1>8, LenProperties
    <3>2. one \in Seq(ContextItems) /\ Elements(one) = {item}
      BY <2>3
    <3> HIDE DEF one
    <3>3. all \in Seq(ContextItems) /\ all[1] = item /\ Len(all) = 1 + Len(rest)
      <4>1. /\ all \in Seq(ContextItems) /\ Len(all) = Len(one) + Len(rest)
            /\ \A i \in 1 .. (Len(one) + Len(rest)) :
                 all[i] = IF i <= Len(one) THEN one[i] ELSE rest[i - Len(one)]
        BY <1>8, <3>2, ConcatProperties
      <4>2. 1 \in 1 .. (Len(one) + Len(rest)) /\ 1 <= Len(one)
        BY <3>1
      <4> HIDE DEF all
      <4> QED BY <3>1, <4>1, <4>2
    <3>4. Elements(all) = Elements(one) \cup Elements(rest)
      BY <1>8, <3>2, ElementsOfConcat
    <3> QED BY <3>1, <3>2, <3>3, <3>4
  <2>5. s \notin visible
    BY <1>2, <1>11 DEF Shown
  <2>6. Apart(all)
    BY <1>8, <2>3, <2>5, ApartConcat
  <2> HIDE DEF all
  <2>7. IdsIn(all) = {s} \cup visible
    <3>1. IdsIn(all) = {item.id} \cup IdsIn(rest)
      BY <2>4 DEF IdsIn
    <3> QED BY <1>8, <2>1, <3>1
  <2>8. IsSummary(all, events, 1)
    BY <2>1, <2>4 DEF IsSummary, CanGo
  <2>9. SummaryIsFirst(all, events)
    BY <2>4, <2>8 DEF SummaryIsFirst
  <2>10. Fits(item, events, 1 .. n) /\ item.role # "Tool"
    BY <1>2, <1>11, <2>1 DEF Fits
  <2>11. \A x \in Elements(all) : Fits(x, events, 1 .. n) /\ x.role # "Tool"
    BY <1>9, <2>4, <2>10
  <2> QED BY <1>11, <2>2, <2>4, <2>6, <2>7, <2>9, <2>11 DEF all, Summary
<1> QED BY <1>10, <1>11

-----------------------------------------------------------------------------
(***************************************************************************)
(* One round of compaction.                                                *)
(***************************************************************************)
(* Which item may go. *)
LEMMA CandidatesAre ==
  ASSUME NEW items \in Seq(ContextItems)
  PROVE  LET q == Assembly!Candidates(items) IN
         /\ Len(q) \in Nat
         /\ \A k \in 1 .. Len(q) : q[k] \in 1 .. Len(items) /\ CanGo(items[q[k]])
         /\ Len(q) > 0 => \A j \in 1 .. (q[1] - 1) : j \in 1 .. Len(items) /\ ~ CanGo(items[j])
<1> DEFINE ids == {i \in 1 .. Len(items) : CanGo(items[i])}
           q == Assembly!InOrder(ids, Len(items))
<1>1. Len(items) \in Nat /\ DOMAIN items = 1 .. Len(items)
  BY LenProperties
<1>2. Assembly!Candidates(items) = q
  BY <1>1 DEF Assembly!Candidates, CanGo
<1>3. IsInOrder(q, ids, Len(items))
  BY <1>1, InOrderIs
<1> HIDE DEF q
<1>4. /\ Len(q) \in Nat /\ Elements(q) = ids
      /\ \A i, j \in 1 .. Len(q) : i < j => q[i] < q[j]
  BY <1>3, LenProperties DEF IsInOrder
<1>5. \A k \in 1 .. Len(q) : q[k] \in ids
  BY <1>4 DEF Elements
<1>6. ASSUME Len(q) > 0, NEW j \in 1 .. (q[1] - 1)
      PROVE  j \in 1 .. Len(items) /\ ~ CanGo(items[j])
  <2>1. 1 \in 1 .. Len(q) /\ q[1] \in 1 .. Len(items)
    BY <1>4, <1>5, <1>6
  <2>2. j \in 1 .. Len(items) /\ j < q[1]
    BY <1>1, <1>6, <2>1
  <2>3. j \notin Elements(q)
    <3> SUFFICES ASSUME NEW k \in 1 .. Len(q), q[k] = j PROVE FALSE
      BY DEF Elements
    <3>1. CASE k = 1
      BY <2>1, <2>2, <3>1
    <3>2. CASE k # 1
      <4>1. 1 < k
        BY <1>4, <3>2
      <4>2. q[1] < q[k]
        BY <1>4, <2>1, <4>1
      <4> QED BY <2>1, <2>2, <4>2
    <3> QED BY <3>1, <3>2
  <2> QED BY <1>4, <2>2, <2>3
<1> QED BY <1>2, <1>4, <1>5, <1>6

(* What is left: the items before the first that may go, and not that one. *)
LEMMA WithoutIs ==
  ASSUME NEW items \in Seq(ContextItems), Apart(items),
         NEW n \in 1 .. Len(Assembly!Candidates(items))
  PROVE  LET rest == Assembly!Without(items, n)
             p == Assembly!Position(items)
             gone == {items[Assembly!Candidates(items)[k]] : k \in 1 .. n} IN
         /\ rest \in Seq(ContextItems) /\ Apart(rest)
         /\ Elements(rest) = Elements(items) \ gone
         /\ gone \subseteq Elements(items) /\ \A item \in gone : CanGo(item)
         /\ p \in 1 .. (Len(rest) + 1) /\ p \in 1 .. Len(items) /\ items[p] \in gone
         /\ \A j \in 1 .. (p - 1) : /\ j \in 1 .. Len(items)
                                    /\ rest[j] = items[j] /\ ~ CanGo(items[j])
<1> DEFINE q == Assembly!Candidates(items)
           G == {q[k] : k \in 1 .. n}
           gone == {items[q[k]] : k \in 1 .. n}
           left == Assembly!InOrder((1 .. Len(items)) \ G, Len(items))
           rest == [k \in DOMAIN left |-> items[left[k]]]
           p == q[1]
<1>1. Len(items) \in Nat /\ DOMAIN items = 1 .. Len(items)
  BY LenProperties
<1>2. Assembly!Without(items, n) = rest /\ Assembly!Position(items) = p
  BY <1>1 DEF Assembly!Without, Assembly!Position
<1>3. /\ Len(q) \in Nat
      /\ \A k \in 1 .. Len(q) : q[k] \in 1 .. Len(items) /\ CanGo(items[q[k]])
      /\ Len(q) > 0 => \A j \in 1 .. (q[1] - 1) : j \in 1 .. Len(items) /\ ~ CanGo(items[j])
  BY CandidatesAre
<1>4. IsInOrder(left, (1 .. Len(items)) \ G, Len(items))
  BY <1>1, InOrderIs
<1> HIDE DEF q, left
<1>5. /\ 1 \in 1 .. n /\ \A k \in 1 .. n : k \in 1 .. Len(q)
      /\ G \subseteq 1 .. Len(items) /\ p \in G /\ Len(q) > 0
  BY <1>1, <1>3 DEF q
<1>6. /\ DOMAIN left = 1 .. Len(left) /\ Len(left) \in Nat
      /\ Elements(left) = (1 .. Len(items)) \ G
      /\ \A i, j \in 1 .. Len(left) : i < j => left[i] < left[j]
      /\ \A m \in 0 .. Len(items) : 1 .. m \subseteq (1 .. Len(items)) \ G =>
           m <= Len(left) /\ \A i \in 1 .. m : left[i] = i
  <2> HIDE DEF G
  <2> QED BY <1>4, LenProperties DEF IsInOrder
<1>7. \A k \in 1 .. Len(left) : left[k] \in 1 .. Len(items) /\ left[k] \notin G
  BY <1>6 DEF Elements
<1>8. rest \in Seq(ContextItems) /\ Len(rest) = Len(left)
      /\ \A k \in 1 .. Len(left) : rest[k] = items[left[k]]
  <2>1. \A k \in 1 .. Len(left) : items[left[k]] \in ContextItems
    BY <1>7, ElementOfSeq
  <2> QED BY <1>6, <2>1
<1> HIDE DEF rest
<1>9. Apart(rest)
  <2>1. ASSUME NEW i \in 1 .. Len(rest), NEW j \in 1 .. Len(rest), rest[i].id = rest[j].id
        PROVE  i = j
    <3>1. /\ i \in 1 .. Len(left) /\ j \in 1 .. Len(left)
          /\ items[left[i]].id = items[left[j]].id
      BY <1>8, <2>1
    <3>2. left[i] = left[j]
      BY <1>7, <3>1 DEF Apart
    <3>3. ~ (i < j) /\ ~ (j < i)
      BY <1>6, <1>7, <3>1, <3>2
    <3> QED BY <1>6, <3>1, <3>3
  <2> QED BY <2>1 DEF Apart
<1>10. ASSUME NEW i \in 1 .. Len(items) PROVE items[i] \in gone <=> i \in G
  <2>1. ASSUME NEW k \in 1 .. n, items[i] = items[q[k]] PROVE i = q[k]
    <3>1. q[k] \in 1 .. Len(items)
      BY <1>3, <1>5
    <3> QED BY <2>1, <3>1 DEF Apart
  <2> QED BY <2>1
<1>11. Elements(rest) = Elements(items) \ gone
  <2>1. ASSUME NEW k \in 1 .. Len(rest)
        PROVE  rest[k] \in Elements(items) /\ rest[k] \notin gone
    <3>1. k \in 1 .. Len(left) /\ rest[k] = items[left[k]]
      BY <1>8
    <3>2. left[k] \in 1 .. Len(items) /\ left[k] \notin G
      BY <1>7, <3>1
    <3> HIDE DEF gone, G
    <3> QED BY <1>10, <3>1, <3>2 DEF Elements
  <2>2. ASSUME NEW i \in 1 .. Len(items), items[i] \notin gone PROVE items[i] \in Elements(rest)
    <3> HIDE DEF gone, G
    <3>1. i \in Elements(left)
      BY <1>6, <1>10, <2>2
    <3>2. PICK k \in 1 .. Len(left) : left[k] = i
      BY <3>1 DEF Elements
    <3>3. k \in 1 .. Len(rest) /\ rest[k] = items[i]
      BY <1>8, <3>2
    <3> QED BY <3>3 DEF Elements
  <2> HIDE DEF gone
  <2> QED BY <2>1, <2>2 DEF Elements
<1>12. gone \subseteq Elements(items) /\ \A item \in gone : CanGo(item)
  BY <1>3, <1>5 DEF Elements
<1>13. p \in 1 .. Len(items) /\ items[p] \in gone
  BY <1>3, <1>5
<1>14. /\ p - 1 \in 0 .. Len(items) /\ 1 .. (p - 1) \subseteq (1 .. Len(items)) \ G
       /\ \A j \in 1 .. (p - 1) : j \in 1 .. Len(items) /\ ~ CanGo(items[j])
  <2>1. \A j \in 1 .. (p - 1) : j \in 1 .. Len(items) /\ ~ CanGo(items[j])
    BY <1>3, <1>5
  <2>2. \A i \in G : CanGo(items[i])
    BY <1>3, <1>5
  <2>3. p - 1 \in 0 .. Len(items)
    BY <1>1, <1>13
  <2> HIDE DEF G
  <2> QED BY <2>1, <2>2, <2>3
<1>15. p - 1 <= Len(left) /\ \A i \in 1 .. (p - 1) : left[i] = i
  <2> HIDE DEF G, p
  <2> QED BY <1>6, <1>14
<1>16. p \in 1 .. (Len(rest) + 1) /\ \A j \in 1 .. (p - 1) : rest[j] = items[j]
  <2>1. p \in 1 .. (Len(rest) + 1)
    BY <1>6, <1>8, <1>13, <1>15
  <2>2. ASSUME NEW j \in 1 .. (p - 1) PROVE rest[j] = items[j]
    <3>1. j \in 1 .. Len(left)
      BY <1>6, <1>13, <1>15
    <3> QED BY <1>8, <1>15, <3>1
  <2> QED BY <2>1, <2>2
<1> QED BY <1>2, <1>8, <1>9, <1>11, <1>12, <1>13, <1>14, <1>16 DEF q

(* An item inserted somewhere. *)
Inserted(all, rest, p, item) ==
  /\ all \in Seq(ContextItems) /\ Len(all) = Len(rest) + 1
  /\ \A i \in 1 .. (p - 1) : all[i] = rest[i]
  /\ all[p] = item
  /\ \A i \in p .. Len(rest) : all[i + 1] = rest[i]

LEMMA InsertedIs ==
  ASSUME NEW rest \in Seq(ContextItems), NEW p \in 1 .. (Len(rest) + 1), NEW item \in ContextItems
  PROVE  LET all == SubSeq(rest, 1, p - 1) \o <<item>> \o SubSeq(rest, p, Len(rest)) IN
         /\ Inserted(all, rest, p, item)
         /\ Assembly!Estimate(all) = Assembly!Estimate(rest) + item.size
<1> DEFINE before == SubSeq(rest, 1, p - 1)
           after == SubSeq(rest, p, Len(rest))
           one == <<item>>
           most == before \o one
           all == most \o after
<1>1. Len(rest) \in Nat /\ \A i \in 1 .. Len(rest) : rest[i] \in ContextItems
  BY LenProperties, ElementOfSeq
<1>2. /\ before \in Seq(ContextItems) /\ Len(before) = p - 1
      /\ \A i \in 1 .. (p - 1) : before[i] = rest[i]
  <2>1. 1 \in Int /\ p - 1 \in Int /\ \A i \in 1 .. (p - 1) : rest[i] \in ContextItems
    BY <1>1
  <2>2. /\ before \in Seq(ContextItems)
        /\ Len(before) = IF 1 <= p - 1 THEN p - 1 - 1 + 1 ELSE 0
        /\ \A i \in 1 .. (p - 1 - 1 + 1) : before[i] = rest[1 + i - 1]
    BY <2>1, SubSeqProperties
  <2> HIDE DEF before
  <2> QED BY <1>1, <2>2
<1>3. /\ after \in Seq(ContextItems) /\ Len(after) = Len(rest) - p + 1
      /\ \A i \in 1 .. (Len(rest) - p + 1) : after[i] = rest[p + i - 1]
  <2>1. p \in Int /\ Len(rest) \in Int /\ \A i \in p .. Len(rest) : rest[i] \in ContextItems
    BY <1>1
  <2>2. /\ after \in Seq(ContextItems)
        /\ Len(after) = IF p <= Len(rest) THEN Len(rest) - p + 1 ELSE 0
        /\ \A i \in 1 .. (Len(rest) - p + 1) : after[i] = rest[p + i - 1]
    BY <2>1, SubSeqProperties
  <2> HIDE DEF after
  <2> QED BY <1>1, <2>2
<1>4. one \in Seq(ContextItems) /\ Len(one) = 1 /\ one[1] = item
  OBVIOUS
<1>5. before \o after = rest
  <2>1. p - 1 \in 0 .. Len(rest) /\ Len(rest) \in (p - 1) .. Len(rest) /\ 1 \in 1 .. (Len(rest) + 1)
        /\ p - 1 \in (1 - 1) .. Len(rest) /\ (p - 1) + 1 = p
    BY <1>1
  <2>2. SubSeq(rest, 1, p - 1) \o SubSeq(rest, (p - 1) + 1, Len(rest)) = SubSeq(rest, 1, Len(rest))
    BY <2>1, ConcatAdjacentSubSeq
  <2> QED BY <2>1, <2>2, SubSeqFull
<1> HIDE DEF before, after, one
<1>6. /\ most \in Seq(ContextItems) /\ Len(most) = p
      /\ \A i \in 1 .. (p - 1) : most[i] = rest[i]
      /\ most[p] = item
  <2>1. /\ most \in Seq(ContextItems) /\ Len(most) = Len(before) + Len(one)
        /\ \A i \in 1 .. (Len(before) + Len(one)) :
             most[i] = IF i <= Len(before) THEN before[i] ELSE one[i - Len(before)]
    BY <1>2, <1>4, ConcatProperties
  <2> HIDE DEF most
  <2>2. Len(most) = p
    BY <1>1, <1>2, <1>4, <2>1
  <2>3. ASSUME NEW i \in 1 .. (p - 1) PROVE most[i] = rest[i]
    <3>1. i \in 1 .. (Len(before) + Len(one)) /\ i <= Len(before)
      BY <1>1, <1>2, <1>4
    <3> QED BY <1>2, <2>1, <3>1
  <2>4. most[p] = item
    <3>1. p \in 1 .. (Len(before) + Len(one)) /\ ~ (p <= Len(before)) /\ p - Len(before) = 1
      BY <1>1, <1>2, <1>4
    <3> QED BY <1>4, <2>1, <3>1
  <2> QED BY <2>1, <2>2, <2>3, <2>4
<1>7. Assembly!Estimate(most) = Assembly!Estimate(before) + item.size
  <2>1. Assembly!Estimate(one) = item.size
    BY EstimateOfOne DEF one
  <2>2. Assembly!Estimate(most) = Assembly!Estimate(before) + Assembly!Estimate(one)
    BY <1>2, <1>4, EstimateOfConcat
  <2> QED BY <2>1, <2>2
<1> HIDE DEF most
<1>8. /\ all \in Seq(ContextItems) /\ Len(all) = Len(most) + Len(after)
      /\ \A i \in 1 .. (Len(most) + Len(after)) :
           all[i] = IF i <= Len(most) THEN most[i] ELSE after[i - Len(most)]
  BY <1>3, <1>6, ConcatProperties
<1>9. Assembly!Estimate(all) = Assembly!Estimate(rest) + item.size
  <2>1. Assembly!Estimate(all) = Assembly!Estimate(most) + Assembly!Estimate(after)
    BY <1>3, <1>6, EstimateOfConcat
  <2>2. Assembly!Estimate(rest) = Assembly!Estimate(before) + Assembly!Estimate(after)
    BY <1>2, <1>3, <1>5, EstimateOfConcat
  <2>3. Assembly!Estimate(before) \in Nat /\ Assembly!Estimate(after) \in Nat /\ item.size \in Nat
    BY <1>2, <1>3, EstimateIs DEF ContextItems
  <2> HIDE DEF all
  <2> QED BY <1>7, <2>1, <2>2, <2>3
<1> HIDE DEF all
<1>10. Len(all) = Len(rest) + 1
  BY <1>1, <1>3, <1>6, <1>8
<1>11. ASSUME NEW i \in 1 .. (p - 1) PROVE all[i] = rest[i]
  <2>1. i \in 1 .. (Len(most) + Len(after)) /\ i <= Len(most)
    BY <1>1, <1>3, <1>6
  <2> QED BY <1>6, <1>8, <2>1
<1>12. all[p] = item
  <2>1. p \in 1 .. (Len(most) + Len(after)) /\ p <= Len(most)
    BY <1>1, <1>3, <1>6
  <2> QED BY <1>6, <1>8, <2>1
<1>13. ASSUME NEW i \in p .. Len(rest) PROVE all[i + 1] = rest[i]
  <2>1. /\ i + 1 \in 1 .. (Len(most) + Len(after)) /\ ~ (i + 1 <= Len(most))
        /\ i + 1 - Len(most) \in 1 .. (Len(rest) - p + 1) /\ p + (i + 1 - Len(most)) - 1 = i
    BY <1>1, <1>3, <1>6
  <2>2. all[i + 1] = after[i + 1 - Len(most)]
    BY <1>8, <2>1
  <2> QED BY <1>3, <2>1, <2>2
<1>14. Inserted(all, rest, p, item)
  BY <1>8, <1>10, <1>11, <1>12, <1>13 DEF Inserted
<1> QED BY <1>9, <1>14 DEF all, most, before, after, one

LEMMA InsertedSets ==
  ASSUME NEW rest \in Seq(ContextItems), NEW p \in 1 .. (Len(rest) + 1), NEW item \in ContextItems,
         NEW all, Inserted(all, rest, p, item)
  PROVE  /\ Elements(all) = Elements(rest) \cup {item}
         /\ Apart(rest) /\ item.id \notin IdsIn(rest) => Apart(all)
<1>1. Len(rest) \in Nat
  BY LenProperties
<1> USE DEF Inserted
<1>2. ASSUME NEW i \in 1 .. Len(all)
      PROVE  \/ i < p /\ i \in 1 .. Len(rest) /\ all[i] = rest[i]
             \/ i = p /\ all[i] = item
             \/ i > p /\ i - 1 \in 1 .. Len(rest) /\ all[i] = rest[i - 1]
  <2>1. CASE i < p
    BY <1>1, <2>1
  <2>2. CASE i = p
    BY <2>2
  <2>3. CASE i > p
    <3>1. i - 1 \in p .. Len(rest) /\ (i - 1) + 1 = i /\ i - 1 \in 1 .. Len(rest)
      BY <1>1, <2>3
    <3>2. all[(i - 1) + 1] = rest[i - 1]
      BY <3>1
    <3> QED BY <2>3, <3>1, <3>2
  <2> QED BY <1>1, <2>1, <2>2, <2>3
<1>3. Elements(all) = Elements(rest) \cup {item}
  <2>1. Elements(all) \subseteq Elements(rest) \cup {item}
    <3>1. ASSUME NEW i \in 1 .. Len(all) PROVE all[i] \in Elements(rest) \cup {item}
      BY <1>2 DEF Elements
    <3> HIDE DEF Inserted
    <3> QED BY <3>1 DEF Elements
  <2>2. item \in Elements(all)
    <3>1. p \in 1 .. Len(all)
      BY <1>1
    <3> QED BY <3>1 DEF Elements
  <2>3. ASSUME NEW i \in 1 .. Len(rest) PROVE rest[i] \in Elements(all)
    <3>1. CASE i < p
      <4>1. i \in 1 .. Len(all) /\ all[i] = rest[i]
        BY <1>1, <3>1
      <4> QED BY <4>1 DEF Elements
    <3>2. CASE ~ (i < p)
      <4>1. i + 1 \in 1 .. Len(all) /\ all[i + 1] = rest[i]
        BY <1>1, <3>2
      <4> QED BY <4>1 DEF Elements
    <3> QED BY <3>1, <3>2
  <2>4. Elements(rest) \subseteq Elements(all)
    BY <2>3 DEF Elements
  <2> QED BY <2>1, <2>2, <2>4
<1>4. ASSUME Apart(rest), item.id \notin IdsIn(rest),
             NEW i \in 1 .. Len(all), NEW j \in 1 .. Len(all), all[i].id = all[j].id
      PROVE  i = j
  <2>1. \A k \in 1 .. Len(rest) : rest[k].id # item.id
    BY <1>4 DEF IdsIn, Elements
  <2>2. CASE i = p \/ j = p
    BY <1>2, <1>4, <2>1, <2>2
  <2>3. CASE i # p /\ j # p
    <3> DEFINE At(k) == IF k < p THEN k ELSE k - 1
    <3>1. /\ At(i) \in 1 .. Len(rest) /\ all[i] = rest[At(i)]
          /\ At(j) \in 1 .. Len(rest) /\ all[j] = rest[At(j)]
      BY <1>2, <2>3
    <3>2. At(i) = At(j)
      <4> HIDE DEF At
      <4> QED BY <1>4, <3>1 DEF Apart
    <3> QED BY <1>1, <2>3, <3>2
  <2> QED BY <2>2, <2>3
<1> QED BY <1>3, <1>4 DEF Apart

-----------------------------------------------------------------------------
(***************************************************************************)
(* The stream grows.                                                       *)
(***************************************************************************)
LEMMA GrownIs ==
  ASSUME NEW events \in Seq(Stored), NEW event \in Stored
  PROVE  LET grown == Append(events, event) IN
         /\ grown \in Seq(Stored) /\ Len(grown) = Len(events) + 1 /\ Len(events) \in Nat
         /\ 1 .. Len(grown) = (1 .. Len(events)) \cup {Len(events) + 1}
         /\ \A i \in 1 .. Len(events) : grown[i] = events[i]
         /\ grown[Len(events) + 1] = event
<1>1. Len(events) \in Nat
  BY LenProperties
<1>2. /\ Append(events, event) \in Seq(Stored) /\ Len(Append(events, event)) = Len(events) + 1
      /\ \A i \in 1 .. Len(events) : Append(events, event)[i] = events[i]
      /\ Append(events, event)[Len(events) + 1] = event
  BY AppendProperties
<1>3. 1 .. (Len(events) + 1) = (1 .. Len(events)) \cup {Len(events) + 1}
  BY <1>1
<1> QED BY <1>1, <1>2, <1>3

(* Two streams of one latest summary. *)
LEMMA LatestSummaryIsOne ==
  ASSUME NEW events \in Seq(Stored), NEW s \in 0 .. Len(events),
         s # 0 => events[s].kind = "compacted",
         \A i \in 1 .. Len(events) : events[i].kind = "compacted" => i <= s
  PROVE  Assembly!LatestSummary(events) = s
<1> DEFINE latest == Assembly!LatestSummary(events)
<1>1. /\ latest \in 0 .. Len(events) /\ (latest # 0 => events[latest].kind = "compacted")
      /\ \A i \in 1 .. Len(events) : events[i].kind = "compacted" => i <= latest
  BY LatestSummaryIs
<1>2. Len(events) \in Nat
  BY LenProperties
<1> HIDE DEF latest
<1>3. s # 0 => s \in 1 .. Len(events) /\ s <= latest
  BY <1>1, <1>2
<1>4. latest # 0 => latest \in 1 .. Len(events) /\ latest <= s
  BY <1>1, <1>2
<1>5. latest = s
  BY <1>1, <1>2, <1>3, <1>4
<1> QED BY <1>5 DEF latest

(* An event that is no checkpoint is shown, and changes nothing else. *)
LEMMA EventAdded ==
  ASSUME NEW events \in Seq(Stored), Checkpoints(events),
         NEW event \in Stored, event.kind # "compacted", event.dropped = {}
  PROVE  LET grown == Append(events, event) IN
         /\ Checkpoints(grown)
         /\ Assembly!LatestSummary(grown) = Assembly!LatestSummary(events)
         /\ RestartIds(grown) = RestartIds(events) \cup {Len(events) + 1}
<1> DEFINE grown == Append(events, event)
           n == Len(events) + 1
           s == Assembly!LatestSummary(events)
<1>1. /\ grown \in Seq(Stored) /\ Len(grown) = n /\ Len(events) \in Nat
      /\ 1 .. Len(grown) = (1 .. Len(events)) \cup {n}
      /\ \A i \in 1 .. Len(events) : grown[i] = events[i]
      /\ grown[n] = event
  BY GrownIs
<1>2. /\ s \in 0 .. Len(events) /\ (s # 0 => events[s].kind = "compacted")
      /\ \A i \in 1 .. Len(events) : events[i].kind = "compacted" => i <= s
  BY LatestSummaryIs
<1> HIDE DEF grown, s
<1>3. /\ s \in 0 .. Len(grown) /\ (s # 0 => s \in 1 .. Len(events) /\ grown[s] = events[s])
      /\ \A i \in 1 .. Len(grown) : grown[i].kind = "compacted" => i <= s
  BY <1>1, <1>2
<1>4. Assembly!LatestSummary(grown) = s
  BY <1>1, <1>2, <1>3, LatestSummaryIsOne
<1>5. Covered(grown) = Covered(events)
  BY <1>3, <1>4 DEF Covered, s
<1>6. Summary(grown) = Summary(events)
  BY <1>4 DEF Summary, s
<1>7. Covered(events) \subseteq 1 .. Len(events)
  BY <1>1, <1>2, CoveredIsEarlier DEF s
<1>8. Shown(grown, {}) = Shown(events, {}) \cup {n}
  <2>1. n \notin 1 .. Len(events)
    BY <1>1
  <2> HIDE DEF n
  <2> QED BY <1>1, <1>5, <1>7, <2>1 DEF Shown
<1>9. RestartIds(grown) = RestartIds(events) \cup {n}
  BY <1>6, <1>8 DEF RestartIds
<1>10. Checkpoints(grown)
  <2>1. ASSUME NEW i \in 1 .. Len(events)
        PROVE  /\ grown[i].dropped \subseteq 1 .. (i - 1)
               /\ grown[i].kind # "compacted" => grown[i].dropped = {}
               /\ \A j \in grown[i].dropped : grown[j].dropped \subseteq grown[i].dropped
               /\ grown[i].kind = "compacted" =>
                    Assembly!VisibleEvents(grown, grown[i].dropped) \subseteq grown[i].about
    <3>1. grown[i] = events[i] /\ events[i].dropped \subseteq 1 .. (i - 1)
      BY <1>1 DEF Checkpoints
    <3>2. \A j \in events[i].dropped : j \in 1 .. Len(events) /\ grown[j] = events[j]
      BY <1>1, <3>1
    <3>3. Assembly!VisibleEvents(grown, events[i].dropped)
            = Assembly!VisibleEvents(events, events[i].dropped)
      BY <3>2 DEF Assembly!VisibleEvents
    <3> QED BY <3>1, <3>2, <3>3 DEF Checkpoints
  <2>2. grown[n].dropped = {} /\ grown[n].kind # "compacted"
    BY <1>1
  <2> HIDE DEF n
  <2>3. ASSUME NEW i \in 1 .. Len(grown)
        PROVE  /\ grown[i].dropped \subseteq 1 .. (i - 1)
               /\ grown[i].kind # "compacted" => grown[i].dropped = {}
               /\ \A j \in grown[i].dropped : grown[j].dropped \subseteq grown[i].dropped
               /\ grown[i].kind = "compacted" =>
                    Assembly!VisibleEvents(grown, grown[i].dropped) \subseteq grown[i].about
    BY <1>1, <2>1, <2>2
  <2> QED BY <2>3 DEF Checkpoints
<1> QED BY <1>4, <1>9, <1>10 DEF grown, s

(* A run does not notice it. *)
LEMMA RunGoesOn ==
  ASSUME NEW events \in Seq(Stored), Checkpoints(events),
         NEW event \in Stored, event.kind # "compacted", event.dropped = {},
         NEW items \in Seq(ContextItems), NEW ids, ids \subseteq 1 .. Len(events),
         WorksOn(items, events, ids)
  PROVE  WorksOn(items, Append(events, event), ids)
<1> DEFINE grown == Append(events, event)
           n == Len(events) + 1
           s == Assembly!LatestSummary(events)
<1>1. Len(events) \in Nat /\ n \notin ids /\ \A i \in 1 .. Len(events) : grown[i] = events[i]
  BY GrownIs
<1>2. Assembly!LatestSummary(grown) = s /\ RestartIds(grown) = RestartIds(events) \cup {n}
  BY EventAdded
<1>3. s # 0 => s \in 1 .. Len(events)
  BY <1>1, LatestSummaryIs
<1> HIDE DEF grown, n, s
<1>4. \A item \in Elements(items) : Fits(item, grown, ids)
  BY <1>1 DEF WorksOn, Fits
<1>5. SummaryIsFirst(items, grown)
  <2>1. ASSUME s # 0 PROVE \E i \in 1 .. Len(items) : IsSummary(items, grown, i)
    <3>1. PICK i \in 1 .. Len(items) : IsSummary(items, events, i)
      BY <2>1 DEF WorksOn, SummaryIsFirst, s
    <3>2. IsSummary(items, grown, i)
      BY <1>1, <1>2, <1>3, <2>1, <3>1 DEF IsSummary, s
    <3> QED BY <3>2
  <2> QED BY <1>2, <2>1 DEF SummaryIsFirst
<1>6. RestartIds(grown) \cap ids = RestartIds(events) \cap ids
  BY <1>1, <1>2
<1> QED BY <1>4, <1>5, <1>6 DEF WorksOn, grown

(* What the run writes is an item of it too. *)
LEMMA RunAdds ==
  ASSUME NEW events \in Seq(Stored), Checkpoints(events),
         NEW event \in Stored, event.kind # "compacted", event.dropped = {},
         NEW items \in Seq(ContextItems), NEW ids, ids \subseteq 1 .. Len(events),
         WorksOn(items, events, ids),
         NEW item \in ContextItems, item.id = Len(events) + 1, item.id \in item.about
  PROVE  /\ Append(items, item) \in Seq(ContextItems)
         /\ WorksOn(Append(items, item), Append(events, event), ids \cup {Len(events) + 1})
<1> DEFINE grown == Append(events, event)
           all == Append(items, item)
           n == Len(events) + 1
           s == Assembly!LatestSummary(events)
<1>1. Len(events) \in Nat /\ n \notin ids /\ grown[n] = event
  BY GrownIs
<1>2. RestartIds(grown) = RestartIds(events) \cup {n} /\ Assembly!LatestSummary(grown) = s
  BY EventAdded
<1>3. WorksOn(items, grown, ids)
  BY RunGoesOn
<1>4. /\ all \in Seq(ContextItems) /\ Len(all) = Len(items) + 1 /\ Len(items) \in Nat
      /\ \A i \in 1 .. Len(items) : all[i] = items[i]
  BY AppendProperties, LenProperties
<1>5. Elements(all) = Elements(items) \cup {item}
  BY ElementsOfAppend
<1>6. Apart(all)
  <2>1. <<item>> \in Seq(ContextItems) /\ Len(<<item>>) = 1 /\ Elements(<<item>>) = {item}
    BY OneElement
  <2>2. IdsIn(<<item>>) = {n} /\ Apart(<<item>>)
    BY <2>1 DEF IdsIn, Apart
  <2>3. IdsIn(items) \subseteq ids
    BY DEF WorksOn, Fits, IdsIn
  <2>4. Apart(items \o <<item>>)
    <3> HIDE DEF n
    <3> QED BY <1>1, <2>1, <2>2, <2>3, ApartConcat DEF WorksOn
  <2>5. all = items \o <<item>>
    BY AppendIsConcat
  <2> QED BY <2>4, <2>5
<1> HIDE DEF grown, all, n, s
<1>7. \A x \in Elements(all) : Fits(x, grown, ids \cup {n})
  <2>1. \A x \in Elements(items) : Fits(x, grown, ids \cup {n})
    BY <1>3 DEF WorksOn, Fits
  <2>2. Fits(item, grown, ids \cup {n})
    BY DEF Fits, n
  <2> QED BY <1>5, <2>1, <2>2
<1>8. SummaryIsFirst(all, grown)
  <2>1. ASSUME Assembly!LatestSummary(grown) # 0 PROVE \E i \in 1 .. Len(all) : IsSummary(all, grown, i)
    <3>1. PICK i \in 1 .. Len(items) : IsSummary(items, grown, i)
      BY <1>3, <2>1 DEF WorksOn, SummaryIsFirst
    <3>2. i \in 1 .. Len(all) /\ all[i] = items[i] /\ \A j \in 1 .. (i - 1) : all[j] = items[j]
      BY <1>4
    <3>3. IsSummary(all, grown, i)
      BY <3>1, <3>2 DEF IsSummary
    <3> QED BY <3>2, <3>3
  <2> QED BY <2>1 DEF SummaryIsFirst
<1>9. IdsIn(all) \ ResultIds(all) = (RestartIds(grown) \cap (ids \cup {n})) \ ResultIds(all)
  <2>1. IdsIn(all) = IdsIn(items) \cup {n}
    BY <1>5 DEF IdsIn, n
  <2>2. /\ IdsIn(items) \ ResultIds(items) = (RestartIds(grown) \cap ids) \ ResultIds(items)
        /\ IdsIn(items) \subseteq ids /\ ResultIds(items) \subseteq ids
    BY <1>3 DEF WorksOn, Fits, IdsIn, ResultIds
  <2>3. CASE item.role = "Tool"
    <3>1. ResultIds(all) = ResultIds(items) \cup {n}
      BY <1>5, <2>3 DEF ResultIds, n
    <3> QED BY <1>1, <1>2, <2>1, <2>2, <3>1
  <2>4. CASE item.role # "Tool"
    <3>1. ResultIds(all) = ResultIds(items)
      BY <1>5, <2>4 DEF ResultIds
    <3> QED BY <1>1, <1>2, <2>1, <2>2, <3>1
  <2> QED BY <2>3, <2>4
<1> QED BY <1>4, <1>6, <1>7, <1>8, <1>9 DEF WorksOn, grown, all, n

-----------------------------------------------------------------------------
(***************************************************************************)
(* A round: what the new checkpoint names, and what the run goes on with.  *)
(***************************************************************************)
LEMMA BudgetIs ==
  ASSUME Assembly!ConstantsFit
  PROVE  Assembly!InputBudget \in Nat
<1>1. \A a, b \in Nat : Assembly!Monus(a, b) \in Nat
  BY DEF Assembly!Monus
<1>2. /\ (IF Window > 0 THEN Window ELSE DefaultWindow) \in Nat
      /\ Reserved \in Nat /\ Margin \in Nat /\ Fixed \in Nat
  BY DEF Assembly!ConstantsFit
<1> QED BY <1>1, <1>2 DEF Assembly!InputBudget

(* The plan that is taken fits. *)
LEMMA PlanFits ==
  ASSUME Assembly!ConstantsFit, NEW items \in Seq(ContextItems), Apart(items),
         Assembly!Plans(items) # {}
  PROVE  LET n == Assembly!Fewest(Assembly!Plans(items))
             size == Assembly!Latest(Assembly!FittingSizes(items, n)) IN
         /\ n \in 1 .. Len(Assembly!Candidates(items)) /\ size \in Nat
         /\ Assembly!Estimate(Assembly!Without(items, n)) + size <= Assembly!InputBudget
<1> DEFINE ns == Assembly!Plans(items)
           n == Assembly!Fewest(ns)
           sizes == Assembly!FittingSizes(items, n)
<1>1. Len(Assembly!Candidates(items)) \in Nat
  BY CandidatesAre
<1>2. ns \subseteq Nat /\ ns # {}
  BY <1>1 DEF Assembly!Plans
<1>3. n \in ns
  <2> HIDE DEF ns
  <2>1. \E x \in ns : \A y \in ns : x <= y
    BY <1>2, FirstExists
  <2> QED BY <2>1 DEF Assembly!Fewest
<1>4. n \in 1 .. Len(Assembly!Candidates(items)) /\ sizes # {}
  BY <1>3 DEF Assembly!Plans
<1> HIDE DEF n
<1>5. Assembly!InputBudget \in Nat
  BY BudgetIs
<1>6. Assembly!Estimate(Assembly!Without(items, n)) \in Nat
  <2>1. Assembly!Without(items, n) \in Seq(ContextItems)
    BY <1>4, WithoutIs
  <2> QED BY <2>1, EstimateIs
<1>7. sizes \subseteq 0 .. Assembly!InputBudget
  <2> DEFINE left == Assembly!Estimate(Assembly!Without(items, n))
  <2> SUFFICES ASSUME NEW x \in sizes PROVE x \in 0 .. Assembly!InputBudget
    OBVIOUS
  <2>1. x \in SummarySizes /\ left + x <= Assembly!InputBudget
    BY DEF Assembly!FittingSizes
  <2>2. x \in Nat
    BY <2>1 DEF Assembly!ConstantsFit
  <2> HIDE DEF left
  <2>3. left \in Nat
    BY <1>6 DEF left
  <2> QED BY <1>5, <2>1, <2>2, <2>3
<1>8. Assembly!Latest(sizes) \in sizes
  <2> HIDE DEF sizes
  <2> QED BY <1>4, <1>5, <1>7, LatestIs
<1> QED BY <1>4, <1>5, <1>7, <1>8 DEF Assembly!FittingSizes, n

(* A round takes up the summary it finds. *)
LEMMA SummaryGoes ==
  ASSUME NEW events, NEW items \in Seq(ContextItems), SummaryIsFirst(items, events),
         Assembly!LatestSummary(events) # 0,
         NEW p \in 1 .. Len(items), CanGo(items[p]), \A j \in 1 .. (p - 1) : ~ CanGo(items[j])
  PROVE  /\ items[p].id = Assembly!LatestSummary(events)
         /\ items[p].about = events[Assembly!LatestSummary(events)].about
<1>1. PICK i \in 1 .. Len(items) : IsSummary(items, events, i)
  BY DEF SummaryIsFirst
<1>2. CanGo(items[i]) /\ \A j \in 1 .. (i - 1) : ~ CanGo(items[j])
  BY <1>1 DEF IsSummary
<1>3. Len(items) \in Nat
  BY LenProperties
<1>4. ~ (p \in 1 .. (i - 1)) /\ ~ (i \in 1 .. (p - 1))
  BY <1>2
<1>5. i = p
  BY <1>3, <1>4
<1> QED BY <1>1, <1>5 DEF IsSummary

(* The checkpoint of a round. *)
CheckpointOf(events, gone, event) ==
  /\ event \in Stored /\ event.kind = "compacted"
  /\ event.dropped = Covered(events) \cup {item.id : item \in gone}
  /\ event.about = UNION {item.about : item \in gone}

LEMMA CheckpointAdded ==
  ASSUME NEW events \in Seq(Stored), Checkpoints(events), NEW items \in Seq(ContextItems),
         NEW ids, ids \subseteq 1 .. Len(events), WorksOn(items, events, ids),
         NEW gone, gone \subseteq Elements(items), \A item \in gone : CanGo(item),
         NEW p \in 1 .. Len(items), items[p] \in gone,
         \A j \in 1 .. (p - 1) : ~ CanGo(items[j]),
         NEW event, CheckpointOf(events, gone, event)
  PROVE  LET grown == Append(events, event)
             n == Len(events) + 1 IN
         /\ Checkpoints(grown) /\ Assembly!LatestSummary(grown) = n
         /\ RestartIds(grown) = {n} \cup (RestartIds(events) \ {item.id : item \in gone})
<1> DEFINE grown == Append(events, event)
           n == Len(events) + 1
           s == Assembly!LatestSummary(events)
           goneIds == {item.id : item \in gone}
           D == Covered(events) \cup goneIds
<1>1. /\ grown \in Seq(Stored) /\ Len(grown) = n /\ Len(events) \in Nat
      /\ 1 .. Len(grown) = (1 .. Len(events)) \cup {n}
      /\ \A i \in 1 .. Len(events) : grown[i] = events[i]
      /\ grown[n] = event
  <2>1. event \in Stored
    BY DEF CheckpointOf
  <2> QED BY <2>1, GrownIs
<1>2. /\ s \in 0 .. Len(events) /\ (s # 0 => s \in 1 .. Len(events) /\ events[s].kind = "compacted")
      /\ \A i \in 1 .. Len(events) : events[i].kind = "compacted" => i <= s
  BY <1>1, LatestSummaryIs
<1>3. event.kind = "compacted" /\ event.dropped = D
      /\ event.about = UNION {item.about : item \in gone}
  BY DEF CheckpointOf
<1>4. Covered(events) \subseteq 1 .. Len(events)
  BY <1>1, <1>2, CoveredIsEarlier
<1>5. goneIds \subseteq ids /\ \A item \in gone : Fits(item, events, ids)
  BY DEF WorksOn, Fits
<1>6. s # 0 => items[p].id = s /\ items[p].about = events[s].about
  BY SummaryGoes DEF WorksOn
<1>7. s # 0 => s \in goneIds /\ events[s].about \subseteq event.about
  BY <1>3, <1>6
<1>8. goneIds \cap ResultIds(items) = {}
  <2> SUFFICES ASSUME NEW x \in gone, NEW y \in Elements(items), y.role = "Tool", x.id = y.id
               PROVE  FALSE
    BY DEF ResultIds
  <2>1. PICK i \in 1 .. Len(items) : x = items[i]
    BY DEF Elements
  <2>2. PICK j \in 1 .. Len(items) : y = items[j]
    BY DEF Elements
  <2>3. i = j
    BY <2>1, <2>2 DEF WorksOn, Apart
  <2> QED BY <2>1, <2>2, <2>3 DEF CanGo
<1>9. goneIds \subseteq RestartIds(events)
  <2>1. goneIds \subseteq IdsIn(items)
    BY DEF IdsIn
  <2> QED BY <1>8, <2>1 DEF WorksOn
<1>10. \A j \in goneIds : events[j].kind = "compacted" => j = s
  BY <1>9 DEF RestartIds, Summary, Shown
<1>11. event.dropped \subseteq 1 .. Len(events)
  BY <1>3, <1>4, <1>5
<1>12. \A j \in event.dropped : events[j].dropped \subseteq event.dropped
  <2>1. ASSUME NEW j \in Covered(events) PROVE events[j].dropped \subseteq Covered(events)
    <3>1. s # 0 /\ Covered(events) = events[s].dropped
      BY <2>1 DEF Covered
    <3> QED BY <1>2, <2>1, <3>1 DEF Checkpoints
  <2>2. ASSUME NEW j \in goneIds PROVE events[j].dropped \subseteq Covered(events)
    <3>1. j \in 1 .. Len(events)
      BY <1>5
    <3>2. CASE events[j].kind = "compacted"
      <4>1. j = s /\ s # 0
        BY <1>1, <1>10, <3>1, <3>2
      <4> QED BY <4>1 DEF Covered
    <3>3. CASE events[j].kind # "compacted"
      <4>1. events[j].dropped = {}
        BY <3>1, <3>3 DEF Checkpoints
      <4> QED BY <4>1
    <3> QED BY <3>2, <3>3
  <2> QED BY <1>3, <2>1, <2>2
<1>13. Assembly!VisibleEvents(events, event.dropped) \subseteq event.about
  <2>1. ASSUME NEW i \in Covered(events), events[i].kind # "compacted" PROVE i \in event.about
    <3>1. s # 0 /\ Covered(events) = events[s].dropped
      BY <2>1 DEF Covered
    <3>2. i \in events[s].about
      BY <1>2, <2>1, <3>1 DEF Checkpoints, Assembly!VisibleEvents
    <3> QED BY <1>7, <3>1, <3>2
  <2>2. ASSUME NEW x \in gone, events[x.id].kind # "compacted" PROVE x.id \in event.about
    <3>1. x.id \in x.about
      BY <1>5, <2>2 DEF Fits
    <3> QED BY <1>3, <3>1
  <2> QED BY <1>3, <2>1, <2>2 DEF Assembly!VisibleEvents
<1> HIDE DEF grown, s, goneIds
<1>14. Assembly!VisibleEvents(grown, event.dropped) = Assembly!VisibleEvents(events, event.dropped)
  BY <1>1, <1>11 DEF Assembly!VisibleEvents
<1>15. Checkpoints(grown)
  <2>1. ASSUME NEW i \in 1 .. Len(events)
        PROVE  /\ grown[i].dropped \subseteq 1 .. (i - 1)
               /\ grown[i].kind # "compacted" => grown[i].dropped = {}
               /\ \A j \in grown[i].dropped : grown[j].dropped \subseteq grown[i].dropped
               /\ grown[i].kind = "compacted" =>
                    Assembly!VisibleEvents(grown, grown[i].dropped) \subseteq grown[i].about
    <3>1. grown[i] = events[i] /\ events[i].dropped \subseteq 1 .. (i - 1)
      BY <1>1 DEF Checkpoints
    <3>2. \A j \in events[i].dropped : j \in 1 .. Len(events) /\ grown[j] = events[j]
      BY <1>1, <3>1
    <3>3. Assembly!VisibleEvents(grown, events[i].dropped)
            = Assembly!VisibleEvents(events, events[i].dropped)
      BY <3>2 DEF Assembly!VisibleEvents
    <3> QED BY <3>1, <3>2, <3>3 DEF Checkpoints
  <2>2. ASSUME NEW i, i = n
        PROVE  /\ grown[i].dropped \subseteq 1 .. (i - 1)
               /\ grown[i].kind # "compacted" => grown[i].dropped = {}
               /\ \A j \in grown[i].dropped : grown[j].dropped \subseteq grown[i].dropped
               /\ grown[i].kind = "compacted" =>
                    Assembly!VisibleEvents(grown, grown[i].dropped) \subseteq grown[i].about
    <3>1. grown[i] = event /\ i - 1 = Len(events)
      BY <1>1, <2>2
    <3>2. \A j \in event.dropped : grown[j] = events[j]
      BY <1>1, <1>11
    <3>3. \A j \in event.dropped : grown[j].dropped \subseteq event.dropped
      BY <1>12, <3>2
    <3> QED BY <1>3, <1>11, <1>13, <1>14, <3>1, <3>3
  <2> HIDE DEF n
  <2>3. ASSUME NEW i \in 1 .. Len(grown)
        PROVE  /\ grown[i].dropped \subseteq 1 .. (i - 1)
               /\ grown[i].kind # "compacted" => grown[i].dropped = {}
               /\ \A j \in grown[i].dropped : grown[j].dropped \subseteq grown[i].dropped
               /\ grown[i].kind = "compacted" =>
                    Assembly!VisibleEvents(grown, grown[i].dropped) \subseteq grown[i].about
    BY <1>1, <2>1, <2>2
  <2> QED BY <2>3 DEF Checkpoints
<1>16. Assembly!LatestSummary(grown) = n
  <2>1. n \in 0 .. Len(grown) /\ grown[n].kind = "compacted" /\ \A i \in 1 .. Len(grown) : i <= n
    BY <1>1, <1>3
  <2> HIDE DEF n
  <2> QED BY <1>1, <2>1, LatestSummaryIsOne
<1>17. RestartIds(grown) = {n} \cup (RestartIds(events) \ goneIds)
  <2>1. n # 0 /\ n \notin 1 .. Len(events)
    BY <1>1
  <2>2. Summary(grown) = {n} /\ Covered(grown) = D
    BY <1>1, <1>3, <1>16, <2>1 DEF Summary, Covered
  <2>3. Shown(grown, {}) = {i \in 1 .. Len(events) : events[i].kind # "compacted"} \ D
    <3> HIDE DEF n, D
    <3> QED BY <1>1, <1>3, <2>1, <2>2 DEF Shown
  <2>4. Shown(grown, {}) = Shown(events, {}) \ goneIds
    BY <2>3 DEF Shown
  <2>5. Summary(events) \subseteq goneIds
    BY <1>7 DEF Summary, s
  <2> QED BY <2>2, <2>4, <2>5 DEF RestartIds
<1> QED BY <1>15, <1>16, <1>17 DEF grown, goneIds

LEMMA CheckpointIsStored ==
  ASSUME NEW size \in Nat, NEW named \in SUBSET Nat, NEW about \in SUBSET Nat
  PROVE  [kind |-> "compacted", size |-> size, dropped |-> named, about |-> about] \in Stored
BY DEF Stored, StoredKinds

(* What a round stores when it takes the first n candidates away. *)
RoundOf(events, items, n, size, about, event) ==
  LET gone == {items[Assembly!Candidates(items)[k]] : k \in 1 .. n} IN
  /\ about = UNION {item.about : item \in gone}
  /\ event = [kind |-> "compacted", size |-> size, about |-> about,
              dropped |-> Covered(events) \cup {item.id : item \in gone}]

(* What the run goes on with. *)
GoesOn(events, items, ids, n, size, about, event) ==
  LET grown == Append(events, event)
      all == Assembly!InsertSummary(items, Assembly!Without(items, n),
                                    Assembly!Item(Len(events) + 1, "Memory", size, about)) IN
  /\ event \in Stored /\ all \in Seq(ContextItems) /\ Checkpoints(grown)
  /\ WorksOn(all, grown, ids \cup {Len(events) + 1})
  /\ Assembly!Estimate(all) = Assembly!Estimate(Assembly!Without(items, n)) + size

LEMMA RoundKeeps ==
  ASSUME NEW events \in Seq(Stored), Checkpoints(events), NEW items \in Seq(ContextItems),
         NEW ids, ids \subseteq 1 .. Len(events), WorksOn(items, events, ids),
         NEW n \in 1 .. Len(Assembly!Candidates(items)), NEW size \in Nat,
         NEW about, NEW event, RoundOf(events, items, n, size, about, event)
  PROVE  GoesOn(events, items, ids, n, size, about, event)
<1> DEFINE gone == {items[Assembly!Candidates(items)[k]] : k \in 1 .. n}
           goneIds == {item.id : item \in gone}
           rest == Assembly!Without(items, n)
           p == Assembly!Position(items)
           m == Len(events) + 1
           item == Assembly!Item(m, "Memory", size, about)
           all == Assembly!InsertSummary(items, rest, item)
           grown == Append(events, event)
<1>1. Apart(items) /\ \A x \in Elements(items) : Fits(x, events, ids)
  BY DEF WorksOn
<1>2. /\ rest \in Seq(ContextItems) /\ Apart(rest)
      /\ Elements(rest) = Elements(items) \ gone
      /\ gone \subseteq Elements(items) /\ \A x \in gone : CanGo(x)
      /\ p \in 1 .. (Len(rest) + 1) /\ p \in 1 .. Len(items) /\ items[p] \in gone
      /\ \A j \in 1 .. (p - 1) : /\ j \in 1 .. Len(items)
                                 /\ rest[j] = items[j] /\ ~ CanGo(items[j])
  BY <1>1, WithoutIs
<1>3. about = UNION {x.about : x \in gone}
      /\ event = [kind |-> "compacted", size |-> size, dropped |-> Covered(events) \cup goneIds,
                  about |-> about]
  BY DEF RoundOf
<1> HIDE DEF gone, rest, p
<1>4. Elements(items) \subseteq ContextItems /\ Len(events) \in Nat /\ m \in Nat
  BY ContextSets, LenProperties
<1>5. about \subseteq Nat
  <2> SUFFICES ASSUME NEW x \in gone PROVE x.about \subseteq Nat
    BY <1>3
  <2>1. x \in ContextItems
    BY <1>2, <1>4
  <2> QED BY <2>1 DEF ContextItems
<1>6. Covered(events) \cup goneIds \subseteq Nat
  <2>1. Covered(events) \subseteq Nat
    <3>1. Assembly!LatestSummary(events) \in Nat
      BY <1>4, LatestSummaryIs
    <3> QED BY <3>1, CoveredIsEarlier
  <2>2. \A x \in gone : x \in ContextItems
    BY <1>2, <1>4
  <2>3. \A x \in gone : x.id \in Nat
    BY <2>2 DEF ContextItems
  <2> QED BY <2>1, <2>3
<1>7. CheckpointOf(events, gone, event)
  <2> DEFINE named == Covered(events) \cup goneIds
  <2>1. event = [kind |-> "compacted", size |-> size, dropped |-> named, about |-> about]
    BY <1>3
  <2>2. event.dropped = named /\ event.about = about /\ event.kind = "compacted"
    <3> HIDE DEF named
    <3> QED BY <2>1
  <2>3. event \in Stored
    <3>1. named \in SUBSET Nat /\ about \in SUBSET Nat
      BY <1>5, <1>6
    <3> HIDE DEF named
    <3> QED BY <2>1, <3>1, CheckpointIsStored
  <2> QED BY <1>3, <2>2, <2>3 DEF CheckpointOf
<1>8. /\ Checkpoints(grown) /\ Assembly!LatestSummary(grown) = m
      /\ RestartIds(grown) = {m} \cup (RestartIds(events) \ goneIds)
  BY <1>2, <1>7, CheckpointAdded
<1>9. /\ \A i \in 1 .. Len(events) : grown[i] = events[i]
      /\ grown[m] = event
  BY <1>7, GrownIs DEF CheckpointOf
<1>10. /\ item \in ContextItems /\ item.id = m /\ item.role = "Memory" /\ item.about = about
       /\ item.size = size
  BY <1>4, <1>5 DEF Assembly!Item, ContextItems, Roles
<1> HIDE DEF item, m
<1>11. /\ Inserted(all, rest, p, item) /\ all \in Seq(ContextItems) /\ Len(all) = Len(rest) + 1
       /\ \A i \in 1 .. (p - 1) : all[i] = rest[i]
       /\ all[p] = item
       /\ \A i \in p .. Len(rest) : all[i + 1] = rest[i]
       /\ Assembly!Estimate(all) = Assembly!Estimate(rest) + size
  <2>1. all = SubSeq(rest, 1, p - 1) \o <<item>> \o SubSeq(rest, p, Len(rest))
    BY DEF Assembly!InsertSummary, p
  <2> HIDE DEF all
  <2>2. Inserted(all, rest, p, item) /\ Assembly!Estimate(all) = Assembly!Estimate(rest) + item.size
    BY <1>2, <1>10, <2>1, InsertedIs
  <2> QED BY <1>10, <2>2 DEF Inserted
<1> HIDE DEF all, grown, goneIds
<1>12. IdsIn(rest) \subseteq ids /\ m \notin ids
  <2>1. IdsIn(rest) \subseteq ids
    BY <1>1, <1>2 DEF IdsIn, Fits
  <2> QED BY <1>4, <2>1 DEF m
<1>13. Elements(all) = Elements(rest) \cup {item} /\ Apart(all)
  <2>1. item.id \notin IdsIn(rest)
    BY <1>10, <1>12
  <2> QED BY <1>2, <1>10, <1>11, <2>1, InsertedSets
<1>14. \A x \in Elements(all) : Fits(x, grown, ids \cup {m})
  <2>1. ASSUME NEW x \in Elements(rest) PROVE Fits(x, grown, ids \cup {m})
    <3>1. Fits(x, events, ids)
      BY <1>1, <1>2
    <3>2. x.id \in 1 .. Len(events)
      BY <3>1 DEF Fits
    <3> QED BY <1>9, <3>1, <3>2 DEF Fits
  <2>2. Fits(item, grown, ids \cup {m})
    BY <1>3, <1>9, <1>10 DEF Fits
  <2> QED BY <1>13, <2>1, <2>2
<1>15. SummaryIsFirst(all, grown)
  <2>1. p \in 1 .. Len(all)
    BY <1>2, <1>11
  <2>2. \A j \in 1 .. (p - 1) : ~ CanGo(all[j])
    BY <1>2, <1>11
  <2>3. CanGo(item)
    BY <1>10 DEF CanGo
  <2>4. IsSummary(all, grown, p)
    <3>1. grown[m].about = about
      BY <1>3, <1>7, <1>9 DEF CheckpointOf
    <3>2. all[p] = item
      BY <1>11
    <3> QED BY <1>8, <1>10, <2>2, <2>3, <3>1, <3>2 DEF IsSummary
  <2> QED BY <2>1, <2>4 DEF SummaryIsFirst
<1>16. IdsIn(all) \ ResultIds(all) = (RestartIds(grown) \cap (ids \cup {m})) \ ResultIds(all)
  <2>1. ResultIds(all) = ResultIds(items)
    <3>1. {x \in Elements(all) : x.role = "Tool"} = {x \in Elements(items) : x.role = "Tool"}
      BY <1>2, <1>10, <1>13 DEF CanGo
    <3> QED BY <3>1 DEF ResultIds
  <2>2. IdsIn(all) = IdsIn(rest) \cup {m}
    BY <1>10, <1>13 DEF IdsIn
  <2>3. IdsIn(rest) = IdsIn(items) \ goneIds
    <3>1. ASSUME NEW x \in Elements(items), NEW y \in gone, x.id = y.id PROVE x = y
      <4>1. PICK i \in 1 .. Len(items) : x = items[i]
        BY DEF Elements
      <4>2. PICK j \in 1 .. Len(items) : y = items[j]
        BY <1>2 DEF Elements
      <4>3. i = j
        BY <1>1, <3>1, <4>1, <4>2 DEF Apart
      <4> QED BY <4>1, <4>2, <4>3
    <3>2. \A x \in Elements(items) : x.id \in goneIds <=> x \in gone
      BY <3>1 DEF goneIds
    <3> QED BY <1>2, <3>2 DEF IdsIn
  <2>4. IdsIn(items) \ ResultIds(items) = (RestartIds(events) \cap ids) \ ResultIds(items)
    BY DEF WorksOn
  <2>5. ResultIds(items) \subseteq ids
    BY <1>1 DEF ResultIds, Fits
  <2> QED BY <1>8, <1>12, <2>1, <2>2, <2>3, <2>4, <2>5
<1>17. WorksOn(all, grown, ids \cup {m})
  BY <1>13, <1>14, <1>15, <1>16 DEF WorksOn
<1>18. event \in Stored
  BY <1>7 DEF CheckpointOf
<1> QED BY <1>8, <1>11, <1>17, <1>18 DEF GoesOn, all, grown, m, rest, item

(* A run that starts. *)
LEMMA StartKeeps ==
  ASSUME NEW events \in Seq(Stored), Checkpoints(events),
         NEW provided, provided \subseteq 1 .. Len(events),
         \A i \in provided : events[i].kind = "tool",
         NEW F, \A i \in provided : F[i] = Assembly!Item(i, "Tool", events[i].size, {i}),
         NEW results, MadeInOrder(results, F, provided, Len(events))
  PROVE  LET items == Assembly!FromEvents(events, provided) \o results IN
         /\ items \in Seq(ContextItems) /\ WorksOn(items, events, 1 .. Len(events))
<1> DEFINE read == Assembly!FromEvents(events, provided)
           items == read \o results
           n == Len(events)
           s == Assembly!LatestSummary(events)
<1>1. n \in Nat /\ \A i \in 1 .. n : events[i] \in Stored
  BY LenProperties, ElementOfSeq
<1>2. s # 0 => s \in 1 .. n /\ events[s].kind = "compacted"
  BY <1>1, LatestSummaryIs
<1>3. /\ read \in Seq(ContextItems) /\ Apart(read)
      /\ IdsIn(read) = Summary(events) \cup Shown(events, provided)
      /\ SummaryIsFirst(read, events)
      /\ \A item \in Elements(read) : Fits(item, events, 1 .. n) /\ item.role # "Tool"
  BY FromEventsIs
<1>4. \A i \in provided : /\ F[i] \in ContextItems /\ F[i].id = i /\ F[i].role = "Tool"
                          /\ F[i].about = {i}
  <2>1. ASSUME NEW i \in provided
        PROVE  F[i] \in ContextItems /\ F[i].id = i /\ F[i].role = "Tool" /\ F[i].about = {i}
    <3>1. i \in Nat /\ events[i].size \in Nat
      BY <1>1 DEF Stored
    <3>2. F[i] = [id |-> i, role |-> "Tool", size |-> events[i].size, about |-> {i}]
      BY DEF Assembly!Item
    <3> QED BY <3>1, <3>2 DEF ContextItems, Roles
  <2> QED BY <2>1
<1>5. /\ results \in Seq(ContextItems) /\ Elements(results) = {F[i] : i \in provided}
      /\ IdsIn(results) = provided /\ Apart(results)
  <2>1. \A i \in provided : F[i] \in ContextItems /\ F[i].id = i
    BY <1>4
  <2> HIDE DEF items, n, read, s
  <2>2. MadeInOrder(results, F, provided, n) /\ provided \subseteq 1 .. n
    BY DEF n
  <2> QED BY <1>1, <2>1, <2>2, ItemsOfEvents
<1> HIDE DEF read, s
<1>6. IdsIn(read) \cap provided = {}
  BY <1>2, <1>3 DEF Summary, Shown, s
<1>7. /\ items \in Seq(ContextItems) /\ Apart(items)
      /\ Elements(items) = Elements(read) \cup Elements(results)
  BY <1>3, <1>5, <1>6, ApartConcat, ConcatProperties, ElementsOfConcat
<1>8. \A i \in 1 .. Len(read) : i \in 1 .. Len(items) /\ items[i] = read[i]
  <2>1. /\ Len(items) = Len(read) + Len(results)
        /\ \A i \in 1 .. (Len(read) + Len(results)) :
             items[i] = IF i <= Len(read) THEN read[i] ELSE results[i - Len(read)]
    BY <1>3, <1>5, ConcatProperties
  <2>2. Len(read) \in Nat /\ Len(results) \in Nat
    BY <1>3, <1>5, LenProperties
  <2> HIDE DEF items
  <2>3. ASSUME NEW i \in 1 .. Len(read) PROVE i \in 1 .. Len(items) /\ items[i] = read[i]
    <3>1. i \in 1 .. (Len(read) + Len(results)) /\ i <= Len(read)
      BY <2>2
    <3> QED BY <2>1, <3>1
  <2> QED BY <2>3
<1> HIDE DEF items
<1>9. \A item \in Elements(items) : Fits(item, events, 1 .. n)
  <2>1. \A i \in provided : Fits(F[i], events, 1 .. n)
    BY <1>4 DEF Fits
  <2> QED BY <1>3, <1>5, <1>7, <2>1
<1>10. SummaryIsFirst(items, events)
  <2>1. ASSUME s # 0 PROVE \E i \in 1 .. Len(items) : IsSummary(items, events, i)
    <3>1. PICK i \in 1 .. Len(read) : IsSummary(read, events, i)
      BY <1>3, <2>1 DEF SummaryIsFirst, s
    <3>2. \A j \in 1 .. (i - 1) : j \in 1 .. Len(read)
      BY <1>3, LenProperties
    <3>3. IsSummary(items, events, i)
      BY <1>8, <3>1, <3>2 DEF IsSummary
    <3> QED BY <1>8, <3>3
  <2> QED BY <2>1 DEF SummaryIsFirst, s
<1>11. ResultIds(items) = provided
  <2>1. {x \in Elements(items) : x.role = "Tool"} = {F[i] : i \in provided}
    BY <1>3, <1>4, <1>5, <1>7
  <2>2. ResultIds(items) = {F[i].id : i \in provided}
    BY <2>1 DEF ResultIds
  <2>3. \A i \in provided : F[i].id = i
    BY <1>4
  <2>4. {F[i].id : i \in provided} = provided
    BY <2>3
  <2> QED BY <2>2, <2>4
<1>12. IdsIn(items) = Summary(events) \cup Shown(events, provided) \cup provided
  BY <1>3, <1>5, <1>7 DEF IdsIn
<1>13. Summary(events) \cup Shown(events, {}) \subseteq 1 .. n
  BY <1>2 DEF Summary, Shown, s
<1>14. Shown(events, provided) = Shown(events, {}) \ provided
  BY DEF Shown
<1>15. IdsIn(items) \ ResultIds(items) = (RestartIds(events) \cap (1 .. n)) \ ResultIds(items)
  BY <1>11, <1>12, <1>13, <1>14 DEF RestartIds
<1> QED BY <1>7, <1>9, <1>10, <1>15 DEF WorksOn, items, read

-----------------------------------------------------------------------------
(***************************************************************************)
(* The steps.                                                              *)
(***************************************************************************)
LEMMA EventIs ==
  ASSUME NEW kind \in StoredKinds, kind # "compacted", NEW size \in Nat
  PROVE  /\ Assembly!Event(kind, size) \in Stored
         /\ Assembly!Event(kind, size).kind # "compacted"
         /\ Assembly!Event(kind, size).dropped = {}
BY DEF Assembly!Event, Stored

LEMMA ItemIs ==
  ASSUME NEW id \in Nat, NEW role \in Roles, NEW size \in Nat
  PROVE  /\ Assembly!Item(id, role, size, {id}) \in ContextItems
         /\ Assembly!Item(id, role, size, {id}).id = id
         /\ id \in Assembly!Item(id, role, size, {id}).about
BY DEF Assembly!Item, ContextItems

LEMMA TwoMore ==
  ASSUME NEW S, NEW s \in Seq(S), NEW a \in S, NEW b \in S
  PROVE  s \o <<a, b>> = Append(Append(s, a), b)
<1>1. Append(s, a) \in Seq(S) /\ <<a>> \in Seq(S) /\ <<b>> \in Seq(S)
  BY AppendProperties
<1>2. Append(Append(s, a), b) = (s \o <<a>>) \o <<b>>
  BY <1>1, AppendIsConcat
<1>3. (s \o <<a>>) \o <<b>> = s \o (<<a>> \o <<b>>)
  BY <1>1, ConcatAssociative
<1>4. <<a>> \o <<b>> = <<a, b>>
  <2> DEFINE both == <<a, b>>
             sum == <<a>> \o <<b>>
  <2>1. both \in Seq(S) /\ Len(both) = 2 /\ both[1] = a /\ both[2] = b
    OBVIOUS
  <2>2. sum \in Seq(S) /\ Len(sum) = 2 /\ sum[1] = a /\ sum[2] = b
    OBVIOUS
  <2> HIDE DEF sum, both
  <2>3. sum = both
    BY <2>1, <2>2, SeqEqual
  <2> QED BY <2>3 DEF sum, both
<1> QED BY <1>2, <1>3, <1>4

LEMMA ContextInitSetsUp ==
  ASSUME Assembly!Init
  PROVE  ContextIInv
<1> DEFINE event == Assembly!Event("system", 1)
<1>1. event \in Stored /\ event.kind # "compacted" /\ event.dropped = {}
  BY EventIs DEF StoredKinds
<1>2. stream = <<event>> /\ context = <<>> /\ known = {} /\ phase = "idle"
  BY DEF Assembly!Init
<1> HIDE DEF event
<1>3. stream \in Seq(Stored) /\ Len(stream) = 1 /\ stream[1] = event
  BY <1>1, <1>2
<1>4. ContextTypes
  BY <1>2, <1>3 DEF ContextTypes
<1>5. Checkpoints(stream)
  <2>1. \A i \in 1 .. Len(stream) : i = 1
    BY <1>3
  <2> QED BY <1>1, <1>3, <2>1 DEF Checkpoints
<1> QED BY <1>2, <1>4, <1>5 DEF ContextIInv, Assembly!Working

LEMMA ReceiveKeeps ==
  ASSUME Assembly!ConstantsFit, ContextIInv,
         NEW kind \in {"input", "tool"}, NEW size \in Sizes, Assembly!Receive(kind, size)
  PROVE  ContextIInv'
<1> DEFINE event == Assembly!Event(kind, size)
<1>1. event \in Stored /\ event.kind # "compacted" /\ event.dropped = {}
  <2>1. kind \in StoredKinds /\ kind # "compacted" /\ size \in Nat
    BY DEF StoredKinds, Assembly!ConstantsFit
  <2> QED BY <2>1, EventIs
<1>2. stream' = Append(stream, event) /\ UNCHANGED <<context, known, phase>>
  BY DEF Assembly!Receive
<1> HIDE DEF event
<1>3. /\ stream \in Seq(Stored) /\ context \in Seq(ContextItems)
      /\ known \subseteq 1 .. Len(stream) /\ phase \in {"idle", "fit", "call"} /\ Checkpoints(stream)
  BY DEF ContextIInv, ContextTypes
<1>4. Checkpoints(stream')
  BY <1>1, <1>2, <1>3, EventAdded
<1>5. ContextTypes'
  <2>1. stream' \in Seq(Stored) /\ 1 .. Len(stream') = (1 .. Len(stream)) \cup {Len(stream) + 1}
    BY <1>1, <1>2, <1>3, GrownIs
  <2> QED BY <1>2, <1>3, <2>1 DEF ContextTypes
<1>6. ASSUME Assembly!Working' PROVE WorksOn(context, stream, known)'
  <2>1. WorksOn(context, stream, known)
    BY <1>2, <1>6 DEF ContextIInv, Assembly!Working
  <2> QED BY <1>1, <1>2, <1>3, <2>1, RunGoesOn
<1> QED BY <1>4, <1>5, <1>6 DEF ContextIInv

LEMMA BeginKeeps ==
  ASSUME ContextIInv,
         NEW provided \in {{}, Assembly!PendingResults}, Assembly!Begin(provided)
  PROVE  ContextIInv'
<1> DEFINE n == Len(stream)
           q == Assembly!InOrder(provided, n)
           results == [k \in DOMAIN q |-> Assembly!ToolItem(q[k])]
           F == [i \in provided |-> Assembly!Item(i, "Tool", stream[i].size, {i})]
<1>1. /\ stream \in Seq(Stored) /\ context \in Seq(ContextItems) /\ Checkpoints(stream)
      /\ n \in Nat /\ DOMAIN stream = 1 .. n
  BY LenProperties DEF ContextIInv, ContextTypes
<1>2. /\ context' = Assembly!FromEvents(stream, provided) \o results
      /\ known' = 1 .. n /\ stream' = stream /\ phase' \in {"idle", "fit"}
  BY <1>1 DEF Assembly!Begin
<1>3. provided \subseteq 1 .. n /\ \A i \in provided : stream[i].kind = "tool"
  BY <1>1 DEF Assembly!PendingResults
<1>4. \A i \in provided : F[i] = Assembly!Item(i, "Tool", stream[i].size, {i})
  OBVIOUS
<1>5. MadeInOrder(results, F, provided, n)
  <2>1. IsInOrder(q, provided, n)
    BY <1>1, InOrderIs
  <2> HIDE DEF q
  <2>2. DOMAIN q = 1 .. Len(q) /\ Elements(q) = provided
    BY <1>3, <2>1, LenProperties DEF IsInOrder
  <2>3. \A k \in DOMAIN q : q[k] \in provided
    BY <2>2 DEF Elements
  <2>4. \A k \in DOMAIN q : Assembly!ToolItem(q[k]) = F[q[k]]
    BY <2>3 DEF Assembly!ToolItem
  <2> HIDE DEF F
  <2>5. results = [k \in DOMAIN q |-> F[q[k]]]
    BY <2>4
  <2> QED BY <2>5 DEF MadeInOrder, q
<1> HIDE DEF results, F, n
<1>6. context' \in Seq(ContextItems) /\ WorksOn(context', stream, 1 .. n)
  BY <1>1, <1>2, <1>3, <1>4, <1>5, StartKeeps DEF n
<1> QED BY <1>1, <1>2, <1>6 DEF ContextIInv, ContextTypes, n

(* A round, with its budget. *)
LEMMA CompactKeeps ==
  ASSUME Assembly!ConstantsFit, ContextIInv, Assembly!Compact
  PROVE  ContextIInv' /\ Assembly!Estimate(context') <= Assembly!InputBudget
<1> DEFINE n == Assembly!Fewest(Assembly!Plans(context))
           gone == {context[Assembly!Candidates(context)[k]] : k \in 1 .. n}
           about == UNION {item.about : item \in gone}
           size == Assembly!Latest(Assembly!FittingSizes(context, n))
           event == [kind |-> "compacted", size |-> size,
                     dropped |-> Covered(stream) \cup {item.id : item \in gone},
                     about |-> about]
           m == Len(stream) + 1
           rest == Assembly!Without(context, n)
           all == Assembly!InsertSummary(context, rest, Assembly!Item(m, "Memory", size, about))
<1>1. /\ stream \in Seq(Stored) /\ context \in Seq(ContextItems) /\ Checkpoints(stream)
      /\ known \subseteq 1 .. Len(stream) /\ WorksOn(context, stream, known)
  BY DEF ContextIInv, ContextTypes, Assembly!Working, Assembly!Compact
<1>2. Assembly!Plans(context) # {} /\ phase = "fit" /\ phase' = phase
  BY DEF Assembly!Compact
<1>3. /\ n \in 1 .. Len(Assembly!Candidates(context)) /\ size \in Nat
      /\ Assembly!Estimate(rest) + size <= Assembly!InputBudget
  BY <1>1, <1>2, PlanFits DEF WorksOn
<1>4. stream' = Append(stream, event)
  <2> DEFINE read == Assembly!Coverage(stream) \cup {item.id : item \in gone}
             named == Covered(stream) \cup {item.id : item \in gone}
  <2>1. stream' = Append(stream, [Assembly!Event("compacted", size) EXCEPT
                                    !.dropped = read, !.about = about])
    BY DEF Assembly!Compact
  <2>2. read = named
    BY <1>1, CoverageIs
  <2>3. event = [kind |-> "compacted", size |-> size, dropped |-> named, about |-> about]
    OBVIOUS
  <2> HIDE DEF read, named, size, about, event
  <2>4. [Assembly!Event("compacted", size) EXCEPT !.dropped = read, !.about = about] = event
    <3> DEFINE bare == Assembly!Event("compacted", size)
               next == [bare EXCEPT !.dropped = read]
    <3>1. bare = [kind |-> "compacted", size |-> size, dropped |-> {}, about |-> {}]
      BY DEF Assembly!Event
    <3> HIDE DEF bare
    <3>2. next = [kind |-> "compacted", size |-> size, dropped |-> named, about |-> {}]
      BY <2>2, <3>1
    <3> HIDE DEF next
    <3>3. [next EXCEPT !.about = about] = event
      BY <2>3, <3>2
    <3> QED BY <3>3 DEF next, bare
  <2> QED BY <2>1, <2>4
<1>5. /\ context' = Assembly!InsertSummary(context, rest,
                                           Assembly!Item(Len(stream'), "Memory", size, about))
      /\ known' = known \cup {Len(stream')}
  BY DEF Assembly!Compact
<1>6. /\ event \in Stored /\ all \in Seq(ContextItems) /\ Checkpoints(Append(stream, event))
      /\ WorksOn(all, Append(stream, event), known \cup {m})
      /\ Assembly!Estimate(all) = Assembly!Estimate(rest) + size
  <2> DEFINE a == about
             e == event
  <2>1. RoundOf(stream, context, n, size, a, e)
    BY DEF RoundOf
  <2> HIDE DEF n, size, a, e
  <2>2. GoesOn(stream, context, known, n, size, a, e)
    BY <1>1, <1>3, <2>1, RoundKeeps
  <2> QED BY <2>2 DEF GoesOn, a, e
<1> HIDE DEF event, all, rest, size, about, gone, n
<1>7. /\ stream' \in Seq(Stored) /\ Len(stream') = m
      /\ 1 .. Len(stream') = (1 .. Len(stream)) \cup {m}
  BY <1>1, <1>4, <1>6, GrownIs
<1>8. context' = all /\ known' = known \cup {m}
  BY <1>5, <1>7 DEF all
<1> HIDE DEF m
<1>9. ContextIInv'
  <2>1. ContextTypes'
    BY <1>1, <1>2, <1>6, <1>7, <1>8 DEF ContextTypes
  <2>2. Checkpoints(stream') /\ WorksOn(context', stream', known')
    BY <1>4, <1>6, <1>8
  <2> QED BY <2>1, <2>2 DEF ContextIInv
<1> QED BY <1>3, <1>6, <1>8, <1>9

(* The run ends. *)
LEMMA StopKeeps ==
  ASSUME ContextIInv, phase' = "idle", context' = <<>>, known' = {},
         stream' \in Seq(Stored), Checkpoints(stream')
  PROVE  ContextIInv'
BY DEF ContextIInv, ContextTypes, Assembly!Working

LEMMA AnswerKeeps ==
  ASSUME Assembly!ConstantsFit, ContextIInv, NEW size \in Sizes, Assembly!Answer(size)
  PROVE  ContextIInv'
<1> DEFINE event == Assembly!Event("answer", size)
<1>1. event \in Stored /\ event.kind # "compacted" /\ event.dropped = {}
  BY EventIs DEF StoredKinds, Assembly!ConstantsFit
<1>2. stream' = Append(stream, event) /\ phase' = "idle" /\ context' = <<>> /\ known' = {}
  BY DEF Assembly!Answer
<1> HIDE DEF event
<1>3. stream \in Seq(Stored) /\ Checkpoints(stream)
  BY DEF ContextIInv, ContextTypes
<1>4. stream' \in Seq(Stored) /\ Checkpoints(stream')
  BY <1>1, <1>2, <1>3, EventAdded, GrownIs
<1> QED BY <1>2, <1>4, StopKeeps

LEMMA AnswerAndRunToolKeeps ==
  ASSUME Assembly!ConstantsFit, ContextIInv, NEW size \in Sizes, NEW result \in Sizes,
         Assembly!AnswerAndRunTool(size, result)
  PROVE  ContextIInv'
<1> DEFINE n == Len(stream) + 1
           said == Assembly!Event("answer", size)
           made == Assembly!Event("tool", result)
           saidItem == Assembly!Item(n, "Assistant", size, {n})
           madeItem == Assembly!Item(n + 1, "Tool", result, {n + 1})
           stream1 == Append(stream, said)
           context1 == Append(context, saidItem)
<1>1. /\ stream \in Seq(Stored) /\ context \in Seq(ContextItems) /\ Checkpoints(stream)
      /\ known \subseteq 1 .. Len(stream) /\ WorksOn(context, stream, known)
      /\ Len(stream) \in Nat
  BY LenProperties DEF ContextIInv, ContextTypes, Assembly!Working, Assembly!AnswerAndRunTool
<1>2. /\ said \in Stored /\ said.kind # "compacted" /\ said.dropped = {}
      /\ made \in Stored /\ made.kind # "compacted" /\ made.dropped = {}
  BY EventIs DEF StoredKinds, Assembly!ConstantsFit
<1>3. n \in Nat /\ n + 1 \in Nat /\ Len(stream) + 2 = n + 1
  BY <1>1
<1>4. /\ saidItem \in ContextItems /\ saidItem.id = n /\ n \in saidItem.about
      /\ madeItem \in ContextItems /\ madeItem.id = n + 1 /\ n + 1 \in madeItem.about
  <2>1. size \in Nat /\ result \in Nat /\ "Assistant" \in Roles /\ "Tool" \in Roles
    BY DEF Assembly!ConstantsFit, Roles
  <2> HIDE DEF n
  <2> QED BY <1>3, <2>1, ItemIs
<1>5. /\ stream' = stream \o <<said, made>> /\ context' = context \o <<saidItem, madeItem>>
      /\ known' = known \cup {n, n + 1} /\ phase' = "fit"
  BY <1>3 DEF Assembly!AnswerAndRunTool
<1> HIDE DEF said, made, saidItem, madeItem
<1>6. stream' = Append(stream1, made) /\ context' = Append(context1, madeItem)
  <2>1. stream \o <<said, made>> = Append(stream1, made)
    BY <1>1, <1>2, TwoMore
  <2>2. context \o <<saidItem, madeItem>> = Append(context1, madeItem)
    BY <1>1, <1>4, TwoMore
  <2> QED BY <1>5, <2>1, <2>2
<1>7. /\ stream1 \in Seq(Stored) /\ Len(stream1) = n /\ 1 .. Len(stream1) = (1 .. Len(stream)) \cup {n}
      /\ Checkpoints(stream1)
  BY <1>1, <1>2, GrownIs, EventAdded
<1>8. context1 \in Seq(ContextItems) /\ WorksOn(context1, stream1, known \cup {n})
  BY <1>1, <1>2, <1>4, RunAdds
<1> HIDE DEF stream1, context1
<1>9. /\ stream' \in Seq(Stored) /\ 1 .. Len(stream') = (1 .. Len(stream1)) \cup {n + 1}
      /\ Checkpoints(stream')
  BY <1>2, <1>6, <1>7, GrownIs, EventAdded
<1>10. /\ context' \in Seq(ContextItems)
       /\ WorksOn(context', stream', (known \cup {n}) \cup {n + 1})
  <2>1. known \cup {n} \subseteq 1 .. Len(stream1)
    BY <1>1, <1>7
  <2> QED BY <1>2, <1>4, <1>6, <1>7, <1>8, <2>1, RunAdds
<1>11. known' = (known \cup {n}) \cup {n + 1}
  BY <1>5
<1>12. ContextTypes'
  <2> HIDE DEF n
  <2> QED BY <1>1, <1>5, <1>7, <1>9, <1>10 DEF ContextTypes
<1> QED BY <1>9, <1>10, <1>11, <1>12 DEF ContextIInv

LEMMA ContextNextKeeps ==
  ASSUME Assembly!ConstantsFit, ContextIInv, [Assembly!Next]_Assembly!vars
  PROVE  ContextIInv'
<1>1. stream \in Seq(Stored) /\ Checkpoints(stream)
  BY DEF ContextIInv, ContextTypes
<1>2. CASE \E kind \in {"input", "tool"}, size \in Sizes : Assembly!Receive(kind, size)
  BY <1>2, ReceiveKeeps
<1>3. CASE \E provided \in {{}, Assembly!PendingResults} : Assembly!Begin(provided)
  BY <1>3, BeginKeeps
<1>4. CASE Assembly!Compact
  BY <1>4, CompactKeeps
<1>5. CASE Assembly!Ready
  <2>1. UNCHANGED <<stream, context, known>> /\ phase = "fit" /\ phase' = "call"
    BY <1>5 DEF Assembly!Ready
  <2> QED BY <2>1 DEF ContextIInv, ContextTypes, Assembly!Working
<1>6. CASE Assembly!GiveUp
  <2>1. stream' = stream /\ phase' = "idle" /\ context' = <<>> /\ known' = {}
    BY <1>6 DEF Assembly!GiveUp
  <2> QED BY <1>1, <2>1, StopKeeps
<1>7. CASE Assembly!Crash
  <2>1. stream' = stream /\ phase' = "idle" /\ context' = <<>> /\ known' = {}
    BY <1>7 DEF Assembly!Crash
  <2> QED BY <1>1, <2>1, StopKeeps
<1>8. CASE \E size \in Sizes : Assembly!Answer(size)
  BY <1>8, AnswerKeeps
<1>9. CASE \E size, result \in Sizes : Assembly!AnswerAndRunTool(size, result)
  BY <1>9, AnswerAndRunToolKeeps
<1>10. CASE UNCHANGED Assembly!vars
  BY <1>10 DEF Assembly!vars, ContextIInv, ContextTypes, Assembly!Working
<1> QED BY <1>2, <1>3, <1>4, <1>5, <1>6, <1>7, <1>8, <1>9, <1>10 DEF Assembly!Next

(* The events a run knows and does not find by themselves are in its       *)
(* summary.                                                                *)
LEMMA ContextTells ==
  ASSUME ContextIInv
  PROVE  Assembly!RestartShowsTheSame /\ Assembly!NothingIsLost
<1> SUFFICES ASSUME Assembly!Working
             PROVE  /\ Assembly!Ids(context) \ Assembly!Results
                         = (Assembly!Ids(Assembly!FromEvents(stream, {})) \cap known) \ Assembly!Results
                    /\ Assembly!VisibleEvents(stream, known)
                         \subseteq UNION {context[i].about : i \in DOMAIN context}
  BY DEF Assembly!RestartShowsTheSame, Assembly!NothingIsLost
<1> DEFINE s == Assembly!LatestSummary(stream)
<1>1. /\ stream \in Seq(Stored) /\ context \in Seq(ContextItems) /\ Checkpoints(stream)
      /\ known \subseteq 1 .. Len(stream) /\ WorksOn(context, stream, known)
  BY DEF ContextIInv, ContextTypes
<1>2. /\ Assembly!Ids(context) = IdsIn(context) /\ Assembly!Results = ResultIds(context)
      /\ UNION {context[i].about : i \in DOMAIN context} = AboutOf(context)
  BY <1>1, ContextSets DEF Assembly!Results
<1>3. Assembly!Ids(Assembly!FromEvents(stream, {})) = RestartIds(stream)
  <2> DEFINE read == Assembly!FromEvents(stream, {})
  <2>1. read \in Seq(ContextItems) /\ IdsIn(read) = Summary(stream) \cup Shown(stream, {})
    BY <1>1, FromEventsIs
  <2> HIDE DEF read
  <2>2. Assembly!Ids(read) = IdsIn(read)
    BY <2>1, ContextSets
  <2> QED BY <2>1, <2>2 DEF RestartIds, read
<1>4. ASSUME NEW i \in known, stream[i].kind # "compacted" PROVE i \in AboutOf(context)
  <2>1. CASE i \in Covered(stream)
    <3>1. s # 0 /\ i \in stream[s].dropped
      BY <2>1 DEF Covered
    <3>2. s \in 1 .. Len(stream) /\ stream[s].kind = "compacted"
      <4>1. Len(stream) \in Nat
        BY <1>1, LenProperties
      <4> QED BY <1>1, <3>1, <4>1, LatestSummaryIs
    <3>3. i \in stream[s].about
      BY <1>1, <1>4, <3>1, <3>2 DEF Checkpoints, Assembly!VisibleEvents
    <3>4. PICK j \in 1 .. Len(context) : IsSummary(context, stream, j)
      BY <1>1, <3>1 DEF WorksOn, SummaryIsFirst
    <3>5. context[j] \in Elements(context) /\ i \in context[j].about
      BY <3>3, <3>4 DEF IsSummary, Elements
    <3> QED BY <3>5 DEF AboutOf
  <2>2. CASE i \notin Covered(stream)
    <3>1. i \in RestartIds(stream)
      BY <1>1, <1>4, <2>2 DEF RestartIds, Shown
    <3>2. i \in IdsIn(context)
      <4>1. ResultIds(context) \subseteq IdsIn(context)
        BY DEF ResultIds, IdsIn
      <4> QED BY <1>1, <3>1, <4>1 DEF WorksOn
    <3>3. PICK item \in Elements(context) : item.id = i
      BY <3>2 DEF IdsIn
    <3>4. i \in item.about
      BY <1>1, <1>4, <3>3 DEF WorksOn, Fits
    <3> QED BY <3>4 DEF AboutOf
  <2> QED BY <2>1, <2>2
<1>5. Assembly!VisibleEvents(stream, known) \subseteq AboutOf(context)
  BY <1>4 DEF Assembly!VisibleEvents
<1> QED BY <1>1, <1>2, <1>3, <1>5 DEF WorksOn

-----------------------------------------------------------------------------
(* The inductive invariant: the run's items stand for what the stream      *)
(* would show it, and each checkpoint for all before it.                   *)
THEOREM ContextInductiveInvariant ==
  ASSUME Assembly!ConstantsFit
  PROVE  Assembly!Spec => []ContextIInv
<1>1. Assembly!Init => ContextIInv
  BY ContextInitSetsUp
<1>2. ContextIInv /\ [Assembly!Next]_Assembly!vars => ContextIInv'
  BY ContextNextKeeps
<1> QED BY <1>1, <1>2, PTL DEF Assembly!Spec

(* However often a run compacts, stops or starts again, it works on what a *)
(* restart would read, and what it knows is in its context, by itself or   *)
(* in the summary (context.rs, from_events and compact).                   *)
THEOREM RunsWorkOnTheStream ==
  ASSUME Assembly!ConstantsFit
  PROVE  Assembly!Spec => [](Assembly!RestartShowsTheSame /\ Assembly!NothingIsLost)
<1>1. ContextIInv => Assembly!RestartShowsTheSame /\ Assembly!NothingIsLost
  BY ContextTells
<1> QED BY <1>1, ContextInductiveInvariant, PTL

(* What a round of compaction leaves is within the input budget: the limit *)
(* of rounds of fit_context_to_budget never ends a run.                    *)
THEOREM OneRoundSuffices ==
  ASSUME Assembly!ConstantsFit
  PROVE  Assembly!Spec => [][Assembly!OneRoundIsEnough]_Assembly!vars
<1>1. ContextIInv /\ [Assembly!Next]_Assembly!vars => [Assembly!OneRoundIsEnough]_Assembly!vars
  BY CompactKeeps DEF Assembly!OneRoundIsEnough
<1> QED BY <1>1, ContextInductiveInvariant, PTL DEF Assembly!Spec
=============================================================================
