------------------------ MODULE AgentSupervisorProofs ------------------------
(***************************************************************************)
(* AgentSupervisor for every value of its constants: its type and its      *)
(* safety invariants.  IInv, at the head of the proofs, strengthens them;  *)
(* the actions are sorted into a few kinds of steps (StepIsOneOf), and     *)
(* each conjunct of IInv has a lemma that every kind of step keeps it.     *)
(***************************************************************************)
EXTENDS AgentSupervisor, SequenceTheorems, FiniteSetTheorems, WellFoundedInduction, TLAPS

Authors == {"system", "loop", "supervisor", "source"}
Entries == [kind : EventKinds, about : SUBSET Nat, approved : BOOLEAN,
            by : Authors, status : Statuses]
Places ==
  {"none", "starting", "loading", "turn", "retrying", "calling", "answered",
   "proposed", "refused", "granted", "executing", "asking", "requesting",
   "stopping", "cancelling", "givingUp", "failed", "failing", "done"}
Runs == [pc : Places, mode : Modes, approval : Nat, cache : Nat,
         context : SUBSET Nat, turn : Nat, attempt : Nat, proposal : Nat]
Ticks == [pc : {"idle", "recover", "act"}, events : Nat, seen : Nat]
SourceCalls == [pc : {"idle", "registering", "opened"}, cache : Nat]
Budgets == {"inputs", "controls", "approvals", "results", "crashes", "unrecorded"}

Shapes ==
  /\ log \in Seq(Entries)
  /\ Len(log) > 0
  /\ run \in Runs
  /\ tick \in Ticks
  /\ source \in SourceCalls
  /\ used \in [Budgets -> Nat]
  /\ notified \in BOOLEAN /\ cancelled \in BOOLEAN

RetriesAreLeft == run.pc = "retrying" => run.attempt < MaxAttempts

(* Every status is what the event before it and its own kind give. *)
Chained ==
  \A i \in DOMAIN log : log[i].status = Target(StatusAfter(i - 1), log[i].kind)

(* A task comes to wait only by one of the two events that ask. *)
AskingKinds == {"RequireApproval", "ApprovalRequested"}
WaitingWasAsked ==
  \A n \in DOMAIN log : \A i \in 1 .. (n - 1) :
    log[n].status = "WaitingApproval" /\ log[i].status # "WaitingApproval"
    => \E k \in (i + 1) .. n : log[k].kind \in AskingKinds

PausingWasRequested == Current = "Pausing" => HasPauseRequest(log)

(* The supervisor alone writes TaskPaused, and acts on what it has read.   *)
PausedWasSeen ==
  tick.pc = "act" /\ Current = "Paused" => StatusAfter(tick.seen) = "Paused"

(* Without a notification the supervisor has read, or is reading, the      *)
(* whole stream, and has nothing left to do.                               *)
LevelTriggered ==
  /\ ~ notified /\ tick.pc # "idle" => tick.events = Len(log)
  /\ ~ notified /\ tick.pc = "act" => tick.seen = Len(log)
  /\ ~ notified /\ tick.pc = "idle" /\ ~ IsActive =>
       /\ Current = "Running" /\ IsMain => PendingToolResults(log) = {}
       /\ Current = "WaitingApproval" => CompletedApproval(log) = 0
       /\ used.unrecorded = 0 =>
            /\ Current = "Pausing" => ~ HasPauseRequest(log)
            /\ Current # "Cancelling"

(* A run of a child leaves only when its task has moved on. *)
LeavingPlaces == {"none", "requesting", "done"}
RunningIsWorkedOn ==
  ~ IsMain /\ used.crashes = 0 /\ used.unrecorded = 0 /\ Current = "Running" =>
    run.pc \notin LeavingPlaces

(* What only the loop writes, its run has seen, so it counts every call.   *)
OwnKinds == {"ModelCompleted", "ToolStarted", "RequireApproval", "ApprovalRequested"}
Unsettled == {"none", "starting", "failing", "done"}
OwnEventsAreSeen ==
  run.pc \notin Unsettled =>
    \A i \in DOMAIN log : log[i].kind \in OwnKinds => i <= run.cache
BudgetIsChecked == run.pc \in {"calling", "retrying"} => ~ OverBudget

-----------------------------------------------------------------------------
(* The events of a tool call, and in which order they come. *)
ToolKinds == AskingKinds \cup {"ToolStarted"}
About(kinds) == {i \in DOMAIN log : log[i].kind \in kinds}
None(kinds, proposal) == \A i \in About(kinds) : log[i].about # {proposal}

ToolEventsInOrder ==
  /\ \A i \in About(ToolKinds) : \E p \in 1 .. (i - 1) : log[i].about = {p}
  /\ \A i \in About({"RequireApproval"}), j \in About({"ApprovalRequested"}) :
       log[i].about = log[j].about => i < j
  /\ \A i \in About({"ApprovalRequested"}), j \in About({"ToolStarted"}) :
       log[i].about = log[j].about => i < j
  /\ \A i \in About({"ApprovalSubmitted"}) :
       \E r \in 1 .. (i - 1) : log[i].about = {r} /\ log[r].kind = "ApprovalRequested"

LatestRequest == Last({i \in DOMAIN log : log[i].kind = "ApprovalRequested"})

(* What a resumed run has in its hands. *)
ApprovedTool ==
  /\ log[run.approval].approved
  /\ log[run.approval].about = {LatestRequest}
  /\ log[LatestRequest].about = {run.proposal}
  /\ StatusAfter(run.cache) = "WaitingApproval"

WithTool == {"proposed", "refused", "granted", "executing", "asking", "requesting"}

ToolInHand ==
  /\ run.mode = "resume" => run.approval \in About({"ApprovalSubmitted"})
  /\ run.mode = "resume" /\ run.pc = "loading" =>
       StatusAfter(run.cache) = "WaitingApproval"
  /\ run.pc \in WithTool => run.proposal \in Positions
  /\ run.pc = "proposed" => None(ToolKinds, run.proposal)
  /\ run.pc = "asking" => None({"ApprovalRequested", "ToolStarted"}, run.proposal)
  /\ run.pc = "granted" =>
       \/ None(ToolKinds, run.proposal)
       \/ run.mode = "resume" /\ ApprovedTool

IInv ==
  /\ Shapes /\ TypeOK /\ RetriesAreLeft
  /\ Chained /\ WaitingWasAsked /\ PausingWasRequested
  /\ PausedWasSeen /\ PausedMeansStopped
  /\ LevelTriggered /\ RunningIsWorkedOn
  /\ OwnEventsAreSeen /\ BudgetIsChecked /\ BudgetIsForTheTask
  /\ ToolEventsInOrder /\ ToolInHand
  /\ NoToolWithoutApproval /\ ToolRunsAgainOnlyUnasked

-----------------------------------------------------------------------------
(***************************************************************************)
(* Positions in a stream.                                                  *)
(***************************************************************************)
Less == {p \in Nat \X Nat : p[1] < p[2]}

(* There is no infinite descent among positions of the stream.             *)
LEMMA LessIsWellFounded == IsWellFoundedOn(Less, Nat)
<1>1. Less = OpToRel(<, Nat)
  BY DEF Less, OpToRel
<1> QED BY <1>1, NatLessThanWellFounded

(* A set of positions has a first one.                                     *)
LEMMA SmallestExists ==
  ASSUME NEW S, S \subseteq Nat, S # {}
  PROVE  \E x \in S : \A y \in S : x <= y
<1>1. PICK x \in S : \A y \in S : ~ (<<y, x>> \in Less)
  BY LessIsWellFounded, WFMin
<1>2. ASSUME NEW y \in S, ~ (<<y, x>> \in Less) PROVE x <= y
  BY <1>2 DEF Less
<1> QED BY <1>1, <1>2

(* A set of positions with an upper bound has a last one.                  *)
LEMMA GreatestExists ==
  ASSUME NEW n \in Nat, NEW S, S \subseteq 0 .. n, S # {}
  PROVE  \E x \in S : \A y \in S : x >= y
<1> DEFINE Bounds == {u \in Nat : \A y \in S : u >= y}
<1>1. n \in Bounds
  OBVIOUS
<1>2. PICK u \in Bounds : \A v \in Bounds : u <= v
  <2>1. Bounds \subseteq Nat /\ Bounds # {}
    BY <1>1
  <2> QED BY <2>1, SmallestExists
<1>3. u \in S
  <2>1. CASE u = 0
    <3>1. PICK y \in S : TRUE
      OBVIOUS
    <3> QED BY <1>2, <2>1, <3>1
  <2>2. CASE u # 0
    <3>1. u - 1 \in Nat \ Bounds
      BY <1>2, <2>2
    <3>2. PICK y \in S : ~ (u - 1 >= y)
      BY <3>1
    <3> QED BY <1>2, <2>2, <3>2
  <2> QED BY <2>1, <2>2
<1> QED BY <1>2, <1>3

(* LastOf is the last position of a set, or 0.                             *)
LEMMA LastIsGreatest ==
  ASSUME NEW n \in Nat, NEW S, S \subseteq 1 .. n
  PROVE  /\ Last(S) \in 0 .. n
         /\ Last(S) # 0 => Last(S) \in S
         /\ \A x \in S : x <= Last(S)
<1> DEFINE T == {0} \cup S
<1>1. T \subseteq 0 .. n /\ T # {}
  OBVIOUS
<1>2. \E x \in T : \A y \in T : x >= y
  BY <1>1, GreatestExists
<1>3. Last(S) \in T /\ \A y \in T : Last(S) >= y
  <2>1. Last(S) = CHOOSE x \in T : \A y \in T : x >= y
    BY DEF Last, Max
  <2> QED BY <1>2, <2>1
<1> QED BY <1>1, <1>3

(* Nothing but the last position of a set is its LastOf.                   *)
LEMMA LastIsUnique ==
  ASSUME NEW n \in Nat, NEW S, S \subseteq 1 .. n, NEW x \in S, \A y \in S : y <= x
  PROVE  Last(S) = x
<1>1. Last(S) \in 0 .. n /\ x <= Last(S) /\ (Last(S) # 0 => Last(S) \in S)
  BY LastIsGreatest
<1>2. x \in 1 .. n
  OBVIOUS
<1> QED BY <1>1, <1>2

(* Appending an event. *)
LEMMA Appending ==
  ASSUME NEW s \in Seq(Entries), NEW e \in Entries
  PROVE  /\ Append(s, e) \in Seq(Entries)
         /\ Len(s) \in Nat /\ Len(Append(s, e)) = Len(s) + 1
         /\ DOMAIN s = 1 .. Len(s) /\ DOMAIN Append(s, e) = 1 .. (Len(s) + 1)
         /\ \A i \in 1 .. Len(s) : Append(s, e)[i] = s[i]
         /\ Append(s, e)[Len(s) + 1] = e
<1>1. Append(s, e) \in Seq(Entries) /\ Len(Append(s, e)) = Len(s) + 1
  BY AppendProperties
<1> QED BY <1>1, AppendProperties, LenProperties

(* A cycle starts at the first event or later.                             *)
LEMMA CycleStartIsAPosition ==
  ASSUME NEW s \in Seq(Entries)
  PROVE  CycleStart(s) \in 0 .. Len(s)
<1>1. Len(s) \in Nat /\ DOMAIN s = 1 .. Len(s)
  BY LenProperties
<1> QED BY <1>1, LastIsGreatest DEF CycleStart

(* The cycle goes on, unless the event starts one. *)
LEMMA CycleGoesOn ==
  ASSUME NEW s \in Seq(Entries), NEW e \in Entries, e.kind \notin CycleBoundaries,
         NEW kinds
  PROVE  InCycle(Append(s, e), kinds) =
           InCycle(s, kinds) \cup (IF e.kind \in kinds THEN {Len(s) + 1} ELSE {})
<1> DEFINE t == Append(s, e)
<1>1. /\ Len(s) \in Nat /\ Len(t) = Len(s) + 1
      /\ DOMAIN s = 1 .. Len(s) /\ DOMAIN t = 1 .. (Len(s) + 1)
      /\ \A i \in 1 .. Len(s) : t[i] = s[i]
      /\ t[Len(s) + 1] = e
  BY Appending
<1> HIDE DEF t
<1>2. CycleStart(t) = CycleStart(s)
  <2>1. {i \in DOMAIN t : t[i].kind \in CycleBoundaries}
          = {i \in DOMAIN s : s[i].kind \in CycleBoundaries}
    BY <1>1
  <2> QED BY <2>1 DEF CycleStart
<1>3. CycleStart(s) \in 0 .. Len(s)
  BY CycleStartIsAPosition
<1>4. InCycle(t, kinds) =
        InCycle(s, kinds) \cup (IF e.kind \in kinds THEN {Len(s) + 1} ELSE {})
  BY <1>1, <1>2, <1>3 DEF InCycle
<1> QED BY <1>4 DEF t

-----------------------------------------------------------------------------
(***************************************************************************)
(* The steps, by what they do to the stream and to the run.                *)
(***************************************************************************)
Grows(e) ==
  /\ e \in Entries
  /\ e.about \subseteq Positions
  /\ e.status = Target(Current, e.kind)
  /\ log' = Append(log, e)
  /\ notified' = TRUE

Moves(from, to) == run.pc \in from /\ run'.pc = to

Aside == UNCHANGED <<tick, source, used>>

(* The run goes on without a look at the stream ...                        *)
LoopMoves ==
  /\ Aside /\ UNCHANGED <<log, notified>>
  /\ run' = [run EXCEPT !.pc = run'.pc]
  /\ \/ Moves(Places \ {"none"}, "failing")
     \/ Moves({"turn", "calling", "retrying", "answered"}, "stopping")
     \/ Moves({"turn"}, "givingUp")
     \/ Moves({"answered"}, "done") /\ IsMain
     \/ Moves({"proposed", "requesting"}, "refused")
     \/ Moves({"proposed"}, "granted")
     \/ Moves({"executing"}, "turn")
     \/ Moves({"requesting"}, "done")
     \/ Moves({"failing"}, "done") /\ Current # "Running"

(* ... reads it ...                                                        *)
LoopReads ==
  /\ Aside /\ UNCHANGED <<log, notified>>
  /\ run' = [run EXCEPT !.pc = run'.pc, !.cache = Len(log)]
  /\ \/ Moves({"starting"}, "loading") /\ Admitted(Current)
     \/ Moves({"starting", "givingUp"}, "failing")
     \/ Moves({"stopping"}, "cancelling")
     \/ Moves({"stopping"}, "done") /\ Current # "Running"
     \/ Moves({"givingUp"}, "failed")

LoopLoads == LoadContext /\ Aside

(* ... or records an event.                                                *)
Writes(e, from, kind, to) == Moves(from, to) /\ e.kind = kind

LoopWrites(e) ==
  /\ Grows(e)
  /\ Aside
  /\ run' \in Runs
  /\ run'.mode = run.mode /\ run'.approval = run.approval
  /\ run'.cache = IF run.pc = "failing" THEN run.cache ELSE Len(log) + 1
  /\ run'.context \subseteq run.context \cup {Len(log) + 1}
  /\ run'.proposal = IF e.kind = "ToolProposed" THEN Len(log) + 1 ELSE run.proposal
  /\ run'.turn \in 0 .. MaxModelTurns /\ run'.attempt \in 0 .. MaxAttempts
  /\ e.kind \in ToolKinds => e.about = {run.proposal}

LoopRecords(e) ==
  /\ LoopWrites(e)
  /\ \/ Writes(e, {"turn", "answered"}, "BudgetExceeded", "done")
     \/ Writes(e, {"turn", "retrying"}, "ModelCallStarted", "calling") /\ ~ OverBudget
     \/ /\ Writes(e, {"calling"}, "ModelFailed", "retrying")
        /\ run'.attempt < MaxAttempts
     \/ Writes(e, {"calling"}, "ModelFailed", "givingUp")
     \/ Writes(e, {"calling"}, "ModelCompleted", "answered")
     \/ Writes(e, {"answered"}, "TaskCompleted", "done")
     \/ Writes(e, {"answered"}, "ToolProposed", "proposed")
     \/ Writes(e, {"proposed"}, "RequireApproval", "asking")
     \/ Writes(e, {"refused"}, "ToolDenied", "turn")
     \/ Writes(e, {"granted"}, "ToolStarted", "executing")
     \/ Writes(e, {"executing"}, "ToolFinished", "turn")
     \/ Writes(e, {"asking"}, "ApprovalRequested", "requesting")
     \/ Writes(e, {"cancelling"}, "TaskCancelled", "done")
     \/ Writes(e, {"failed"}, "TaskFailed", "failing")
     \/ Writes(e, {"failing"}, "TaskFailed", "done")

LoopEnds == Finish /\ Aside

(* What a tick does when it acts.                                          *)
Spawns ==
  /\ tick.pc = "act" /\ tick' = IdleTick
  /\ StatusAfter(tick.seen) \in {"Queued", "Running", "WaitingApproval"}
  /\ ~ IsActive
  /\ \E mode \in Modes, approval \in Nat :
       /\ run' = [NoRun EXCEPT !.pc = "starting", !.mode = mode, !.approval = approval]
       /\ mode = "resume" => approval \in About({"ApprovalSubmitted"})
       /\ mode = "initial" => approval = 0
  /\ UNCHANGED <<log, notified, source, used>>

SupervisorRecords(e) ==
  /\ Grows(e)
  /\ e.kind \in {"TaskPaused", "TaskCancelled"}
  /\ tick.pc = "act" /\ tick' = IdleTick
  /\ ~ IsActive
  /\ UNCHANGED <<run, source, used>>

Rests ==
  /\ tick.pc = "act" /\ tick' = IdleTick
  /\ Nothing(Prefix(tick.events))
  /\ UNCHANGED <<log, notified, run, source, used>>

(* What the sources do.                                                    *)
SourceKinds ==
  {"TaskQueued", "ContextReceived", "PauseRequested", "ResumeRequested",
   "TaskCancelled", "CancellationRequested", "ApprovalSubmitted", "ToolFinished"}

SamePast == used'.crashes = used.crashes /\ used'.unrecorded = used.unrecorded

SourceRecords(e) ==
  /\ Grows(e)
  /\ e.kind \in SourceKinds
  /\ e.kind = "ApprovalSubmitted" =>
       \E r \in Positions : e.about = {r} /\ log[r].kind = "ApprovalRequested"
  /\ source' \in SourceCalls /\ source'.cache \in 0 .. Len(log) + 1
  /\ SamePast /\ used' \in [Budgets -> Nat]
  /\ UNCHANGED <<run, tick>>

SourceMoves ==
  /\ source' \in SourceCalls /\ source'.cache \in 0 .. Len(log)
  /\ SamePast /\ used' \in [Budgets -> Nat]
  /\ UNCHANGED <<log, notified, run, tick>>

Restarts ==
  /\ run' = NoRun /\ tick' = IdleTick /\ source' = IdleSource /\ notified' = TRUE
  /\ used'.crashes # 0 /\ used' \in [Budgets -> Nat]
  /\ \/ log' = log
     \/ \E e : Grows(e) /\ e.kind = "TaskQueued"

(* What is lost: the end of a run, or the confirmation of a stop.          *)
Lost == used'.unrecorded # 0 /\ used' \in [Budgets -> Nat]

GivesUp ==
  /\ run.pc = "failing" /\ run' = [run EXCEPT !.pc = "done"]
  /\ Lost
  /\ UNCHANGED <<log, notified, tick, source>>

LeavesStop ==
  /\ tick.pc = "act" /\ tick' = IdleTick
  /\ StatusAfter(tick.seen) \in {"Pausing", "Cancelling"}
  /\ Lost
  /\ UNCHANGED <<log, notified, run, source>>

Steps ==
  \/ LoopMoves \/ LoopReads \/ LoopLoads \/ LoopEnds
  \/ (TickLoad \/ TickRecover \/ Spawns \/ Rests)
  \/ SourceMoves \/ Restarts \/ GivesUp \/ LeavesStop
  \/ \E e : LoopRecords(e) \/ SupervisorRecords(e) \/ SourceRecords(e)
  \/ UNCHANGED vars

(* The projection gives a status.                                          *)
LEMMA TargetIsAStatus ==
  ASSUME NEW status \in Statuses, NEW kind \in EventKinds
  PROVE  Target(status, kind) \in Statuses
<1>1. kind \in StatusKinds => Requested(kind) \in Statuses
  BY DEF StatusKinds, Requested, Statuses, LiveStatuses, TerminalStatuses
<1> QED BY <1>1 DEF Target, Statuses, LiveStatuses

(* The task has a status after every event.                                *)
LEMMA CurrentIsAStatus ==
  ASSUME Shapes
  PROVE  /\ Len(log) \in Nat /\ DOMAIN log = Positions /\ Positions = 1 .. Len(log)
         /\ \A n \in 0 .. Len(log) : StatusAfter(n) \in Statuses
         /\ Current \in Statuses
<1>1. Len(log) \in Nat /\ DOMAIN log = 1 .. Len(log) /\ \A i \in DOMAIN log : log[i] \in Entries
  BY LenProperties, ElementOfSeq DEF Shapes
<1>2. \A n \in 0 .. Len(log) : StatusAfter(n) \in Statuses
  BY <1>1 DEF StatusAfter, Entries, Statuses, LiveStatuses
<1> QED BY <1>1, <1>2 DEF Current, Positions

(* What an append does to the stream and to the notification.              *)
LEMMA Publishing ==
  ASSUME Shapes, NEW kind \in EventKinds, NEW about \in SUBSET Positions,
         NEW approved \in BOOLEAN, NEW by \in Authors,
         Publish(Event(kind, about, approved, by))
  PROVE  \E e : Grows(e) /\ e.kind = kind /\ e.about = about
<1> DEFINE e == Event(kind, about, approved, by)
<1>1. /\ e.kind = kind /\ e.about = about /\ e.status = Target(Current, kind)
      /\ e \in Entries
  <2>1. Target(Current, kind) \in Statuses /\ Positions \subseteq Nat
    BY CurrentIsAStatus, TargetIsAStatus
  <2> QED BY <2>1 DEF Event, Entries
<1>2. Grows(e)
  BY <1>1 DEF Grows, Publish
<1> QED BY <1>1, <1>2

(* What an appended event changes, and what it does not. *)
LEMMA Growth ==
  ASSUME Shapes, NEW e, Grows(e)
  PROVE  /\ log' \in Seq(Entries) /\ Len(log) \in Nat /\ Len(log') = Len(log) + 1
         /\ DOMAIN log = 1 .. Len(log) /\ DOMAIN log' = 1 .. (Len(log) + 1)
         /\ \A i \in 1 .. Len(log) : log'[i] = log[i]
         /\ log'[Len(log) + 1] = e
         /\ \A n \in 0 .. Len(log) : StatusAfter(n)' = StatusAfter(n)
         /\ Current' = e.status
         /\ \A n : n = Len(log) + 1 => StatusAfter(n)' = e.status
<1>1. /\ log' \in Seq(Entries) /\ Len(log) \in Nat /\ Len(log') = Len(log) + 1
      /\ DOMAIN log = 1 .. Len(log) /\ DOMAIN log' = 1 .. (Len(log) + 1)
      /\ \A i \in 1 .. Len(log) : log'[i] = log[i]
      /\ log'[Len(log) + 1] = e
  BY Appending DEF Shapes, Grows
<1>2. \A n \in 0 .. Len(log) : StatusAfter(n)' = StatusAfter(n)
  BY <1>1 DEF StatusAfter
<1>3. /\ Current' = e.status
      /\ \A n : n = Len(log) + 1 => StatusAfter(n)' = e.status
  BY <1>1 DEF Current, StatusAfter
<1> QED BY <1>1, <1>2, <1>3

(* A record call of the loop. *)
LEMMA Recording ==
  ASSUME Shapes, TypeOK, NEW kind \in EventKinds, NEW about \in SUBSET Positions,
         NEW next \in Runs, Record(kind, about, next), run.pc # "none",
         Aside
  PROVE  \/ LoopMoves
         \/ \E e : /\ Grows(e) /\ e.kind = kind /\ e.about = about
                   /\ run' = [next EXCEPT !.cache = Len(log) + 1]
<1>1. CASE /\ Publish(Event(kind, about, FALSE, "loop"))
           /\ run' = [next EXCEPT !.cache = Len(log')]
  <2>1. PICK e : Grows(e) /\ e.kind = kind /\ e.about = about
    BY <1>1, Publishing DEF Authors
  <2> QED BY <1>1, <2>1, Growth
<1>2. CASE run' = [run EXCEPT !.pc = "failing"] /\ UNCHANGED <<log, notified, cancelled>>
  BY <1>2 DEF LoopMoves, Moves, Shapes, Runs
<1> QED BY <1>1, <1>2 DEF Record

(* What the loop wants to go on with. *)
GoesOn(kind, about, next) ==
  /\ next \in Runs
  /\ next.mode = run.mode /\ next.approval = run.approval
  /\ next.context \subseteq run.context \cup {Len(log) + 1}
  /\ next.proposal = IF kind = "ToolProposed" THEN Len(log) + 1 ELSE run.proposal
  /\ next.turn \in 0 .. MaxModelTurns /\ next.attempt \in 0 .. MaxAttempts
  /\ kind \in ToolKinds => about = {run.proposal}

(* What a step of the run that records an event may change.                *)
LEMMA RecordingGoesOn ==
  ASSUME Shapes, TypeOK, NEW kind \in EventKinds, NEW about \in SUBSET Positions, NEW next,
         GoesOn(kind, about, next), Record(kind, about, next),
         run.pc \notin {"none", "failing"}, Aside
  PROVE  \/ LoopMoves
         \/ \E e : /\ LoopWrites(e) /\ e.kind = kind
                   /\ run'.pc = next.pc /\ run'.attempt = next.attempt
<1>1. next \in Runs
  BY DEF GoesOn
<1>2. CASE LoopMoves
  BY <1>2
<1>3. ASSUME NEW e, Grows(e), e.kind = kind, e.about = about,
             run' = [next EXCEPT !.cache = Len(log) + 1]
      PROVE  /\ LoopWrites(e) /\ run'.pc = next.pc /\ run'.attempt = next.attempt
  <2>1. Len(log) \in Nat
    BY CurrentIsAStatus
  <2>2. /\ run' \in Runs /\ run'.cache = Len(log) + 1
        /\ run'.pc = next.pc /\ run'.attempt = next.attempt /\ run'.mode = next.mode
        /\ run'.approval = next.approval /\ run'.context = next.context
        /\ run'.proposal = next.proposal /\ run'.turn = next.turn
    BY <1>1, <1>3, <2>1 DEF Runs
  <2> QED BY <1>3, <2>2 DEF LoopWrites, GoesOn
<1>4. run.pc # "none"
  OBVIOUS
<1>5. \/ LoopMoves
      \/ \E e : /\ Grows(e) /\ e.kind = kind /\ e.about = about
                /\ run' = [next EXCEPT !.cache = Len(log) + 1]
  BY <1>1, <1>4, Recording
<1> QED BY <1>3, <1>5

(* Every step of the run is one of the five kinds named above.             *)
LEMMA LoopStep ==
  ASSUME Shapes, TypeOK, RetriesAreLeft, BudgetIsChecked, ToolInHand,
         RunStep \/ RunFails, Aside
  PROVE  \/ LoopMoves \/ LoopReads \/ LoopLoads \/ LoopEnds
         \/ \E e : LoopRecords(e)
<1>0. /\ Len(log) \in Nat /\ DOMAIN log = Positions /\ Positions = 1 .. Len(log)
      /\ Current \in Statuses
  BY CurrentIsAStatus
<1>n. MaxModelTurns \in Nat \ {0} /\ MaxAttempts \in Nat
  BY RunBounds
<1>t. /\ run \in Runs
      /\ run.context \subseteq Positions /\ run.turn \in 0 .. MaxModelTurns
      /\ run.attempt \in 0 .. MaxAttempts /\ run.proposal \in {0} \cup Positions
      /\ run.pc \in WithTool => run.proposal \in Positions
      /\ run.pc = "retrying" => run.attempt < MaxAttempts
      /\ run.pc = "retrying" => ~ OverBudget
  BY DEF TypeOK, Shapes, ToolInHand, RetriesAreLeft, BudgetIsChecked
<1>k. {"BudgetExceeded", "ModelCallStarted", "ModelFailed", "ModelCompleted",
       "TaskCompleted", "ToolProposed", "RequireApproval", "ToolDenied", "ToolStarted",
       "ToolFinished", "ApprovalRequested", "TaskCancelled", "TaskFailed"}
        \subseteq EventKinds
  BY DEF EventKinds
<1> USE DEF WithTool
<1>1. CASE RecoverRuntime
  BY <1>1 DEF RecoverRuntime, LoopReads, Moves, Shapes, Runs
<1>2. CASE LoadContext
  BY <1>2 DEF LoopLoads
<1>3. CASE StopAtTurn \/ TurnLimit \/ StopAtCall \/ StopBeforeTool \/ AskSource
  BY <1>3 DEF StopAtTurn, TurnLimit, StopAtCall, StopBeforeTool, AskSource, Go,
     LoopMoves, Moves, Shapes, Runs, Places
<1>4. CASE ResolveModelFails \/ ToolFails
  BY <1>4 DEF ResolveModelFails, ToolFails, Go, LoopMoves, Moves, Places, Shapes, Runs
<1>5. CASE BudgetExceeded
  <2> DEFINE next == [run EXCEPT !.pc = "done"]
  <2>1. /\ run.pc \in {"turn", "answered"}
        /\ Record("BudgetExceeded", {}, next)
    BY <1>5 DEF BudgetExceeded
  <2>2. /\ next \in Runs
        /\ next.pc = "done" /\ next.mode = run.mode /\ next.approval = run.approval
        /\ next.context = run.context /\ next.proposal = run.proposal
        /\ next.turn = run.turn /\ next.attempt = run.attempt
    BY <1>0, <1>t DEF Runs, Places
  <2> HIDE DEF next
  <2>3. GoesOn("BudgetExceeded", {}, next)
    BY <1>0, <1>n, <1>t, <2>1, <2>2 DEF GoesOn, ToolKinds, AskingKinds
  <2>4. "BudgetExceeded" \in EventKinds /\ {} \in SUBSET Positions
    BY <1>0, <1>k, <1>t, <2>1
  <2>5. \/ LoopMoves
        \/ \E e : /\ LoopWrites(e) /\ e.kind = "BudgetExceeded"
                  /\ run'.pc = next.pc /\ run'.attempt = next.attempt
    BY <2>1, <2>3, <2>4, RecordingGoesOn
  <2> QED BY <1>t, <2>1, <2>2, <2>5 DEF LoopRecords, Writes, Moves
<1>6. CASE StartCall
  <2> DEFINE next == [run EXCEPT !.pc = "calling", !.turn = @ + 1, !.attempt = 0]
  <2>1. /\ run.pc \in {"turn"} /\ run.turn < MaxModelTurns /\ ~ OverBudget
        /\ Record("ModelCallStarted", run.context, next)
    BY <1>6 DEF StartCall
  <2>2. /\ next \in Runs
        /\ next.pc = "calling" /\ next.mode = run.mode /\ next.approval = run.approval
        /\ next.context = run.context /\ next.proposal = run.proposal
        /\ next.turn = run.turn + 1 /\ next.attempt = 0
    <3>1. run.turn + 1 \in Nat /\ "calling" \in Places
      BY <1>0, <1>t DEF Runs, Places
    <3> QED BY <1>t, <3>1 DEF Runs
  <2> HIDE DEF next
  <2>3. GoesOn("ModelCallStarted", run.context, next)
    BY <1>0, <1>n, <1>t, <2>1, <2>2 DEF GoesOn, ToolKinds, AskingKinds
  <2>4. "ModelCallStarted" \in EventKinds /\ run.context \in SUBSET Positions
    BY <1>0, <1>k, <1>t, <2>1
  <2>5. \/ LoopMoves
        \/ \E e : /\ LoopWrites(e) /\ e.kind = "ModelCallStarted"
                  /\ run'.pc = next.pc /\ run'.attempt = next.attempt
    BY <2>1, <2>3, <2>4, RecordingGoesOn
  <2> QED BY <1>t, <2>1, <2>2, <2>5 DEF LoopRecords, Writes, Moves
<1>7. CASE RetryCall
  <2> DEFINE next == [run EXCEPT !.pc = "calling", !.attempt = @ + 1]
  <2>1. /\ run.pc \in {"retrying"}
        /\ Record("ModelCallStarted", run.context, next)
    BY <1>7 DEF RetryCall
  <2>2. /\ next \in Runs
        /\ next.pc = "calling" /\ next.mode = run.mode /\ next.approval = run.approval
        /\ next.context = run.context /\ next.proposal = run.proposal
        /\ next.turn = run.turn /\ next.attempt = run.attempt + 1
    <3>1. run.attempt + 1 \in Nat /\ "calling" \in Places
      BY <1>0, <1>t DEF Runs, Places
    <3> QED BY <1>t, <3>1 DEF Runs
  <2> HIDE DEF next
  <2>3. GoesOn("ModelCallStarted", run.context, next)
    BY <1>0, <1>n, <1>t, <2>1, <2>2 DEF GoesOn, ToolKinds, AskingKinds
  <2>4. "ModelCallStarted" \in EventKinds /\ run.context \in SUBSET Positions
    BY <1>0, <1>k, <1>t, <2>1
  <2>5. \/ LoopMoves
        \/ \E e : /\ LoopWrites(e) /\ e.kind = "ModelCallStarted"
                  /\ run'.pc = next.pc /\ run'.attempt = next.attempt
    BY <2>1, <2>3, <2>4, RecordingGoesOn
  <2> QED BY <1>t, <2>1, <2>2, <2>5 DEF LoopRecords, Writes, Moves
<1>8. CASE CallFails
  <2>1. CASE /\ run.attempt < MaxAttempts
             /\ Record("ModelFailed", {}, [run EXCEPT !.pc = "retrying"])
    <3> DEFINE next == [run EXCEPT !.pc = "retrying"]
    <3>1. /\ run.pc \in {"calling"} /\ run.attempt < MaxAttempts
          /\ Record("ModelFailed", {}, next)
      BY <1>8, <2>1 DEF CallFails
    <3>2. /\ next \in Runs
          /\ next.pc = "retrying" /\ next.mode = run.mode /\ next.approval = run.approval
          /\ next.context = run.context /\ next.proposal = run.proposal
          /\ next.turn = run.turn /\ next.attempt = run.attempt
      BY <1>0, <1>t DEF Runs, Places
    <3> HIDE DEF next
    <3>3. GoesOn("ModelFailed", {}, next)
      BY <1>0, <1>n, <1>t, <3>1, <3>2 DEF GoesOn, ToolKinds, AskingKinds
    <3>4. "ModelFailed" \in EventKinds /\ {} \in SUBSET Positions
      BY <1>0, <1>k, <1>t, <3>1
    <3>5. \/ LoopMoves
          \/ \E e : /\ LoopWrites(e) /\ e.kind = "ModelFailed"
                    /\ run'.pc = next.pc /\ run'.attempt = next.attempt
      BY <3>1, <3>3, <3>4, RecordingGoesOn
    <3> QED BY <1>t, <3>1, <3>2, <3>5 DEF LoopRecords, Writes, Moves
  <2>2. CASE Record("ModelFailed", {}, [run EXCEPT !.pc = "givingUp"])
    <3> DEFINE next == [run EXCEPT !.pc = "givingUp"]
    <3>1. /\ run.pc \in {"calling"}
          /\ Record("ModelFailed", {}, next)
      BY <1>8, <2>2 DEF CallFails
    <3>2. /\ next \in Runs
          /\ next.pc = "givingUp" /\ next.mode = run.mode /\ next.approval = run.approval
          /\ next.context = run.context /\ next.proposal = run.proposal
          /\ next.turn = run.turn /\ next.attempt = run.attempt
      BY <1>0, <1>t DEF Runs, Places
    <3> HIDE DEF next
    <3>3. GoesOn("ModelFailed", {}, next)
      BY <1>0, <1>n, <1>t, <3>1, <3>2 DEF GoesOn, ToolKinds, AskingKinds
    <3>4. "ModelFailed" \in EventKinds /\ {} \in SUBSET Positions
      BY <1>0, <1>k, <1>t, <3>1
    <3>5. \/ LoopMoves
          \/ \E e : /\ LoopWrites(e) /\ e.kind = "ModelFailed"
                    /\ run'.pc = next.pc /\ run'.attempt = next.attempt
      BY <3>1, <3>3, <3>4, RecordingGoesOn
    <3> QED BY <1>t, <3>1, <3>2, <3>5 DEF LoopRecords, Writes, Moves
  <2> QED BY <1>8, <2>1, <2>2 DEF CallFails
<1>9. CASE ModelAnswers
  <2> DEFINE next == [run EXCEPT !.pc = "answered"]
  <2>1. /\ run.pc \in {"calling"}
        /\ Record("ModelCompleted", {}, next)
    BY <1>9 DEF ModelAnswers
  <2>2. /\ next \in Runs
        /\ next.pc = "answered" /\ next.mode = run.mode /\ next.approval = run.approval
        /\ next.context = run.context /\ next.proposal = run.proposal
        /\ next.turn = run.turn /\ next.attempt = run.attempt
    BY <1>0, <1>t DEF Runs, Places
  <2> HIDE DEF next
  <2>3. GoesOn("ModelCompleted", {}, next)
    BY <1>0, <1>n, <1>t, <2>1, <2>2 DEF GoesOn, ToolKinds, AskingKinds
  <2>4. "ModelCompleted" \in EventKinds /\ {} \in SUBSET Positions
    BY <1>0, <1>k, <1>t, <2>1
  <2>5. \/ LoopMoves
        \/ \E e : /\ LoopWrites(e) /\ e.kind = "ModelCompleted"
                  /\ run'.pc = next.pc /\ run'.attempt = next.attempt
    BY <2>1, <2>3, <2>4, RecordingGoesOn
  <2> QED BY <1>t, <2>1, <2>2, <2>5 DEF LoopRecords, Writes, Moves
<1>10. CASE AnswerText
  <2>1. CASE IsMain
    BY <1>10, <2>1 DEF AnswerText, Go, LoopMoves, Moves, Shapes, Runs
  <2>2. CASE ~ IsMain
    <3> DEFINE next == [run EXCEPT !.pc = "done"]
    <3>1. /\ run.pc \in {"answered"}
          /\ Record("TaskCompleted", {}, next)
      BY <1>10, <2>2 DEF AnswerText
    <3>2. /\ next \in Runs
          /\ next.pc = "done" /\ next.mode = run.mode /\ next.approval = run.approval
          /\ next.context = run.context /\ next.proposal = run.proposal
          /\ next.turn = run.turn /\ next.attempt = run.attempt
      BY <1>0, <1>t DEF Runs, Places
    <3> HIDE DEF next
    <3>3. GoesOn("TaskCompleted", {}, next)
      BY <1>0, <1>n, <1>t, <3>1, <3>2 DEF GoesOn, ToolKinds, AskingKinds
    <3>4. "TaskCompleted" \in EventKinds /\ {} \in SUBSET Positions
      BY <1>0, <1>k, <1>t, <3>1
    <3>5. \/ LoopMoves
          \/ \E e : /\ LoopWrites(e) /\ e.kind = "TaskCompleted"
                    /\ run'.pc = next.pc /\ run'.attempt = next.attempt
      BY <3>1, <3>3, <3>4, RecordingGoesOn
    <3> QED BY <1>t, <3>1, <3>2, <3>5 DEF LoopRecords, Writes, Moves
  <2> QED BY <2>1, <2>2
<1>11. CASE ProposeTool
  <2> DEFINE next == [run EXCEPT !.pc = "proposed", !.proposal = Len(log) + 1]
  <2>1. /\ run.pc \in {"answered"}
        /\ Record("ToolProposed", {}, next)
    BY <1>11 DEF ProposeTool
  <2>2. /\ next \in Runs
        /\ next.pc = "proposed" /\ next.mode = run.mode /\ next.approval = run.approval
        /\ next.context = run.context /\ next.proposal = Len(log) + 1
        /\ next.turn = run.turn /\ next.attempt = run.attempt
    <3>1. Len(log) + 1 \in Nat /\ "proposed" \in Places
      BY <1>0, <1>t DEF Runs, Places
    <3> QED BY <1>t, <3>1 DEF Runs
  <2> HIDE DEF next
  <2>3. GoesOn("ToolProposed", {}, next)
    BY <1>0, <1>n, <1>t, <2>1, <2>2 DEF GoesOn, ToolKinds, AskingKinds
  <2>4. "ToolProposed" \in EventKinds /\ {} \in SUBSET Positions
    BY <1>0, <1>k, <1>t, <2>1
  <2>5. \/ LoopMoves
        \/ \E e : /\ LoopWrites(e) /\ e.kind = "ToolProposed"
                  /\ run'.pc = next.pc /\ run'.attempt = next.attempt
    BY <2>1, <2>3, <2>4, RecordingGoesOn
  <2> QED BY <1>t, <2>1, <2>2, <2>5 DEF LoopRecords, Writes, Moves
<1>12. CASE CheckTool
  <2>1. CASE Go("refused") \/ Go("granted")
    BY <1>12, <2>1 DEF CheckTool, Go, LoopMoves, Moves, Shapes, Runs
  <2>2. CASE Record("RequireApproval", {run.proposal}, [run EXCEPT !.pc = "asking"])
    <3> DEFINE next == [run EXCEPT !.pc = "asking"]
    <3>1. /\ run.pc \in {"proposed"}
          /\ Record("RequireApproval", {run.proposal}, next)
      BY <1>12, <2>2 DEF CheckTool
    <3>2. /\ next \in Runs
          /\ next.pc = "asking" /\ next.mode = run.mode /\ next.approval = run.approval
          /\ next.context = run.context /\ next.proposal = run.proposal
          /\ next.turn = run.turn /\ next.attempt = run.attempt
      BY <1>0, <1>t DEF Runs, Places
    <3> HIDE DEF next
    <3>3. GoesOn("RequireApproval", {run.proposal}, next)
      BY <1>0, <1>n, <1>t, <3>1, <3>2 DEF GoesOn, ToolKinds, AskingKinds
    <3>4. "RequireApproval" \in EventKinds /\ {run.proposal} \in SUBSET Positions
      BY <1>0, <1>k, <1>t, <3>1
    <3>5. \/ LoopMoves
          \/ \E e : /\ LoopWrites(e) /\ e.kind = "RequireApproval"
                    /\ run'.pc = next.pc /\ run'.attempt = next.attempt
      BY <3>1, <3>3, <3>4, RecordingGoesOn
    <3> QED BY <1>t, <3>1, <3>2, <3>5 DEF LoopRecords, Writes, Moves
  <2> QED BY <1>12, <2>1, <2>2 DEF CheckTool
<1>13. CASE DenyTool
  <2> DEFINE next == [run EXCEPT !.pc = "turn"]
  <2>1. /\ run.pc \in {"refused"}
        /\ Record("ToolDenied", {run.proposal}, next)
    BY <1>13 DEF DenyTool
  <2>2. /\ next \in Runs
        /\ next.pc = "turn" /\ next.mode = run.mode /\ next.approval = run.approval
        /\ next.context = run.context /\ next.proposal = run.proposal
        /\ next.turn = run.turn /\ next.attempt = run.attempt
    BY <1>0, <1>t DEF Runs, Places
  <2> HIDE DEF next
  <2>3. GoesOn("ToolDenied", {run.proposal}, next)
    BY <1>0, <1>n, <1>t, <2>1, <2>2 DEF GoesOn, ToolKinds, AskingKinds
  <2>4. "ToolDenied" \in EventKinds /\ {run.proposal} \in SUBSET Positions
    BY <1>0, <1>k, <1>t, <2>1
  <2>5. \/ LoopMoves
        \/ \E e : /\ LoopWrites(e) /\ e.kind = "ToolDenied"
                  /\ run'.pc = next.pc /\ run'.attempt = next.attempt
    BY <2>1, <2>3, <2>4, RecordingGoesOn
  <2> QED BY <1>t, <2>1, <2>2, <2>5 DEF LoopRecords, Writes, Moves
<1>14. CASE StartTool
  <2> DEFINE next == [run EXCEPT !.pc = "executing"]
  <2>1. /\ run.pc \in {"granted"}
        /\ Record("ToolStarted", {run.proposal}, next)
    BY <1>14 DEF StartTool
  <2>2. /\ next \in Runs
        /\ next.pc = "executing" /\ next.mode = run.mode /\ next.approval = run.approval
        /\ next.context = run.context /\ next.proposal = run.proposal
        /\ next.turn = run.turn /\ next.attempt = run.attempt
    BY <1>0, <1>t DEF Runs, Places
  <2> HIDE DEF next
  <2>3. GoesOn("ToolStarted", {run.proposal}, next)
    BY <1>0, <1>n, <1>t, <2>1, <2>2 DEF GoesOn, ToolKinds, AskingKinds
  <2>4. "ToolStarted" \in EventKinds /\ {run.proposal} \in SUBSET Positions
    BY <1>0, <1>k, <1>t, <2>1
  <2>5. \/ LoopMoves
        \/ \E e : /\ LoopWrites(e) /\ e.kind = "ToolStarted"
                  /\ run'.pc = next.pc /\ run'.attempt = next.attempt
    BY <2>1, <2>3, <2>4, RecordingGoesOn
  <2> QED BY <1>t, <2>1, <2>2, <2>5 DEF LoopRecords, Writes, Moves
<1>15. CASE FinishTool
  <2> DEFINE next == [run EXCEPT !.pc = "turn", !.context = @ \cup {Len(log) + 1}]
  <2>1. /\ run.pc \in {"executing"}
        /\ Record("ToolFinished", {run.proposal}, next)
    BY <1>15 DEF FinishTool
  <2>2. /\ next \in Runs
        /\ next.pc = "turn" /\ next.mode = run.mode /\ next.approval = run.approval
        /\ next.context = run.context \cup {Len(log) + 1} /\ next.proposal = run.proposal
        /\ next.turn = run.turn /\ next.attempt = run.attempt
    <3>1. run.context \cup {Len(log) + 1} \in SUBSET Nat /\ "turn" \in Places
      BY <1>0, <1>t DEF Runs, Places
    <3> QED BY <1>t, <3>1 DEF Runs
  <2> HIDE DEF next
  <2>3. GoesOn("ToolFinished", {run.proposal}, next)
    BY <1>0, <1>n, <1>t, <2>1, <2>2 DEF GoesOn, ToolKinds, AskingKinds
  <2>4. "ToolFinished" \in EventKinds /\ {run.proposal} \in SUBSET Positions
    BY <1>0, <1>k, <1>t, <2>1
  <2>5. \/ LoopMoves
        \/ \E e : /\ LoopWrites(e) /\ e.kind = "ToolFinished"
                  /\ run'.pc = next.pc /\ run'.attempt = next.attempt
    BY <2>1, <2>3, <2>4, RecordingGoesOn
  <2> QED BY <1>t, <2>1, <2>2, <2>5 DEF LoopRecords, Writes, Moves
<1>16. CASE RequestApproval
  <2> DEFINE next == [run EXCEPT !.pc = "requesting"]
  <2>1. /\ run.pc \in {"asking"}
        /\ Record("ApprovalRequested", {run.proposal}, next)
    BY <1>16 DEF RequestApproval
  <2>2. /\ next \in Runs
        /\ next.pc = "requesting" /\ next.mode = run.mode /\ next.approval = run.approval
        /\ next.context = run.context /\ next.proposal = run.proposal
        /\ next.turn = run.turn /\ next.attempt = run.attempt
    BY <1>0, <1>t DEF Runs, Places
  <2> HIDE DEF next
  <2>3. GoesOn("ApprovalRequested", {run.proposal}, next)
    BY <1>0, <1>n, <1>t, <2>1, <2>2 DEF GoesOn, ToolKinds, AskingKinds
  <2>4. "ApprovalRequested" \in EventKinds /\ {run.proposal} \in SUBSET Positions
    BY <1>0, <1>k, <1>t, <2>1
  <2>5. \/ LoopMoves
        \/ \E e : /\ LoopWrites(e) /\ e.kind = "ApprovalRequested"
                  /\ run'.pc = next.pc /\ run'.attempt = next.attempt
    BY <2>1, <2>3, <2>4, RecordingGoesOn
  <2> QED BY <1>t, <2>1, <2>2, <2>5 DEF LoopRecords, Writes, Moves
<1>17. CASE RecordCancelled
  <2> DEFINE next == [run EXCEPT !.pc = "done"]
  <2>1. /\ run.pc \in {"cancelling"}
        /\ Record("TaskCancelled", {}, next)
    BY <1>17 DEF RecordCancelled
  <2>2. /\ next \in Runs
        /\ next.pc = "done" /\ next.mode = run.mode /\ next.approval = run.approval
        /\ next.context = run.context /\ next.proposal = run.proposal
        /\ next.turn = run.turn /\ next.attempt = run.attempt
    BY <1>0, <1>t DEF Runs, Places
  <2> HIDE DEF next
  <2>3. GoesOn("TaskCancelled", {}, next)
    BY <1>0, <1>n, <1>t, <2>1, <2>2 DEF GoesOn, ToolKinds, AskingKinds
  <2>4. "TaskCancelled" \in EventKinds /\ {} \in SUBSET Positions
    BY <1>0, <1>k, <1>t, <2>1
  <2>5. \/ LoopMoves
        \/ \E e : /\ LoopWrites(e) /\ e.kind = "TaskCancelled"
                  /\ run'.pc = next.pc /\ run'.attempt = next.attempt
    BY <2>1, <2>3, <2>4, RecordingGoesOn
  <2> QED BY <1>t, <2>1, <2>2, <2>5 DEF LoopRecords, Writes, Moves
<1>18. CASE RecordFailed
  <2> DEFINE next == [run EXCEPT !.pc = "failing"]
  <2>1. /\ run.pc \in {"failed"}
        /\ Record("TaskFailed", {}, next)
    BY <1>18 DEF RecordFailed
  <2>2. /\ next \in Runs
        /\ next.pc = "failing" /\ next.mode = run.mode /\ next.approval = run.approval
        /\ next.context = run.context /\ next.proposal = run.proposal
        /\ next.turn = run.turn /\ next.attempt = run.attempt
    BY <1>0, <1>t DEF Runs, Places
  <2> HIDE DEF next
  <2>3. GoesOn("TaskFailed", {}, next)
    BY <1>0, <1>n, <1>t, <2>1, <2>2 DEF GoesOn, ToolKinds, AskingKinds
  <2>4. "TaskFailed" \in EventKinds /\ {} \in SUBSET Positions
    BY <1>0, <1>k, <1>t, <2>1
  <2>5. \/ LoopMoves
        \/ \E e : /\ LoopWrites(e) /\ e.kind = "TaskFailed"
                  /\ run'.pc = next.pc /\ run'.attempt = next.attempt
    BY <2>1, <2>3, <2>4, RecordingGoesOn
  <2> QED BY <1>t, <2>1, <2>2, <2>5 DEF LoopRecords, Writes, Moves
<1>19. CASE RefreshForCancel \/ RefreshForFailure
  BY <1>19 DEF RefreshForCancel, RefreshForFailure, LoopReads, Moves, Shapes, Runs,
     TerminalStatuses
<1>20. CASE FailTaskIfNeeded
  <2>1. CASE Publish(Event("TaskFailed", {}, FALSE, "loop"))
    <3>1. PICK e : Grows(e) /\ e.kind = "TaskFailed"
      BY <1>k, <2>1, Publishing DEF Authors
    <3>2. run.pc = "failing" /\ run' = [run EXCEPT !.pc = "done"]
      BY <1>20 DEF FailTaskIfNeeded
    <3> QED BY <1>t, <3>1, <3>2 DEF LoopRecords, LoopWrites, Writes, Moves, Runs, Places,
               ToolKinds, AskingKinds
  <2>2. CASE /\ UNCHANGED <<log, notified>>
             /\ ~ (/\ Current \notin TerminalStatuses \cup {"Pausing", "Paused"}
                   /\ Applies(IsMain, Current, "TaskFailed"))
    <3>1. Current # "Running"
      BY <2>2 DEF Applies, Allowed, Successors, Target, Requested, StatusKinds,
         TerminalStatuses, MaskedByPausing, CycleInputKinds
    <3> QED BY <1>20, <1>t, <2>2, <3>1 DEF FailTaskIfNeeded, LoopMoves, Moves, Runs
  <2> QED BY <1>20, <2>1, <2>2 DEF FailTaskIfNeeded
<1>21. CASE Finish
  BY <1>21 DEF LoopEnds
<1> QED
  BY <1>1, <1>2, <1>3, <1>4, <1>5, <1>6, <1>7, <1>8, <1>9, <1>10, <1>11, <1>12, <1>13,
     <1>14, <1>15, <1>16, <1>17, <1>18, <1>19, <1>20, <1>21 DEF RunStep, RunFails

(* What has been read of the stream. *)
LEMMA PrefixIsRead ==
  ASSUME Shapes, NEW n \in 0 .. Len(log)
  PROVE  /\ Prefix(n) \in Seq(Entries) /\ Len(Prefix(n)) = n /\ DOMAIN Prefix(n) = 1 .. n
         /\ \A i \in 1 .. n : Prefix(n)[i] = log[i]
         /\ n = Len(log) => Prefix(n) = log
<1>1. log \in Seq(Entries) /\ Len(log) \in Nat
  BY LenProperties DEF Shapes
<1>2. /\ Prefix(n) \in Seq(Entries) /\ Len(Prefix(n)) = n
      /\ \A i \in 1 .. n : Prefix(n)[i] = log[i]
  BY <1>1, SubSeqProperties DEF Prefix
<1>3. n = Len(log) => Prefix(n) = log
  BY <1>1, SubSeqFull DEF Prefix
<1> QED BY <1>2, <1>3, LenProperties

(* The answer taken for an approval is an answer in the cycle.             *)
LEMMA AnswerIsASubmission ==
  ASSUME NEW s \in Seq(Entries), CompletedApproval(s) # 0
  PROVE  CompletedApproval(s) \in DOMAIN s /\ s[CompletedApproval(s)].kind = "ApprovalSubmitted"
<1> DEFINE request == Last(InCycle(s, {"ApprovalRequested"}))
           answers == {i \in InCycle(s, {"ApprovalSubmitted"}) :
                         i > request /\ s[i].about = {request}}
<1>1. Len(s) \in Nat /\ DOMAIN s = 1 .. Len(s) /\ CycleStart(s) \in 0 .. Len(s)
  BY LenProperties, CycleStartIsAPosition
<1>2. answers \subseteq 1 .. Len(s) /\ \A i \in answers : s[i].kind = "ApprovalSubmitted"
  BY <1>1 DEF InCycle
<1>3. CompletedApproval(s) = Last(answers)
  BY DEF CompletedApproval
<1> HIDE DEF answers
<1> QED BY <1>1, <1>2, <1>3, LastIsGreatest

(* Every step of the supervisor is one of the kinds named above.           *)
LEMMA TickStep ==
  ASSUME Shapes, TypeOK, Tick
  PROVE  \/ TickLoad \/ TickRecover \/ Spawns \/ Rests
         \/ \E e : SupervisorRecords(e)
<1>1. Len(log) \in Nat /\ DOMAIN log = Positions /\ Positions = 1 .. Len(log)
  BY CurrentIsAStatus
<1>2. tick.events \in 0 .. Len(log)
  BY <1>1 DEF TypeOK
<1> DEFINE events == Prefix(tick.events)
<1>3. ASSUME TickAct PROVE Spawns \/ Rests \/ \E e : SupervisorRecords(e)
  <2>1. tick.pc = "act" /\ tick' = IdleTick /\ UNCHANGED <<source, used>>
    BY <1>3 DEF TickAct
  <2>2. CASE StartQueued(events) \/ ContinueMain(events)
    BY <2>1, <2>2 DEF StartQueued, ContinueMain, Spawn, Spawns, Modes
  <2>3. CASE ResumeApproved(events)
    <3>1. CompletedApproval(events) \in About({"ApprovalSubmitted"})
      <4>1. /\ events \in Seq(Entries) /\ DOMAIN events = 1 .. tick.events
            /\ \A i \in 1 .. tick.events : events[i] = log[i]
        BY <1>2, PrefixIsRead
      <4>2. CompletedApproval(events) # 0
        BY <2>3 DEF ResumeApproved
      <4> HIDE DEF events
      <4>3. CompletedApproval(events) \in DOMAIN events
            /\ events[CompletedApproval(events)].kind = "ApprovalSubmitted"
        BY <4>1, <4>2, AnswerIsASubmission
      <4> QED BY <1>1, <1>2, <4>1, <4>3 DEF About
    <3>2. CompletedApproval(events) \in Nat
      BY <1>1, <3>1 DEF About
    <3> QED BY <2>1, <2>3, <3>1, <3>2 DEF ResumeApproved, Spawn, Spawns, Modes
  <2>4. CASE FinishPausing(events) \/ FinishCancelling
    <3>1. PICK kind \in {"TaskPaused", "TaskCancelled"} :
            Publish(Event(kind, {}, FALSE, "supervisor"))
      BY <2>4 DEF FinishPausing, FinishCancelling
    <3>2. kind \in EventKinds
      BY DEF EventKinds
    <3>3. PICK e : Grows(e) /\ e.kind = kind
      BY <3>1, <3>2, Publishing DEF Authors
    <3>4. ~ IsActive /\ UNCHANGED run
      BY <2>4 DEF FinishPausing, FinishCancelling
    <3> QED BY <2>1, <3>3, <3>4 DEF SupervisorRecords
  <2>5. CASE Nothing(events) /\ UNCHANGED <<log, notified, run, cancelled>>
    BY <2>1, <2>5 DEF Rests
  <2> QED BY <1>3, <2>2, <2>3, <2>4, <2>5 DEF TickAct, Dispatch
<1> QED BY <1>3 DEF Tick

(* Every step of a source is one of the two kinds named above.             *)
LEMMA SourceStep ==
  ASSUME Shapes, TypeOK,
         \/ Register \/ ReceiveInput \/ DeliverChildResult
         \/ \E kind \in Controls : Control(kind)
         \/ \E request \in DOMAIN log, approved \in BOOLEAN : SubmitApproval(request, approved)
  PROVE  SourceMoves \/ \E e : SourceRecords(e)
<1>1. Len(log) \in Nat /\ DOMAIN log = Positions /\ Positions = 1 .. Len(log)
  BY CurrentIsAStatus
<1>2. /\ source \in SourceCalls /\ source.cache \in 0 .. Len(log)
      /\ used \in [Budgets -> Nat]
      /\ IdleSource \in SourceCalls /\ IdleSource.cache \in 0 .. Len(log)
  BY <1>1 DEF Shapes, TypeOK, SourceCalls, IdleSource
<1>3. /\ \A kind \in SourceKinds : kind \in EventKinds
      /\ \A kind \in Controls : kind \in SourceKinds /\ kind # "ApprovalSubmitted"
  <2>1. \A kind \in SourceKinds : kind \in EventKinds
    BY DEF SourceKinds, EventKinds, CycleInputKinds
  <2>2. \A kind \in Controls : kind \in SourceKinds /\ kind # "ApprovalSubmitted"
    BY ControlsAreRequests DEF SourceKinds
  <2> QED BY <2>1, <2>2
<1>4. \A bound \in Budgets \ {"crashes", "unrecorded"} : Count(bound) =>
        SamePast /\ used' \in [Budgets -> Nat]
  BY DEF Count, Shapes, Budgets, SamePast
<1>5. CASE ReceiveInput \/ RefuseInput
  BY <1>1, <1>2, <1>4, <1>5 DEF ReceiveInput, RefuseInput, SourceMoves, SamePast, SourceCalls,
     Budgets
<1>6. CASE StartNewCycle
  <2>1. CASE Publish(Event("TaskQueued", {}, FALSE, "source"))
             /\ source' = [pc |-> "opened", cache |-> Len(log')]
    <3>1. PICK e : Grows(e) /\ e.kind = "TaskQueued"
      BY <1>3, <2>1, Publishing DEF Authors, SourceKinds
    <3>2. Len(log') = Len(log) + 1
      BY <3>1, Growth
    <3> QED BY <1>1, <1>2, <1>6, <2>1, <3>1, <3>2 DEF StartNewCycle, SourceRecords, SamePast, SourceCalls, SourceKinds
  <2>2. CASE source' = IdleSource /\ UNCHANGED <<log, notified>>
    BY <1>2, <1>6, <2>2 DEF StartNewCycle, SourceMoves, SamePast
  <2> QED BY <1>6, <2>1, <2>2 DEF StartNewCycle
<1>7. CASE RecordInput
  <2>1. PICK e : Grows(e) /\ e.kind = "ContextReceived"
    BY <1>3, <1>7, Publishing DEF RecordInput, Authors, SourceKinds
  <2> QED BY <1>1, <1>2, <1>7, <2>1 DEF RecordInput, SourceRecords, SamePast, SourceKinds
<1>8. CASE \E kind \in Controls : Control(kind)
  <2>1. PICK kind \in Controls : Control(kind)
    BY <1>8
  <2>2. PICK e : Grows(e) /\ e.kind = kind
    BY <1>3, <2>1, Publishing DEF Control, Authors
  <2>3. kind # "ApprovalSubmitted" /\ kind \in SourceKinds
    BY <1>3
  <2> QED BY <1>1, <1>2, <1>4, <2>1, <2>2, <2>3 DEF Control, SourceRecords, Budgets
<1>9. CASE \E request \in DOMAIN log, approved \in BOOLEAN : SubmitApproval(request, approved)
  <2>1. PICK request \in DOMAIN log, approved \in BOOLEAN : SubmitApproval(request, approved)
    BY <1>9
  <2>2. PICK e : Grows(e) /\ e.kind = "ApprovalSubmitted" /\ e.about = {request}
    BY <1>1, <1>3, <2>1, Publishing DEF SubmitApproval, Authors, SourceKinds
  <2>3. /\ SamePast /\ used' \in [Budgets -> Nat] /\ UNCHANGED <<run, tick, source>>
        /\ log[request].kind = "ApprovalRequested"
    BY <1>4, <2>1 DEF SubmitApproval, Budgets
  <2> QED BY <1>1, <1>2, <2>2, <2>3 DEF SourceRecords, SourceKinds
<1>10. CASE DeliverChildResult
  <2>1. PICK e : Grows(e) /\ e.kind = "ToolFinished"
    BY <1>3, <1>10, Publishing DEF DeliverChildResult, Authors, SourceKinds
  <2> QED BY <1>1, <1>2, <1>4, <1>10, <2>1 DEF DeliverChildResult, SourceRecords, SourceKinds, Budgets
<1> QED BY <1>5, <1>6, <1>7, <1>8, <1>9, <1>10 DEF Register

(* Every step of the system is one of the kinds named above.               *)
LEMMA StepIsOneOf ==
  ASSUME IInv, [Next]_vars
  PROVE  Steps
<1> USE DEF IInv, Steps
<1>1. CASE Tick
  BY <1>1, TickStep
<1>2. CASE Run \/ Failure
  <2>1. (RunStep \/ RunFails) /\ Aside
    BY <1>2 DEF Run, Failure, Aside
  <2> QED BY <2>1, LoopStep
<1>3. CASE Crash
  <2>1. CASE log' = Append(log, Event("TaskQueued", {}, FALSE, "system"))
    <3>1. Publish(Event("TaskQueued", {}, FALSE, "system"))
      BY <1>3, <2>1 DEF Crash, Publish
    <3>2. PICK e : Grows(e) /\ e.kind = "TaskQueued"
      BY <3>1, Publishing DEF Authors, EventKinds
    <3>3. used'.crashes # 0 /\ used' \in [Budgets -> Nat]
      BY <1>3 DEF Crash, Count, Shapes, Budgets
    <3> QED BY <1>3, <3>2, <3>3 DEF Crash, Restarts
  <2>2. CASE log' = log
    <3>1. used'.crashes # 0 /\ used' \in [Budgets -> Nat]
      BY <1>3 DEF Crash, Count, Shapes, Budgets
    <3> QED BY <1>3, <2>2, <3>1 DEF Crash, Restarts
  <2> QED BY <1>3, <2>1, <2>2 DEF Crash
<1>4. CASE Register \/ (Environment /\ ~ Crash)
  BY <1>4, SourceStep DEF Environment
<1>5. CASE Unrecorded
  <2>1. Lost /\ UNCHANGED source
    BY <1>5 DEF Unrecorded, Count, Lost, Shapes, Budgets
  <2>2. CASE FailureUnrecorded /\ UNCHANGED tick
    BY <2>1, <2>2 DEF FailureUnrecorded, Go, GivesUp
  <2>3. CASE ConfirmationUnrecorded
    BY <2>1, <2>3 DEF ConfirmationUnrecorded, LeavesStop
  <2> QED BY <1>5, <2>2, <2>3 DEF Unrecorded
<1> QED BY <1>1, <1>2, <1>3, <1>4, <1>5 DEF Next

-----------------------------------------------------------------------------
(***************************************************************************)
(* Types.                                                                  *)
(***************************************************************************)
LEMMA LogOnlyGrows ==
  ASSUME Shapes, Steps
  PROVE  /\ log' = log \/ \E e : Grows(e)
         /\ log' \in Seq(Entries) /\ Len(log) \in Nat /\ Len(log') \in Nat
         /\ Len(log) <= Len(log') /\ Len(log') > 0
         /\ DOMAIN log = 1 .. Len(log) /\ DOMAIN log' = 1 .. Len(log')
         /\ \A i \in 1 .. Len(log) : log'[i] = log[i]
         /\ \A n \in 0 .. Len(log) : StatusAfter(n)' = StatusAfter(n)
         /\ \A n : log' = log => StatusAfter(n)' = StatusAfter(n)
         /\ log' = log => Current' = Current
<1>1. log' = log \/ \E e : Grows(e)
  BY DEF Steps, LoopMoves, LoopReads, LoopLoads, LoadContext, LoopEnds, Finish, TickLoad,
     TickRecover, Spawns, Rests, SourceMoves, Restarts, GivesUp, LeavesStop,
     LoopRecords, LoopWrites, SupervisorRecords, SourceRecords, vars
<1>2. log \in Seq(Entries) /\ Len(log) \in Nat /\ Len(log) > 0 /\ DOMAIN log = 1 .. Len(log)
  BY LenProperties DEF Shapes
<1>3. CASE log' = log
  BY <1>2, <1>3 DEF StatusAfter, Current
<1>4. CASE \E e : Grows(e)
  <2>1. PICK e : Grows(e)
    BY <1>4
  <2>2. \A n : log' = log => StatusAfter(n)' = StatusAfter(n)
    BY DEF StatusAfter
  <2>3. log' = log => Current' = Current
    BY DEF StatusAfter, Current
  <2> QED BY <1>1, <1>2, <2>1, <2>2, <2>3, Growth
<1> QED BY <1>1, <1>3, <1>4

(* The stream stays a sequence of events.                                  *)
LEMMA LogTypeKept ==
  ASSUME Shapes, TypeOK, Steps
  PROVE  \A i \in DOMAIN log' :
           /\ log'[i].kind \in EventKinds
           /\ log'[i].about \subseteq 1 .. (i - 1)
           /\ log'[i].status \in Statuses
<1>1. \A i \in 1 .. Len(log) : log[i].about \subseteq 1 .. (i - 1)
  BY LogOnlyGrows DEF TypeOK
<1>2. \A i \in DOMAIN log' : log'[i] \in Entries
  BY LogOnlyGrows, ElementOfSeq
<1>3. \A i \in DOMAIN log' : log'[i].about \subseteq 1 .. (i - 1)
  <2>1. CASE log' = log
    BY <1>1, <2>1, LogOnlyGrows
  <2>2. ASSUME NEW e, Grows(e) PROVE \A i \in DOMAIN log' : log'[i].about \subseteq 1 .. (i - 1)
    <3>1. e.about \subseteq 1 .. Len(log)
      BY <2>2 DEF Grows, Positions
    <3> QED BY <1>1, <2>2, <3>1, Growth
  <2> QED BY <2>1, <2>2, LogOnlyGrows
<1> QED BY <1>2, <1>3 DEF Entries

(* The run keeps the type of its state.                                    *)
LEMMA RunTypeKept ==
  ASSUME IInv, Steps
  PROVE  /\ run' \in Runs /\ (RetriesAreLeft)'
         /\ run'.cache \in 0 .. Len(log') /\ run'.context \subseteq 1 .. Len(log')
         /\ {run'.approval, run'.proposal} \subseteq 0 .. Len(log')
         /\ run'.turn \in 0 .. MaxModelTurns /\ run'.attempt \in 0 .. MaxAttempts
<1>0. /\ Len(log) \in Nat /\ Len(log') \in Nat /\ Len(log) <= Len(log')
      /\ DOMAIN log = 1 .. Len(log)
  BY LogOnlyGrows DEF IInv
<1>b. MaxModelTurns \in Nat /\ MaxAttempts \in Nat
  BY RunBounds
<1>t. /\ run \in Runs
      /\ run.cache \in 0 .. Len(log) /\ run.context \subseteq 1 .. Len(log)
      /\ {run.approval, run.proposal} \subseteq 0 .. Len(log)
      /\ run.turn \in 0 .. MaxModelTurns /\ run.attempt \in 0 .. MaxAttempts
      /\ run.pc = "retrying" => run.attempt < MaxAttempts
  BY <1>0 DEF IInv, Shapes, TypeOK, RetriesAreLeft, Positions
<1>n. /\ NoRun \in Runs /\ NoRun.pc = "none" /\ NoRun.cache = 0 /\ NoRun.context = {}
      /\ NoRun.approval = 0 /\ NoRun.proposal = 0 /\ NoRun.turn = 0 /\ NoRun.attempt = 0
  BY DEF NoRun, Runs, Places, Modes
<1>1. CASE LoopMoves
  <2>1. run'.pc \in Places \ {"retrying"} /\ run' = [run EXCEPT !.pc = run'.pc]
    BY <1>1 DEF LoopMoves, Moves, Places
  <2> QED BY <1>0, <1>t, <2>1 DEF Runs, RetriesAreLeft
<1>2. CASE LoopReads
  <2>1. /\ run'.pc \in Places \ {"retrying"}
        /\ run' = [run EXCEPT !.pc = run'.pc, !.cache = Len(log)]
    BY <1>2 DEF LoopReads, Moves, Places
  <2>2. /\ run' \in Runs /\ run'.cache = Len(log) /\ run'.context = run.context
        /\ run'.approval = run.approval /\ run'.proposal = run.proposal
        /\ run'.turn = run.turn /\ run'.attempt = run.attempt
    BY <1>0, <1>t, <2>1 DEF Runs
  <2> QED BY <1>0, <1>t, <2>1, <2>2 DEF RetriesAreLeft
<1>3. CASE LoopLoads
  <2>1. Visible \subseteq 1 .. Len(log)
    BY <1>0 DEF Visible
  <2>2. CASE run' = [run EXCEPT !.context = Visible, !.pc = "turn"]
    <3>1. Visible \in SUBSET Nat /\ "turn" \in Places
      BY <1>0, <2>1 DEF Places
    <3>2. /\ run' \in Runs /\ run'.pc = "turn" /\ run'.cache = run.cache
          /\ run'.context = Visible /\ run'.approval = run.approval
          /\ run'.proposal = run.proposal
          /\ run'.turn = run.turn /\ run'.attempt = run.attempt
      BY <1>t, <2>2, <3>1 DEF Runs
    <3> QED BY <1>0, <1>t, <2>1, <3>2 DEF RetriesAreLeft
  <2>3. CASE run' = [run EXCEPT !.pc = "failing"]
    BY <1>0, <1>t, <2>3 DEF Runs, RetriesAreLeft, Places
  <2>4. CASE /\ run.mode = "resume"
             /\ \E request \in log[run.approval].about :
                \E proposal \in log[request].about :
                \E verdict \in {Answer(run.approval), "refused"} :
                  run' = [run EXCEPT !.context = Visible,
                                     !.proposal = proposal,
                                     !.pc = verdict]
    <3>1. PICK request \in log[run.approval].about :
          \E proposal \in log[request].about :
          \E verdict \in {Answer(run.approval), "refused"} :
             run' = [run EXCEPT !.context = Visible, !.proposal = proposal, !.pc = verdict]
      BY <2>4
    <3>2. PICK proposal \in log[request].about, verdict \in {"granted", "refused"} :
             run' = [run EXCEPT !.context = Visible, !.proposal = proposal, !.pc = verdict]
      BY <3>1 DEF Answer
    <3>3. proposal \in 1 .. Len(log)
      <4>1. run.approval \in DOMAIN log
        BY <2>4 DEF IInv, ToolInHand, About
      <4>2. request \in DOMAIN log
        BY <1>0, <4>1 DEF IInv, TypeOK
      <4> QED BY <1>0, <4>2 DEF IInv, TypeOK
    <3>4. verdict \in Places \ {"retrying"}
      BY DEF Places
    <3>5. Visible \in SUBSET Nat /\ proposal \in Nat
      BY <1>0, <2>1, <3>3
    <3>6. /\ run' \in Runs /\ run'.pc = verdict /\ run'.cache = run.cache
          /\ run'.context = Visible /\ run'.approval = run.approval
          /\ run'.proposal = proposal
          /\ run'.turn = run.turn /\ run'.attempt = run.attempt
      BY <1>t, <3>2, <3>4, <3>5 DEF Runs
    <3> QED BY <1>0, <1>t, <2>1, <3>3, <3>4, <3>6 DEF RetriesAreLeft
  <2> QED BY <1>3, <2>2, <2>3, <2>4 DEF LoopLoads, LoadContext
<1>4. CASE LoopEnds \/ Restarts
  BY <1>0, <1>b, <1>n, <1>4 DEF LoopEnds, Finish, Restarts, RetriesAreLeft
<1>5. CASE \E e : LoopRecords(e)
  <2>1. PICK e : LoopRecords(e)
    BY <1>5
  <2>2. Len(log') = Len(log) + 1
    BY <2>1, Growth DEF LoopRecords, LoopWrites, IInv
  <2>3. run'.pc = "retrying" => run'.attempt < MaxAttempts
    BY <2>1 DEF LoopRecords, Writes, Moves
  <2> QED BY <1>0, <1>t, <2>1, <2>2, <2>3 DEF LoopRecords, LoopWrites, RetriesAreLeft, Runs
<1>6. CASE Spawns
  <2>1. PICK mode \in Modes, approval \in Nat :
          /\ run' = [NoRun EXCEPT !.pc = "starting", !.mode = mode, !.approval = approval]
          /\ mode = "resume" => approval \in About({"ApprovalSubmitted"})
          /\ mode = "initial" => approval = 0
    BY <1>6 DEF Spawns
  <2>2. approval \in 0 .. Len(log)
    BY <1>0, <2>1 DEF About, Modes
  <2>3. "starting" \in Places
    BY DEF Places
  <2>4. /\ run' \in Runs /\ run'.pc = "starting" /\ run'.cache = 0 /\ run'.context = {}
        /\ run'.approval = approval /\ run'.proposal = 0
        /\ run'.turn = 0 /\ run'.attempt = 0
    BY <1>n, <2>1, <2>3 DEF Runs
  <2> QED BY <1>0, <1>b, <2>2, <2>4 DEF RetriesAreLeft
<1>7. CASE UNCHANGED run
  BY <1>0, <1>t, <1>7 DEF RetriesAreLeft
<1>8. CASE GivesUp
  BY <1>0, <1>t, <1>8 DEF GivesUp, RetriesAreLeft, Runs, Places
<1> QED BY <1>1, <1>2, <1>3, <1>4, <1>5, <1>6, <1>7, <1>8 DEF Steps, TickLoad, TickRecover,
           Rests, SourceMoves, LeavesStop, SupervisorRecords, SourceRecords, vars

(* The supervisor and the sources keep the types of their state.           *)
LEMMA OthersTypeKept ==
  ASSUME IInv, Steps
  PROVE  /\ tick' \in Ticks /\ {tick'.events, tick'.seen} \subseteq 0 .. Len(log')
         /\ source' \in SourceCalls /\ source'.cache \in 0 .. Len(log')
         /\ used' \in [Budgets -> Nat] /\ notified' \in BOOLEAN
<1>0. /\ Len(log) \in Nat /\ Len(log') \in Nat /\ Len(log) <= Len(log')
      /\ DOMAIN log = 1 .. Len(log)
  BY LogOnlyGrows DEF IInv
<1>t. /\ tick \in Ticks /\ {tick.events, tick.seen} \subseteq 0 .. Len(log)
      /\ source \in SourceCalls /\ source.cache \in 0 .. Len(log)
      /\ used \in [Budgets -> Nat] /\ notified \in BOOLEAN
  BY <1>0 DEF IInv, Shapes, TypeOK, Positions
<1>n. /\ IdleTick \in Ticks /\ IdleTick.events = 0 /\ IdleTick.seen = 0
      /\ IdleSource \in SourceCalls /\ IdleSource.cache = 0
  BY DEF IdleTick, Ticks, IdleSource, SourceCalls
<1>1. CASE LoopMoves \/ LoopReads \/ LoopLoads \/ LoopEnds
  BY <1>0, <1>t, <1>1 DEF LoopMoves, LoopReads, LoopLoads, LoadContext, LoopEnds, Finish, Aside
<1>2. CASE TickLoad
  <2>1. /\ tick' = [pc |-> "recover", events |-> Len(log), seen |-> 0]
        /\ notified' = FALSE /\ UNCHANGED <<source, used>>
    BY <1>2 DEF TickLoad
  <2>2. tick' \in Ticks /\ tick'.events = Len(log) /\ tick'.seen = 0
    BY <1>0, <2>1 DEF Ticks
  <2>3. /\ notified' \in BOOLEAN /\ source' = source /\ used' = used
    BY <2>1
  <2>4. 0 \in 0 .. Len(log') /\ Len(log) \in 0 .. Len(log') /\ source.cache \in 0 .. Len(log')
    BY <1>0, <1>t
  <2> QED BY <1>t, <2>2, <2>3, <2>4
<1>3. CASE TickRecover
  <2>1. /\ tick' = [tick EXCEPT !.pc = "act", !.seen = Len(log)]
        /\ UNCHANGED <<notified, source, used>>
    BY <1>3 DEF TickRecover
  <2>2. tick' \in Ticks /\ tick'.events = tick.events /\ tick'.seen = Len(log)
    BY <1>0, <1>t, <2>1 DEF Ticks
  <2> QED BY <1>0, <1>t, <2>1, <2>2
<1>4. CASE Spawns \/ Rests
  <2>1. tick' = IdleTick /\ UNCHANGED <<notified, source, used>>
    BY <1>4 DEF Spawns, Rests
  <2> QED BY <1>0, <1>t, <1>n, <2>1
<1>5. CASE SourceMoves
  BY <1>0, <1>t, <1>5 DEF SourceMoves
<1>6. CASE Restarts
  BY <1>0, <1>n, <1>6 DEF Restarts
<1>7. ASSUME NEW e, LoopRecords(e) \/ SupervisorRecords(e) \/ SourceRecords(e)
      PROVE  /\ tick' \in Ticks /\ {tick'.events, tick'.seen} \subseteq 0 .. Len(log')
             /\ source' \in SourceCalls /\ source'.cache \in 0 .. Len(log')
             /\ used' \in [Budgets -> Nat] /\ notified' \in BOOLEAN
  <2>1. Grows(e)
    BY <1>7 DEF LoopRecords, LoopWrites, SupervisorRecords, SourceRecords
  <2>2. Len(log') = Len(log) + 1
    BY <2>1, Growth DEF IInv
  <2> QED BY <1>0, <1>t, <1>n, <1>7, <2>1, <2>2 DEF LoopRecords, LoopWrites,
             SupervisorRecords, SourceRecords, Grows, Aside
<1>8. CASE UNCHANGED vars
  BY <1>0, <1>t, <1>8 DEF vars
<1>9. CASE GivesUp \/ LeavesStop
  BY <1>0, <1>t, <1>n, <1>9 DEF GivesUp, LeavesStop, Lost
<1> QED BY <1>1, <1>2, <1>3, <1>4, <1>5, <1>6, <1>7, <1>8, <1>9 DEF Steps

(* A cancelled token belongs to a run.                                     *)
LEMMA TokenTypeKept ==
  ASSUME cancelled \in BOOLEAN, [Next]_vars
  PROVE  cancelled' \in BOOLEAN
<1>1. CASE Tick
  BY <1>1 DEF Tick, TickLoad, TickRecover, TickAct, Dispatch, StartQueued, ContinueMain,
     ResumeApproved, Spawn, FinishPausing, FinishCancelling
<1>2. CASE Run \/ Failure
  BY <1>2 DEF Run, Failure, RunStep, RunFails, RecoverRuntime, LoadContext, StopAtTurn,
     TurnLimit, BudgetExceeded, StartCall, RetryCall, StopAtCall, ModelAnswers,
     AnswerText, ProposeTool, StopBeforeTool, CheckTool, DenyTool, StartTool,
     FinishTool, RequestApproval, AskSource, RefreshForCancel, RecordCancelled,
     RefreshForFailure, RecordFailed, FailTaskIfNeeded, Finish, ResolveModelFails,
     CallFails, ToolFails, Record, Go
<1>3. CASE Register \/ Environment
  BY <1>3 DEF Register, Environment, StartNewCycle, RecordInput, RefuseInput, ReceiveInput,
     Control, SubmitApproval, DeliverChildResult, Crash
<1>4. CASE UNCHANGED vars
  BY <1>4 DEF vars
<1>5. CASE Unrecorded
  BY <1>5 DEF Unrecorded, FailureUnrecorded, ConfirmationUnrecorded, Go
<1> QED BY <1>1, <1>2, <1>3, <1>4, <1>5 DEF Next

(* Every variable keeps its type.                                          *)
LEMMA TypesKept ==
  ASSUME IInv, Steps, cancelled' \in BOOLEAN
  PROVE  Shapes' /\ TypeOK' /\ RetriesAreLeft'
<1>0. /\ log' \in Seq(Entries) /\ Len(log') \in Nat /\ Len(log') > 0
      /\ DOMAIN log' = 1 .. Len(log')
  BY LogOnlyGrows DEF IInv
<1>1. \A i \in DOMAIN log' :
        /\ log'[i].kind \in EventKinds
        /\ log'[i].about \subseteq 1 .. (i - 1)
        /\ log'[i].status \in Statuses
  BY LogTypeKept DEF IInv
<1>2. Shapes' /\ RetriesAreLeft'
  BY <1>0, RunTypeKept, OthersTypeKept DEF Shapes
<1>3. TypeOK'
  <2>1. run'.pc \in Places /\ run'.mode \in Modes
    BY RunTypeKept DEF Runs
  <2>2. tick'.pc \in {"idle", "recover", "act"} /\ source'.pc \in {"idle", "registering", "opened"}
    BY OthersTypeKept DEF Ticks, SourceCalls
  <2> QED BY <1>0, <1>1, <2>1, <2>2, RunTypeKept, OthersTypeKept DEF TypeOK, Positions, Places
<1> QED BY <1>2, <1>3

-----------------------------------------------------------------------------
(***************************************************************************)
(* The status.                                                             *)
(***************************************************************************)
ClosingKinds ==
  {"BudgetExceeded", "TaskCompleted", "TaskCancelled", "TaskFailed"} \cup AskingKinds

(* Which status an event of a given kind can lead to.                      *)
LEMMA WhereAnEventLeads ==
  ASSUME NEW status \in Statuses, NEW kind
  PROVE  LET next == Target(status, kind) IN
         /\ next = "Paused" => kind = "TaskPaused" \/ status = "Paused"
         /\ next = "Pausing" => kind = "PauseRequested" \/ status = "Pausing"
         /\ next = "WaitingApproval" => kind \in AskingKinds \/ status = "WaitingApproval"
         /\ next = "Running" =>
              kind \in {"TaskResumed", "ModelCallStarted", "ToolStarted"} \/ status = "Running"
         /\ kind = "ToolStarted" => next \in {"Running", "Pausing"}
         /\ kind \in CycleBoundaries => next = "Queued"
         /\ kind \in ClosingKinds => next # "Running"
<1>1. "TaskPaused" \notin MaskedByPausing /\ "TaskCancelled" \notin MaskedByPausing
      /\ CycleBoundaries \cap MaskedByPausing = {}
      /\ ClosingKinds \cap CycleInputKinds = {} /\ CycleBoundaries \cap CycleInputKinds = {}
      /\ ClosingKinds \subseteq StatusKinds /\ CycleBoundaries \subseteq StatusKinds
  BY DEF MaskedByPausing, ClosingKinds, CycleBoundaries, CycleInputKinds, StatusKinds,
     AskingKinds
<1>2. kind \in StatusKinds =>
        /\ Requested(kind) = "Paused" => kind = "TaskPaused"
        /\ Requested(kind) = "Pausing" => kind = "PauseRequested"
        /\ Requested(kind) = "WaitingApproval" => kind \in AskingKinds
        /\ Requested(kind) = "Running" =>
             kind \in {"TaskResumed", "ModelCallStarted", "ToolStarted"}
        /\ kind = "ToolStarted" => Requested(kind) = "Running"
        /\ kind \in CycleBoundaries => Requested(kind) = "Queued"
        /\ kind \in ClosingKinds => Requested(kind) # "Running"
  BY DEF Requested, StatusKinds, AskingKinds, CycleBoundaries, ClosingKinds
<1>3. "ToolStarted" \in StatusKinds /\ "ToolStarted" \notin CycleInputKinds
  BY DEF StatusKinds, CycleInputKinds
<1> QED BY <1>1, <1>2, <1>3 DEF Target

(* The status after an append is what the event appended gives.            *)
LEMMA StatusOfAnAppend ==
  ASSUME IInv, NEW e, Grows(e)
  PROVE  Current' = Target(Current, e.kind) /\ Current \in Statuses
BY Growth, CurrentIsAStatus DEF IInv, Grows

(* An append adds a link to the chain of statuses.                         *)
LEMMA ChainedKept ==
  ASSUME IInv, Steps
  PROVE  Chained' /\ WaitingWasAsked'
<1>1. CASE log' = log
  BY <1>1, LogOnlyGrows DEF IInv, Chained, WaitingWasAsked, StatusAfter
<1>2. ASSUME NEW e, Grows(e) PROVE Chained' /\ WaitingWasAsked'
  <2>1. /\ Len(log) \in Nat /\ Len(log') = Len(log) + 1 /\ Len(log) > 0
        /\ DOMAIN log = 1 .. Len(log) /\ DOMAIN log' = 1 .. (Len(log) + 1)
        /\ \A i \in 1 .. Len(log) : log'[i] = log[i]
        /\ log'[Len(log) + 1] = e
        /\ \A n \in 0 .. Len(log) : StatusAfter(n)' = StatusAfter(n)
        /\ Current = StatusAfter(Len(log)) /\ Current = log[Len(log)].status
    BY <1>2, Growth DEF IInv, Shapes, Current, StatusAfter
  <2>2. e.status = Target(Current, e.kind) /\ Current \in Statuses
    BY <1>2, CurrentIsAStatus DEF Grows, IInv
  <2>3. Chained'
    <3>1. \A i \in 1 .. Len(log) + 1 : log'[i].status = Target(StatusAfter(i - 1)', log'[i].kind)
      <4>1. \A i \in 1 .. Len(log) : log[i].status = Target(StatusAfter(i - 1), log[i].kind)
        BY <2>1 DEF IInv, Chained
      <4>2. ASSUME NEW i \in 1 .. Len(log) + 1
            PROVE  i - 1 \in 0 .. Len(log) /\ (i # Len(log) + 1 => i \in 1 .. Len(log))
        BY <2>1
      <4>3. ASSUME NEW i \in 1 .. Len(log) + 1
            PROVE  log'[i].status = Target(StatusAfter(i - 1)', log'[i].kind)
        <5>1. StatusAfter(i - 1)' = StatusAfter(i - 1)
          BY <2>1, <4>2
        <5>2. CASE i = Len(log) + 1
          <6>1. i - 1 = Len(log)
            BY <2>1, <5>2
          <6> QED BY <2>1, <2>2, <5>1, <5>2, <6>1
        <5>3. CASE i # Len(log) + 1
          BY <2>1, <4>1, <4>2, <5>1, <5>3
        <5> QED BY <5>2, <5>3
      <4> QED BY <4>3
    <3> QED BY <2>1, <3>1 DEF Chained
  <2>4. WaitingWasAsked'
    <3> SUFFICES ASSUME NEW n \in 1 .. Len(log) + 1, NEW i \in 1 .. (n - 1),
                        log'[n].status = "WaitingApproval", log'[i].status # "WaitingApproval"
                 PROVE  \E k \in (i + 1) .. n : log'[k].kind \in AskingKinds
      BY <2>1 DEF WaitingWasAsked
    <3>1. CASE n = Len(log) + 1 /\ e.kind \in AskingKinds
      BY <2>1, <3>1
    <3>2. CASE n = Len(log) + 1 /\ e.kind \notin AskingKinds
      <4>1. Current = "WaitingApproval"
        BY <2>1, <2>2, <3>2, WhereAnEventLeads
      <4>2. i \in 1 .. (Len(log) - 1) /\ log[i].status # "WaitingApproval"
        <5>1. i \in 1 .. Len(log)
          BY <2>1, <3>2
        <5>2. log[i].status # "WaitingApproval" /\ i # Len(log)
          BY <2>1, <4>1, <5>1
        <5>3. Len(log) \in Nat
          BY <2>1
        <5> QED BY <5>1, <5>2, <5>3
      <4>3. PICK k \in (i + 1) .. Len(log) : log[k].kind \in AskingKinds
        <5>1. Len(log) \in DOMAIN log /\ log[Len(log)].status = "WaitingApproval"
          BY <2>1, <4>1
        <5> QED BY <4>2, <5>1 DEF IInv, WaitingWasAsked
      <4> QED BY <2>1, <3>2, <4>2, <4>3
    <3>3. CASE n # Len(log) + 1
      <4>1. n \in 1 .. Len(log) /\ log[n].status = "WaitingApproval"
            /\ log[i].status # "WaitingApproval"
        BY <2>1, <3>3
      <4>2. PICK k \in (i + 1) .. n : log[k].kind \in AskingKinds
        BY <2>1, <4>1 DEF IInv, WaitingWasAsked
      <4> QED BY <2>1, <4>1, <4>2
    <3> QED BY <3>1, <3>2, <3>3
  <2> QED BY <2>3, <2>4
<1> QED BY <1>1, <1>2, LogOnlyGrows DEF IInv

(* Only a request to pause makes a task Pausing.                           *)
LEMMA PausingWasRequestedKept ==
  ASSUME IInv, Steps
  PROVE  PausingWasRequested'
<1>1. CASE log' = log
  BY <1>1, LogOnlyGrows DEF IInv, PausingWasRequested
<1>2. ASSUME NEW e, Grows(e), Current' = "Pausing" PROVE HasPauseRequest(log')
  <2>1. /\ Current' = Target(Current, e.kind) /\ Current \in Statuses
        /\ log \in Seq(Entries) /\ e \in Entries /\ log' = Append(log, e)
    BY <1>2, StatusOfAnAppend DEF IInv, Shapes, Grows
  <2>2. e.kind \notin CycleBoundaries
    BY <1>2, <2>1, WhereAnEventLeads
  <2>3. InCycle(log', {"PauseRequested"}) =
          InCycle(log, {"PauseRequested"})
            \cup (IF e.kind \in {"PauseRequested"} THEN {Len(log) + 1} ELSE {})
    BY <2>1, <2>2, CycleGoesOn
  <2>4. e.kind = "PauseRequested" \/ HasPauseRequest(log)
    BY <1>2, <2>1, WhereAnEventLeads DEF IInv, PausingWasRequested
  <2> QED BY <2>3, <2>4 DEF HasPauseRequest
<1> QED BY <1>1, <1>2, LogOnlyGrows DEF IInv, PausingWasRequested

(* Only the supervisor confirms a pause, and the loop alone sets a task    *)
(* running.                                                                *)
LEMMA WhoMovesTheTask ==
  ASSUME IInv, NEW e, LoopRecords(e) \/ SourceRecords(e)
  PROVE  /\ Grows(e) /\ notified' = TRUE
         /\ Current' = "Paused" => Current = "Paused"
         /\ Current' = "Running" /\ Current # "Running" => LoopRecords(e)
<1>1. Grows(e) /\ notified' = TRUE
  BY DEF LoopRecords, LoopWrites, SourceRecords, Grows
<1>2. e.kind # "TaskPaused"
  BY DEF LoopRecords, Writes, SourceRecords, SourceKinds
<1>3. Current' = Target(Current, e.kind) /\ Current \in Statuses
  BY <1>1, StatusOfAnAppend
<1>4. SourceRecords(e) => e.kind \notin {"TaskResumed", "ModelCallStarted", "ToolStarted"}
  BY DEF SourceRecords, SourceKinds
<1> QED BY <1>1, <1>2, <1>3, <1>4, WhereAnEventLeads

(* Nothing but the supervisor makes a task Paused.                         *)
LEMMA PausedWasSeenKept ==
  ASSUME IInv, Steps
  PROVE  PausedWasSeen'
<1> SUFFICES ASSUME tick'.pc = "act", Current' = "Paused"
             PROVE  (StatusAfter(tick.seen))' = "Paused"
  BY DEF PausedWasSeen
<1>0. tick.seen \in 0 .. Len(log)
  BY LogOnlyGrows DEF IInv, TypeOK, Positions
<1>1. CASE TickRecover
  <2>1. tick'.seen = Len(log') /\ log' = log
    BY <1>1 DEF TickRecover, IInv, Shapes, Ticks
  <2> QED BY <2>1 DEF Current
<1>2. CASE tick' = tick /\ log' = log
  BY <1>0, <1>2, LogOnlyGrows DEF IInv, PausedWasSeen
<1>3. ASSUME NEW e, LoopRecords(e) \/ SourceRecords(e) PROVE (StatusAfter(tick.seen))' = "Paused"
  <2>1. tick' = tick
    BY <1>3 DEF LoopRecords, LoopWrites, SourceRecords, Aside
  <2>2. (StatusAfter(tick.seen))' = StatusAfter(tick.seen)
    BY <1>0, <2>1, LogOnlyGrows DEF IInv, StatusAfter
  <2>3. StatusAfter(tick.seen) = "Paused"
    BY <1>3, <2>1, WhoMovesTheTask DEF IInv, PausedWasSeen
  <2> QED BY <2>1, <2>2, <2>3
<1>4. CASE TickLoad \/ Spawns \/ Rests \/ Restarts \/ LeavesStop \/ \E e : SupervisorRecords(e)
  <2>1. tick'.pc # "act"
    <3>1. CASE TickLoad
      <4>1. tick' = [pc |-> "recover", events |-> Len(log), seen |-> 0]
        BY <3>1 DEF TickLoad
      <4> QED BY <4>1
    <3>2. CASE tick' = IdleTick
      BY <3>2 DEF IdleTick
    <3> QED BY <1>4, <3>1, <3>2 DEF Spawns, Rests, Restarts, LeavesStop, SupervisorRecords
  <2> QED BY <2>1
<1> QED BY <1>1, <1>2, <1>3, <1>4 DEF Steps, LoopMoves, LoopReads, LoopLoads, LoadContext,
           LoopEnds, Finish, Aside, SourceMoves, GivesUp, vars

(* No run begins, and none is left, in a paused task.                      *)
LEMMA PausedMeansStoppedKept ==
  ASSUME IInv, Steps
  PROVE  PausedMeansStopped'
<1> SUFFICES ASSUME Current' = "Paused"
             PROVE  run'.pc = "none"
  BY DEF PausedMeansStopped, IsActive
<1>0. Current = "Paused" => run.pc = "none"
  BY DEF IInv, PausedMeansStopped, IsActive
<1>1. CASE LoopMoves \/ LoopReads \/ LoopLoads
  <2>1. run.pc # "none" /\ log' = log
    BY <1>1 DEF LoopMoves, LoopReads, LoopLoads, LoadContext, Moves
  <2> QED BY <1>0, <2>1, LogOnlyGrows DEF IInv
<1>2. CASE LoopEnds \/ Restarts
  BY <1>2 DEF LoopEnds, Finish, Restarts, NoRun
<1>3. CASE Spawns
  <2>1. Current = "Paused" /\ tick.pc = "act"
    BY <1>3, LogOnlyGrows DEF IInv, Spawns
  <2>2. StatusAfter(tick.seen) = "Paused"
    BY <2>1 DEF IInv, PausedWasSeen
  <2> QED BY <1>3, <2>2 DEF Spawns
<1>4. ASSUME NEW e, LoopRecords(e) \/ SourceRecords(e) PROVE run'.pc = "none"
  <2>1. run.pc = "none"
    BY <1>0, <1>4, WhoMovesTheTask
  <2> QED BY <1>4, <2>1 DEF LoopRecords, Writes, Moves, SourceRecords
<1>5. ASSUME NEW e, SupervisorRecords(e) PROVE run'.pc = "none"
  BY <1>5 DEF SupervisorRecords, IsActive
<1>6. CASE UNCHANGED <<log, run>>
  BY <1>0, <1>6, LogOnlyGrows DEF IInv
<1>7. CASE GivesUp
  <2>1. run.pc # "none" /\ log' = log
    BY <1>7 DEF GivesUp
  <2> QED BY <1>0, <2>1, LogOnlyGrows DEF IInv
<1> QED BY <1>1, <1>2, <1>3, <1>4, <1>5, <1>6, <1>7 DEF Steps, TickLoad, TickRecover, Rests,
           SourceMoves, LeavesStop, vars

(* Whatever leaves work for the supervisor leaves a notification.          *)
LEMMA LevelTriggeredKept ==
  ASSUME IInv, Steps
  PROVE  LevelTriggered'
<1> SUFFICES ASSUME ~ notified'
             PROVE  /\ tick'.pc # "idle" => tick'.events = Len(log')
                    /\ tick'.pc = "act" => tick'.seen = Len(log')
                    /\ tick'.pc = "idle" /\ ~ IsActive' =>
                         /\ Current' = "Running" /\ IsMain => PendingToolResults(log') = {}
                         /\ Current' = "WaitingApproval" => CompletedApproval(log') = 0
                         /\ used'.unrecorded = 0 =>
                              /\ Current' = "Pausing" => ~ HasPauseRequest(log')
                              /\ Current' # "Cancelling"
  BY DEF LevelTriggered
<1>0. log' = log /\ Current' = Current /\ ~ \E e : Grows(e)
  <2>1. ~ \E e : Grows(e)
    BY DEF Grows
  <2> QED BY <2>1, LogOnlyGrows DEF IInv
<1>1. CASE LoopMoves \/ LoopReads \/ LoopLoads \/ GivesUp
  <2>1. run'.pc # "none" /\ UNCHANGED <<notified, tick>>
    <3>1. CASE LoopMoves \/ LoopReads
      BY <3>1 DEF LoopMoves, LoopReads, Moves, Aside
    <3>2. CASE LoopLoads
      BY <3>2 DEF LoopLoads, LoadContext, Aside, Answer, IInv, Shapes, Runs
    <3>3. CASE GivesUp
      BY <3>3 DEF GivesUp, IInv, Shapes, Runs
    <3> QED BY <1>1, <3>1, <3>2, <3>3
  <2> QED BY <1>0, <2>1 DEF IInv, LevelTriggered, IsActive
<1>2. CASE TickLoad
  <2>1. tick' = [pc |-> "recover", events |-> Len(log), seen |-> 0]
    BY <1>2 DEF TickLoad
  <2> QED BY <1>0, <2>1
<1>3. CASE TickRecover
  <2>1. /\ tick'.pc = "act" /\ tick'.events = tick.events /\ tick'.seen = Len(log)
        /\ tick.pc = "recover" /\ ~ notified
    BY <1>3 DEF TickRecover, IInv, Shapes, Ticks
  <2> QED BY <1>0, <2>1 DEF IInv, LevelTriggered
<1>4. CASE Spawns
  <2>1. run'.pc # "none" /\ tick'.pc = "idle"
    BY <1>4 DEF Spawns, NoRun, IdleTick
  <2> QED BY <2>1 DEF IsActive
<1>5. CASE Rests
  <2>1. /\ tick.pc = "act" /\ tick'.pc = "idle" /\ ~ notified /\ run' = run
        /\ Nothing(Prefix(tick.events))
    BY <1>5 DEF Rests, IdleTick
  <2>2. tick.events = Len(log) /\ tick.seen = Len(log)
    BY <2>1 DEF IInv, LevelTriggered
  <2>3. Prefix(tick.events) = log
    <3>1. Len(log) \in 0 .. Len(log)
      BY LogOnlyGrows DEF IInv
    <3> QED BY <2>2, <3>1, PrefixIsRead DEF IInv
  <2>4. Nothing(log) /\ StatusAfter(tick.seen) = Current
    BY <2>1, <2>2, <2>3 DEF Current
  <2>5. Applies(IsMain, "Cancelling", "TaskCancelled")
    BY DEF Applies, Allowed, Target, Successors, Requested, StatusKinds, TerminalStatuses,
       MaskedByPausing
  <2>6. IsActive \/ /\ Current = "Running" /\ IsMain => PendingToolResults(log) = {}
                    /\ Current = "WaitingApproval" => CompletedApproval(log) = 0
                    /\ Current = "Pausing" => ~ HasPauseRequest(log)
                    /\ Current # "Cancelling"
    BY <2>4, <2>5 DEF Nothing
  <2> QED BY <1>0, <2>1, <2>6 DEF IsActive
<1>6. CASE UNCHANGED <<log, notified, run, tick>> /\ used'.unrecorded = used.unrecorded
  BY <1>0, <1>6 DEF IInv, LevelTriggered, IsActive
<1>7. CASE LeavesStop
  <2>1. /\ tick.pc = "act" /\ tick'.pc = "idle" /\ ~ notified /\ used'.unrecorded # 0
        /\ StatusAfter(tick.seen) \in {"Pausing", "Cancelling"}
    BY <1>7 DEF LeavesStop, Lost, IdleTick
  <2>2. Current \in {"Pausing", "Cancelling"}
    BY <2>1 DEF IInv, LevelTriggered, Current
  <2> QED BY <1>0, <2>1, <2>2
<1> QED BY <1>0, <1>1, <1>2, <1>3, <1>4, <1>5, <1>6, <1>7 DEF Steps, LoopEnds, Finish, SourceMoves,
           SamePast, Restarts, LoopRecords, LoopWrites, SupervisorRecords, SourceRecords, vars

(* The run of a child is the last to leave a Running task.                 *)
LEMMA RunningIsWorkedOnKept ==
  ASSUME IInv, Steps
  PROVE  RunningIsWorkedOn'
<1> DEFINE Undisturbed == used.crashes = 0 /\ used.unrecorded = 0
<1> SUFFICES ASSUME ~ IsMain, used'.crashes = 0, used'.unrecorded = 0, Current' = "Running"
             PROVE  run'.pc \notin LeavingPlaces
  BY DEF RunningIsWorkedOn
<1>0. Undisturbed /\ Current = "Running" => run.pc \notin LeavingPlaces
  BY DEF IInv, RunningIsWorkedOn
<1>1. CASE LoopMoves \/ LoopReads \/ LoopLoads \/ LoopEnds
  <2>1. Undisturbed /\ Current = "Running"
    BY <1>1, LogOnlyGrows DEF IInv, LoopMoves, LoopReads, LoopLoads, LoadContext, LoopEnds,
       Finish, Aside
  <2>2. CASE LoopMoves \/ LoopReads
    BY <1>0, <2>1, <2>2 DEF LoopMoves, LoopReads, Moves, LeavingPlaces
  <2>3. CASE LoopLoads
    BY <1>0, <2>3 DEF LoopLoads, LoadContext, Answer, IInv, Shapes, Runs, LeavingPlaces
  <2>4. CASE LoopEnds
    BY <1>0, <2>1, <2>4 DEF LoopEnds, Finish, LeavingPlaces
  <2> QED BY <1>1, <2>2, <2>3, <2>4
<1>2. CASE Spawns
  BY <1>2 DEF Spawns, NoRun, LeavingPlaces
<1>3. CASE Restarts \/ GivesUp \/ LeavesStop
  BY <1>3 DEF Restarts, GivesUp, LeavesStop, Lost
<1>4. ASSUME NEW e, LoopRecords(e) PROVE run'.pc \notin LeavingPlaces
  <2>1. e.kind \notin ClosingKinds
    <3>1. Current' = Target(Current, e.kind) /\ Current \in Statuses
      BY <1>4, StatusOfAnAppend DEF LoopRecords, LoopWrites
    <3> QED BY <3>1, WhereAnEventLeads
  <2> QED BY <1>4, <2>1 DEF LoopRecords, Writes, Moves, LeavingPlaces, ClosingKinds, AskingKinds
<1>5. ASSUME NEW e, SupervisorRecords(e) PROVE run'.pc \notin LeavingPlaces
  <2>1. /\ Undisturbed /\ run.pc = "none"
        /\ e.kind \notin {"TaskResumed", "ModelCallStarted", "ToolStarted"} /\ Grows(e)
    BY <1>5 DEF SupervisorRecords, IsActive
  <2>2. Current = "Running"
    BY <2>1, StatusOfAnAppend, WhereAnEventLeads
  <2> QED BY <1>0, <2>1, <2>2 DEF LeavingPlaces
<1>6. ASSUME NEW e, SourceRecords(e) PROVE run'.pc \notin LeavingPlaces
  <2>1. /\ Undisturbed /\ run' = run
        /\ e.kind \notin {"TaskResumed", "ModelCallStarted", "ToolStarted"} /\ Grows(e)
    BY <1>6 DEF SourceRecords, SamePast, SourceKinds
  <2>2. Current = "Running"
    BY <2>1, StatusOfAnAppend, WhereAnEventLeads
  <2> QED BY <1>0, <2>1, <2>2
<1>7. CASE UNCHANGED <<log, run>> /\ SamePast
  BY <1>0, <1>7, LogOnlyGrows DEF IInv, SamePast
<1> QED BY <1>1, <1>2, <1>3, <1>4, <1>5, <1>6, <1>7 DEF Steps, TickLoad, TickRecover, Rests,
           SourceMoves, SamePast, vars

-----------------------------------------------------------------------------
(***************************************************************************)
(* The budget.                                                             *)
(***************************************************************************)

(* Who appends what. *)
LEMMA WhoAppends ==
  ASSUME IInv, Steps
  PROVE  \/ log' = log
         \/ \E e : LoopRecords(e)
         \/ \E e : /\ Grows(e)
                   /\ e.kind \in SourceKinds \cup {"TaskPaused"}
                   /\ e.kind = "ApprovalSubmitted" => SourceRecords(e)
                   /\ run' = run \/ run' = NoRun
<1>1. ASSUME NEW e, SourceRecords(e) \/ SupervisorRecords(e)
      PROVE  /\ Grows(e)
             /\ e.kind \in SourceKinds \cup {"TaskPaused"}
             /\ e.kind = "ApprovalSubmitted" => SourceRecords(e)
             /\ run' = run \/ run' = NoRun
  BY <1>1 DEF SourceRecords, SupervisorRecords, SourceKinds
<1>2. CASE Restarts
  BY <1>2 DEF Restarts, SourceKinds
<1> QED BY <1>1, <1>2 DEF Steps, LoopMoves, LoopReads, LoopLoads, LoadContext, LoopEnds,
           Finish, TickLoad, TickRecover, Spawns, Rests, SourceMoves, GivesUp, LeavesStop, vars

(* What a run has in its cache includes its own events.                    *)
LEMMA OwnEventsAreSeenKept ==
  ASSUME IInv, Steps
  PROVE  OwnEventsAreSeen'
<1> SUFFICES ASSUME run'.pc \notin Unsettled, NEW i \in DOMAIN log', log'[i].kind \in OwnKinds
             PROVE  i <= run'.cache
  BY DEF OwnEventsAreSeen
<1>0. /\ Len(log) \in Nat /\ DOMAIN log = 1 .. Len(log) /\ DOMAIN log' = 1 .. Len(log')
      /\ \A j \in 1 .. Len(log) : log'[j] = log[j]
      /\ run.cache \in 0 .. Len(log)
  BY LogOnlyGrows DEF IInv, TypeOK
<1>1. CASE LoopMoves
  <2>1. run.pc \notin Unsettled /\ run'.cache = run.cache /\ log' = log
    BY <1>1 DEF LoopMoves, Moves, Unsettled, IInv, Shapes, Runs
  <2> QED BY <2>1 DEF IInv, OwnEventsAreSeen
<1>2. CASE LoopReads
  <2>1. run'.cache = Len(log) /\ log' = log
    BY <1>2 DEF LoopReads, IInv, Shapes, Runs
  <2> QED BY <1>0, <2>1
<1>3. CASE LoopLoads
  <2>1. run.pc = "loading" /\ run'.cache = run.cache /\ log' = log
    BY <1>3 DEF LoopLoads, LoadContext, IInv, Shapes, Runs
  <2> QED BY <2>1 DEF IInv, OwnEventsAreSeen, Unsettled
<1>4. CASE LoopEnds \/ Spawns \/ Restarts
  <2>1. CASE Spawns
    BY <2>1 DEF Spawns, NoRun, Unsettled
  <2>2. CASE run' = NoRun
    BY <2>2 DEF NoRun, Unsettled
  <2> QED BY <1>4, <2>1, <2>2 DEF LoopEnds, Finish, Restarts
<1>5. ASSUME NEW e, LoopRecords(e) PROVE i <= run'.cache
  <2>1. run'.cache = Len(log) + 1
    BY <1>5 DEF LoopRecords, LoopWrites, Writes, Moves, Unsettled
  <2>2. Len(log') = Len(log) + 1
    BY <1>5, Growth DEF LoopRecords, LoopWrites, IInv
  <2> QED BY <1>0, <2>1, <2>2
<1>6. ASSUME NEW e, Grows(e), e.kind \in SourceKinds \cup {"TaskPaused"}, run' = run
      PROVE  i <= run'.cache
  <2>1. /\ log'[Len(log) + 1].kind \notin OwnKinds /\ Len(log') = Len(log) + 1
    BY <1>6, Growth DEF SourceKinds, OwnKinds, IInv
  <2>2. i \in DOMAIN log /\ log[i].kind \in OwnKinds
    BY <1>0, <2>1
  <2> QED BY <1>6, <2>2 DEF IInv, OwnEventsAreSeen
<1>7. CASE UNCHANGED <<log, run>>
  BY <1>7 DEF IInv, OwnEventsAreSeen
<1>8. CASE run' = NoRun
  BY <1>8 DEF NoRun, Unsettled
<1>9. CASE GivesUp
  <2>1. run'.pc = "done"
    BY <1>9 DEF GivesUp, IInv, Shapes, Runs
  <2> QED BY <2>1 DEF Unsettled
<1> QED BY <1>1, <1>2, <1>3, <1>4, <1>5, <1>6, <1>7, <1>8, <1>9, WhoAppends DEF Steps, TickLoad,
           TickRecover, Rests, SourceMoves, LeavesStop, SupervisorRecords, SourceRecords, SourceKinds, vars

Answered(n) == {j \in 1 .. n : log[j].kind = "ModelCompleted"}

(* Counts of events are natural numbers.                                   *)
LEMMA CountsAreNat ==
  ASSUME NEW n \in Nat
  PROVE  Cardinality(Answered(n)) \in Nat
<1>1. Answered(n) \subseteq 1 .. n
  BY DEF Answered
<1>2. IsFiniteSet(1 .. n)
  BY FS_Interval
<1> QED BY <1>1, <1>2, FS_Subset, FS_CardinalityType

(* An append of anything but an answer leaves the calls answered.          *)
LEMMA AnsweredStays ==
  ASSUME IInv, Steps, NEW n \in 0 .. Len(log)
  PROVE  (Answered(n))' = Answered(n)
<1>1. \A j \in 1 .. n : log'[j] = log[j]
  BY LogOnlyGrows DEF IInv
<1> QED BY <1>1 DEF Answered

(* What the run has counted is all there is. *)
LEMMA AllAreCounted ==
  ASSUME IInv, run.pc \notin Unsettled
  PROVE  Answered(run.cache) = Answered(Len(log))
<1>1. run.cache \in 0 .. Len(log) /\ Len(log) \in Nat /\ DOMAIN log = 1 .. Len(log)
  BY LenProperties DEF IInv, TypeOK, Shapes
<1>2. \A j \in 1 .. Len(log) : log[j].kind = "ModelCompleted" => j <= run.cache
  BY <1>1 DEF IInv, OwnEventsAreSeen, OwnKinds
<1> QED BY <1>1, <1>2 DEF Answered

(* A run that may call the model has calls left in its budget.             *)
LEMMA BudgetIsCheckedKept ==
  ASSUME IInv, Steps
  PROVE  BudgetIsChecked'
<1> SUFFICES ASSUME run'.pc \in {"calling", "retrying"}
             PROVE  ~ OverBudget'
  BY DEF BudgetIsChecked
<1>0. Len(log) \in Nat /\ run.cache \in 0 .. Len(log)
  BY LogOnlyGrows DEF IInv, TypeOK
<1>1. CASE run' = run
  <2>1. ~ OverBudget
    BY <1>1 DEF IInv, BudgetIsChecked
  <2>2. (Answered(run.cache))' = Answered(run.cache)
    BY <1>0, <1>1, AnsweredStays DEF Answered
  <2> QED BY <2>1, <2>2 DEF OverBudget, Usage, Answered
<1>2. ASSUME NEW e, LoopRecords(e) PROVE ~ OverBudget'
  <2>1. /\ ~ OverBudget /\ e.kind # "ModelCompleted" /\ run.pc \notin Unsettled
        /\ run'.cache = Len(log) + 1 /\ Grows(e)
    BY <1>2 DEF LoopRecords, LoopWrites, Writes, Moves, Unsettled, IInv, BudgetIsChecked
  <2>2. {j \in 1 .. run'.cache : log'[j].kind = "ModelCompleted"} = Answered(Len(log))
    BY <2>1, Growth DEF Answered, IInv
  <2>3. {j \in 1 .. run'.cache : log'[j].kind = "ModelCompleted"} = Answered(run.cache)
    BY <2>1, <2>2, AllAreCounted
  <2> QED BY <2>1, <2>3 DEF OverBudget, Usage, Answered
<1>3. CASE LoopMoves \/ LoopReads
  BY <1>3 DEF LoopMoves, LoopReads, Moves
<1>4. CASE LoopLoads
  BY <1>4 DEF LoopLoads, LoadContext, Answer, IInv, Shapes, Runs
<1>5. CASE LoopEnds \/ Spawns \/ Restarts
  <2>1. CASE Spawns
    BY <2>1 DEF Spawns, NoRun
  <2>2. CASE run' = NoRun
    BY <2>2 DEF NoRun
  <2> QED BY <1>5, <2>1, <2>2 DEF LoopEnds, Finish, Restarts
<1>6. CASE GivesUp
  BY <1>6 DEF GivesUp, IInv, Shapes, Runs
<1> QED BY <1>1, <1>2, <1>3, <1>4, <1>5, <1>6 DEF Steps, TickLoad, TickRecover, Rests,
           SourceMoves, LeavesStop, SupervisorRecords, SourceRecords, vars

(* A call is recorded only by a run whose budget allows it.                *)
LEMMA BudgetIsForTheTaskKept ==
  ASSUME IInv, Steps
  PROVE  BudgetIsForTheTask'
<1> SUFFICES ASSUME NEW i \in DOMAIN log', TokenBudget > 0, log'[i].kind = "ModelCallStarted"
             PROVE  Cardinality({j \in 1 .. (i - 1) : log'[j].kind = "ModelCompleted"})
                      < TokenBudget
  BY DEF BudgetIsForTheTask
<1>0. /\ Len(log) \in Nat /\ Len(log') \in Nat /\ DOMAIN log = 1 .. Len(log)
      /\ DOMAIN log' = 1 .. Len(log')
      /\ \A j \in 1 .. Len(log) : log'[j] = log[j]
  BY LogOnlyGrows DEF IInv
<1>1. CASE i \in DOMAIN log
  <2>1. {j \in 1 .. (i - 1) : log'[j].kind = "ModelCompleted"}
          = {j \in 1 .. (i - 1) : log[j].kind = "ModelCompleted"}
    BY <1>0, <1>1
  <2>2. log[i].kind = "ModelCallStarted"
    BY <1>0, <1>1
  <2> QED BY <1>1, <2>1, <2>2 DEF IInv, BudgetIsForTheTask
<1>2. CASE i \notin DOMAIN log
  <2>1. log' # log
    BY <1>0, <1>2
  <2>2. PICK e : /\ Grows(e)
                 /\ LoopRecords(e) \/ e.kind \in SourceKinds \cup {"TaskPaused"}
    BY <2>1, WhoAppends DEF LoopRecords, LoopWrites
  <2>3. i = Len(log) + 1 /\ e.kind = "ModelCallStarted"
    <3>1. Len(log') = Len(log) + 1 /\ log'[Len(log) + 1] = e
      BY <2>2, Growth DEF IInv
    <3>2. i = Len(log) + 1
      BY <1>0, <1>2, <3>1
    <3> QED BY <3>1, <3>2
  <2>4. LoopRecords(e)
    BY <2>2, <2>3 DEF SourceKinds
  <2>5. ~ OverBudget /\ run.pc \notin Unsettled
    BY <2>3, <2>4 DEF LoopRecords, Writes, Moves, Unsettled
  <2>6. {j \in 1 .. (i - 1) : log'[j].kind = "ModelCompleted"} = Answered(Len(log))
    BY <1>0, <2>3 DEF Answered
  <2>7. Usage = Cardinality(Answered(Len(log)))
    BY <2>5, AllAreCounted DEF Usage, Answered
  <2>8. Usage \in Nat /\ TokenBudget \in Nat
    BY <1>0, <2>7, CountsAreNat, RunBounds
  <2>9. Cardinality({j \in 1 .. (i - 1) : log'[j].kind = "ModelCompleted"}) = Usage
    BY <2>6, <2>7
  <2>10. Usage < TokenBudget
    BY <2>5, <2>8 DEF OverBudget
  <2> QED BY <2>9, <2>10
<1> QED BY <1>1, <1>2

-----------------------------------------------------------------------------
(***************************************************************************)
(* The tools.                                                              *)
(***************************************************************************)
LEMMA AboutGrows ==
  ASSUME IInv, NEW e, Grows(e), NEW kinds
  PROVE  /\ (About(kinds))' = About(kinds) \cup (IF e.kind \in kinds THEN {Len(log) + 1} ELSE {})
         /\ \A i \in About(kinds) : i \in 1 .. Len(log) /\ log'[i] = log[i]
<1>1. /\ Len(log) \in Nat /\ DOMAIN log = 1 .. Len(log) /\ DOMAIN log' = 1 .. (Len(log) + 1)
      /\ \A i \in 1 .. Len(log) : log'[i] = log[i]
      /\ log'[Len(log) + 1] = e
  BY Growth DEF IInv
<1> QED BY <1>1 DEF About

(* The events of a tool call keep their order in the stream.               *)
LEMMA ToolEventsInOrderKept ==
  ASSUME IInv, Steps
  PROVE  ToolEventsInOrder'
<1>0. /\ Len(log) \in Nat /\ DOMAIN log = 1 .. Len(log)
      /\ ToolEventsInOrder
  BY LogOnlyGrows DEF IInv
<1>1. CASE log' = log
  BY <1>0, <1>1 DEF ToolEventsInOrder, About
<1>2. ASSUME NEW e, Grows(e), e.kind \notin ToolKinds,
             e.kind = "ApprovalSubmitted" => SourceRecords(e)
      PROVE  ToolEventsInOrder'
  <2>1. /\ (About(ToolKinds))' = About(ToolKinds)
        /\ \A kind \in ToolKinds : (About({kind}))' = About({kind})
        /\ (About({"ApprovalSubmitted"}))' =
             About({"ApprovalSubmitted"})
               \cup (IF e.kind = "ApprovalSubmitted" THEN {Len(log) + 1} ELSE {})
    <3>1. \A kinds : (About(kinds))' =
                        About(kinds) \cup (IF e.kind \in kinds THEN {Len(log) + 1} ELSE {})
      BY <1>2, AboutGrows
    <3>2. \A kind \in ToolKinds : e.kind \notin {kind}
      BY <1>2
    <3> QED BY <1>2, <3>1, <3>2
  <2>2. \A kinds : \A i \in About(kinds) : i \in 1 .. Len(log) /\ log'[i] = log[i]
    BY <1>2, AboutGrows
  <2>3. \A i \in (About(ToolKinds))' : \E p \in 1 .. (i - 1) : log'[i].about = {p}
    BY <1>0, <2>1, <2>2 DEF ToolEventsInOrder
  <2>4. \A i \in (About({"RequireApproval"}))', j \in (About({"ApprovalRequested"}))' :
          log'[i].about = log'[j].about => i < j
    BY <1>0, <2>1, <2>2 DEF ToolEventsInOrder, ToolKinds, AskingKinds
  <2>5. \A i \in (About({"ApprovalRequested"}))', j \in (About({"ToolStarted"}))' :
          log'[i].about = log'[j].about => i < j
    BY <1>0, <2>1, <2>2 DEF ToolEventsInOrder, ToolKinds, AskingKinds
  <2>6. \A i \in (About({"ApprovalSubmitted"}))' :
          \E r \in 1 .. (i - 1) : log'[i].about = {r} /\ log'[r].kind = "ApprovalRequested"
    <3>1. ASSUME NEW i \in About({"ApprovalSubmitted"})
          PROVE  \E r \in 1 .. (i - 1) : log'[i].about = {r} /\ log'[r].kind = "ApprovalRequested"
      <4>1. PICK r \in 1 .. (i - 1) : log[i].about = {r} /\ log[r].kind = "ApprovalRequested"
        BY <1>0, <3>1 DEF ToolEventsInOrder
      <4>2. i \in 1 .. Len(log) /\ log'[i] = log[i]
        BY <2>2, <3>1
      <4>3. log'[r] = log[r]
        BY <1>0, <4>2, LogOnlyGrows DEF IInv
      <4> QED BY <4>1, <4>2, <4>3
    <3>2. CASE e.kind = "ApprovalSubmitted"
      <4>1. PICK r \in 1 .. Len(log) : e.about = {r} /\ log[r].kind = "ApprovalRequested"
        BY <1>2, <3>2 DEF SourceRecords, Positions
      <4>2. log'[Len(log) + 1] = e /\ log'[r] = log[r]
        BY <1>2, Growth DEF IInv
      <4> QED BY <1>0, <2>1, <3>1, <4>1, <4>2
    <3> QED BY <2>1, <3>1, <3>2
  <2> QED BY <2>3, <2>4, <2>5, <2>6 DEF ToolEventsInOrder
<1>3. ASSUME NEW e, LoopRecords(e), e.kind \in ToolKinds PROVE ToolEventsInOrder'
  <2>0. Grows(e)
    BY <1>3 DEF LoopRecords, LoopWrites
  <2>1. /\ run.proposal \in 1 .. Len(log) /\ e.about = {run.proposal}
        /\ e.kind = "RequireApproval" => None({"ApprovalRequested"}, run.proposal)
        /\ e.kind = "ApprovalRequested" => None({"ToolStarted"}, run.proposal)
    BY <1>3 DEF LoopRecords, LoopWrites, Writes, Moves, ToolKinds, AskingKinds, IInv, ToolInHand,
       WithTool, None, About, Positions
  <2>2. \A kinds : /\ (About(kinds))' =
                        About(kinds) \cup (IF e.kind \in kinds THEN {Len(log) + 1} ELSE {})
                   /\ \A i \in About(kinds) : i \in 1 .. Len(log) /\ log'[i] = log[i]
    BY <2>0, AboutGrows
  <2>3. log'[Len(log) + 1] = e
    BY <2>0, Growth DEF IInv
  <2>4. \A i \in (About(ToolKinds))' : \E p \in 1 .. (i - 1) : log'[i].about = {p}
    BY <1>0, <2>1, <2>2, <2>3 DEF ToolEventsInOrder
  <2>5. \A i \in (About({"RequireApproval"}))', j \in (About({"ApprovalRequested"}))' :
          log'[i].about = log'[j].about => i < j
    BY <1>0, <2>1, <2>2, <2>3 DEF ToolEventsInOrder, None
  <2>6. \A i \in (About({"ApprovalRequested"}))', j \in (About({"ToolStarted"}))' :
          log'[i].about = log'[j].about => i < j
    BY <1>0, <2>1, <2>2, <2>3 DEF ToolEventsInOrder, None
  <2>7. \A i \in (About({"ApprovalSubmitted"}))' :
          \E r \in 1 .. (i - 1) : log'[i].about = {r} /\ log'[r].kind = "ApprovalRequested"
    <3> SUFFICES ASSUME NEW i \in (About({"ApprovalSubmitted"}))'
                 PROVE  \E r \in 1 .. (i - 1) :
                          log'[i].about = {r} /\ log'[r].kind = "ApprovalRequested"
      OBVIOUS
    <3>1. i \in About({"ApprovalSubmitted"}) /\ i \in 1 .. Len(log) /\ log'[i] = log[i]
      BY <1>3, <2>2 DEF ToolKinds, AskingKinds
    <3>2. PICK r \in 1 .. (i - 1) : log[i].about = {r} /\ log[r].kind = "ApprovalRequested"
      BY <1>0, <3>1 DEF ToolEventsInOrder
    <3>3. log'[r] = log[r]
      BY <1>0, <3>1, LogOnlyGrows DEF IInv
    <3> QED BY <3>1, <3>2, <3>3
  <2> QED BY <2>4, <2>5, <2>6, <2>7 DEF ToolEventsInOrder
<1>4. \/ log' = log
      \/ \E e : LoopRecords(e)
      \/ \E e : /\ Grows(e) /\ e.kind \in SourceKinds \cup {"TaskPaused"}
                /\ e.kind = "ApprovalSubmitted" => SourceRecords(e)
  BY WhoAppends
<1>5. ASSUME NEW e, LoopRecords(e), e.kind \notin ToolKinds
      PROVE  Grows(e) /\ e.kind # "ApprovalSubmitted"
  BY <1>5 DEF LoopRecords, LoopWrites, Writes
<1>6. ASSUME NEW e, e.kind \in SourceKinds \cup {"TaskPaused"}
      PROVE  e.kind \notin ToolKinds
  BY <1>6 DEF SourceKinds, ToolKinds, AskingKinds
<1> QED BY <1>1, <1>2, <1>3, <1>4, <1>5, <1>6

(* The latest request and what is known of a tool call stay as they are    *)
(* until the loop writes one of their events.                              *)
LEMMA ToolFactsStay ==
  ASSUME IInv, NEW e, Grows(e), NEW p
  PROVE  /\ \A kinds : e.kind \notin kinds /\ None(kinds, p) => (None(kinds, p))'
         /\ e.kind # "ApprovalRequested" => LatestRequest' = LatestRequest
         /\ LatestRequest \in 0 .. Len(log)
<1>1. \A kinds : /\ (About(kinds))' =
                      About(kinds) \cup (IF e.kind \in kinds THEN {Len(log) + 1} ELSE {})
                 /\ \A i \in About(kinds) : i \in 1 .. Len(log) /\ log'[i] = log[i]
  BY AboutGrows
<1>2. \A kinds : e.kind \notin kinds /\ None(kinds, p) => (None(kinds, p))'
  BY <1>1 DEF None
<1>3. LatestRequest = Last(About({"ApprovalRequested"}))
      /\ LatestRequest' = Last((About({"ApprovalRequested"}))')
  <2>1. About({"ApprovalRequested"}) = {i \in DOMAIN log : log[i].kind = "ApprovalRequested"}
    BY DEF About
  <2>2. (About({"ApprovalRequested"}))' = {i \in DOMAIN log' : log'[i].kind = "ApprovalRequested"}
    BY DEF About
  <2> QED BY <2>1, <2>2 DEF LatestRequest
<1>4. LatestRequest \in 0 .. Len(log)
  <2>1. Len(log) \in Nat /\ About({"ApprovalRequested"}) \subseteq 1 .. Len(log)
    BY <1>1, LogOnlyGrows, Growth DEF IInv
  <2> QED BY <1>3, <2>1, LastIsGreatest
<1>5. e.kind # "ApprovalRequested" => LatestRequest' = LatestRequest
  BY <1>1, <1>3
<1> QED BY <1>2, <1>4, <1>5

(* A step that records nothing keeps what the run holds.                   *)
LEMMA ToolInHandKeptInPlace ==
  ASSUME IInv, Steps, log' = log,
         LoopMoves \/ LoopReads \/ UNCHANGED run
  PROVE  ToolInHand'
<1>0. /\ run.cache \in 0 .. Len(log) /\ ToolInHand /\ run \in Runs
      /\ \A kinds : (About(kinds))' = About(kinds)
      /\ LatestRequest' = LatestRequest
      /\ \A n : StatusAfter(n)' = StatusAfter(n)
      /\ Positions' = Positions
  BY LogOnlyGrows DEF IInv, Shapes, TypeOK, About, LatestRequest, Positions
<1>1. CASE UNCHANGED run
  BY <1>0, <1>1 DEF ToolInHand, None, About, ApprovedTool
<1>2. CASE LoopMoves
  <2>1. /\ run'.mode = run.mode /\ run'.approval = run.approval /\ run'.cache = run.cache
        /\ run'.proposal = run.proposal
    BY <1>0, <1>2 DEF LoopMoves, Runs
  <2>2. /\ run'.pc \notin {"loading", "proposed", "asking"}
        /\ run'.pc \in WithTool => run.pc \in WithTool
        /\ run'.pc = "granted" => run.pc = "proposed"
    BY <1>2 DEF LoopMoves, Moves, WithTool
  <2>3. run'.pc = "granted" => (None(ToolKinds, run.proposal))'
    BY <1>0, <2>1, <2>2 DEF ToolInHand, None, About
  <2> QED BY <1>0, <2>1, <2>2, <2>3 DEF ToolInHand
<1>3. CASE LoopReads
  <2>1. /\ run'.mode = run.mode /\ run'.approval = run.approval /\ run'.cache = Len(log)
    BY <1>0, <1>3 DEF LoopReads, Runs
  <2>2. run'.pc \notin WithTool /\ (run'.pc = "loading" => Admitted(Current))
    BY <1>3 DEF LoopReads, Moves, WithTool
  <2>3. run.mode = "resume" /\ Admitted(Current) => Current = "WaitingApproval"
    BY DEF Admitted
  <2>4. (StatusAfter(run.cache))' = Current
    BY <1>0, <2>1 DEF Current, StatusAfter
  <2> QED BY <1>0, <2>1, <2>2, <2>3, <2>4 DEF ToolInHand, WithTool
<1> QED BY <1>1, <1>2, <1>3

(* A resumed run binds the answer to the latest request, and the request   *)
(* to the tool call it was made for.                                       *)
LEMMA ToolIsBound ==
  ASSUME IInv, LoopLoads
  PROVE  ToolInHand'
<1>0. /\ Len(log) \in Nat /\ DOMAIN log = 1 .. Len(log) /\ Positions = 1 .. Len(log)
      /\ ToolInHand /\ run \in Runs /\ log' = log /\ run.pc = "loading"
      /\ ToolEventsInOrder
  BY CurrentIsAStatus DEF IInv, Shapes, LoopLoads, LoadContext
<1>s. /\ \A kinds : (About(kinds))' = About(kinds)
      /\ LatestRequest' = LatestRequest
      /\ \A n : StatusAfter(n)' = StatusAfter(n)
      /\ Positions' = Positions
  BY <1>0 DEF About, LatestRequest, Positions, StatusAfter
<1>1. CASE run'.pc \notin WithTool \cup {"loading"} /\ run'.mode = run.mode
           /\ run'.approval = run.approval
  BY <1>0, <1>s, <1>1 DEF ToolInHand, WithTool
<1>2. CASE /\ run.mode = "resume"
           /\ BoundToLatestRequest(run.approval)
           /\ \E request \in log[run.approval].about :
              \E proposal \in log[request].about :
              \E verdict \in {Answer(run.approval), "refused"} :
                run' = [run EXCEPT !.context = Visible,
                                   !.proposal = proposal,
                                   !.pc = verdict]
  <2>1. PICK request \in log[run.approval].about :
             \E proposal \in log[request].about :
             \E verdict \in {Answer(run.approval), "refused"} :
               run' = [run EXCEPT !.context = Visible, !.proposal = proposal, !.pc = verdict]
    BY <1>2
  <2>2. PICK proposal \in log[request].about, verdict \in {Answer(run.approval), "refused"} :
               run' = [run EXCEPT !.context = Visible, !.proposal = proposal, !.pc = verdict]
    BY <2>1
  <2>3. /\ run'.pc = verdict /\ run'.proposal = proposal /\ run'.mode = "resume"
        /\ run'.approval = run.approval /\ run'.cache = run.cache
    BY <1>0, <1>2, <2>2 DEF Runs
  <2>4. /\ run.approval \in About({"ApprovalSubmitted"})
        /\ StatusAfter(run.cache) = "WaitingApproval"
    BY <1>0, <1>2 DEF ToolInHand
  <2>5. PICK r \in 1 .. (run.approval - 1) :
          log[run.approval].about = {r} /\ log[r].kind = "ApprovalRequested"
    BY <1>0, <2>4 DEF ToolEventsInOrder
  <2>6. log[run.approval].about = {LatestRequest}
    BY <1>2 DEF BoundToLatestRequest, LatestRequest
  <2>7. request = LatestRequest /\ r = LatestRequest /\ LatestRequest \in About({"ApprovalRequested"})
    <3>1. request = LatestRequest /\ r = LatestRequest
      BY <2>1, <2>5, <2>6
    <3>2. r \in DOMAIN log
      BY <1>0, <2>4, <2>5 DEF About
    <3> QED BY <2>5, <3>1, <3>2 DEF About
  <2>8. log[LatestRequest].about = {proposal} /\ proposal \in Positions
    <3>1. LatestRequest \in About(ToolKinds)
      BY <2>7 DEF About, ToolKinds, AskingKinds
    <3>2. PICK p \in 1 .. (LatestRequest - 1) : log[LatestRequest].about = {p}
      BY <1>0, <3>1 DEF ToolEventsInOrder
    <3>3. LatestRequest \in 1 .. Len(log)
      BY <1>0, <2>7 DEF About
    <3> QED BY <1>0, <2>2, <2>7, <3>2, <3>3
  <2>9. \/ verdict = "refused"
        \/ verdict = "granted" /\ log[run.approval].approved
    <3>1. CASE log[run.approval].approved
      BY <3>1 DEF Answer
    <3>2. CASE ~ log[run.approval].approved
      <4>1. Answer(run.approval) = "refused"
        BY <3>2 DEF Answer
      <4>2. verdict = "refused"
        BY <4>1
      <4> QED BY <4>2
    <3> QED BY <3>1, <3>2
  <2>10. verdict = "granted" => ApprovedTool'
    BY <1>0, <1>s, <2>3, <2>4, <2>6, <2>8, <2>9 DEF ApprovedTool
  <2> QED BY <1>s, <2>3, <2>4, <2>8, <2>9, <2>10 DEF ToolInHand, WithTool
<1>3. CASE run' = [run EXCEPT !.context = Visible, !.pc = "turn"]
  BY <1>0, <1>1, <1>3 DEF WithTool, Runs
<1>4. CASE run' = [run EXCEPT !.pc = "failing"]
  BY <1>0, <1>1, <1>4 DEF WithTool, Runs
<1> QED BY <1>2, <1>3, <1>4 DEF LoopLoads, LoadContext

(* A step that records keeps what the run holds.                           *)
LEMMA ToolInHandKeptByRecords ==
  ASSUME IInv, NEW e, LoopRecords(e)
  PROVE  ToolInHand'
<1>0. /\ Len(log) \in Nat /\ DOMAIN log = 1 .. Len(log) /\ ToolInHand /\ ToolEventsInOrder
      /\ Grows(e) /\ Positions' = 1 .. (Len(log) + 1) /\ Positions = 1 .. Len(log)
      /\ Len(log') = Len(log) + 1 /\ Positions \subseteq Positions'
  <2>1. Grows(e)
    BY DEF LoopRecords, LoopWrites
  <2> QED BY <2>1, Growth DEF IInv, Positions
<1>1. /\ run'.mode = run.mode /\ run'.approval = run.approval
      /\ run'.proposal = IF e.kind = "ToolProposed" THEN Len(log) + 1 ELSE run.proposal
  BY DEF LoopRecords, LoopWrites
<1>2. /\ run'.pc \notin {"loading", "granted"}
      /\ run'.pc = "proposed" <=> e.kind = "ToolProposed"
      /\ run'.pc = "asking" => run.pc = "proposed" /\ e.kind = "RequireApproval"
      /\ run'.pc \in WithTool => run.pc \in WithTool \/ run'.pc = "proposed"
  BY DEF LoopRecords, Writes, Moves, WithTool
<1>3. run.mode = "resume" => run.approval \in (About({"ApprovalSubmitted"}))'
  BY <1>0, AboutGrows DEF ToolInHand
<1>4. run'.pc \in WithTool => run'.proposal \in Positions'
  BY <1>0, <1>1, <1>2 DEF ToolInHand
<1>5. run'.pc = "proposed" => (None(ToolKinds, run.proposal))'
  <2> SUFFICES ASSUME run'.pc = "proposed", NEW i \in (About(ToolKinds))'
               PROVE  log'[i].about # {run'.proposal}
    BY DEF None
  <2>1. /\ e.kind = "ToolProposed" /\ e.kind \notin ToolKinds /\ run'.proposal = Len(log) + 1
    BY <1>1, <1>2 DEF ToolKinds, AskingKinds
  <2>2. i \in About(ToolKinds) /\ i \in 1 .. Len(log) /\ log'[i] = log[i]
    BY <1>0, <2>1, AboutGrows
  <2>3. PICK p \in 1 .. (i - 1) : log[i].about = {p}
    BY <1>0, <2>2 DEF ToolEventsInOrder
  <2>4. p # Len(log) + 1
    BY <1>0, <2>2, <2>3
  <2> QED BY <2>1, <2>2, <2>3, <2>4
<1>6. run'.pc = "asking" => (None({"ApprovalRequested", "ToolStarted"}, run.proposal))'
  <2> SUFFICES ASSUME run'.pc = "asking",
                      NEW i \in (About({"ApprovalRequested", "ToolStarted"}))'
               PROVE  log'[i].about # {run'.proposal}
    BY DEF None
  <2>1. /\ e.kind = "RequireApproval" /\ run'.proposal = run.proposal
        /\ None(ToolKinds, run.proposal)
    BY <1>0, <1>1, <1>2 DEF ToolInHand
  <2>2. i \in About({"ApprovalRequested", "ToolStarted"}) /\ log'[i] = log[i]
    BY <1>0, <2>1, AboutGrows
  <2>3. i \in About(ToolKinds)
    BY <2>2 DEF About, ToolKinds, AskingKinds
  <2> QED BY <2>1, <2>2, <2>3 DEF None
<1> QED BY <1>1, <1>2, <1>3, <1>4, <1>5, <1>6 DEF ToolInHand

(* What the run holds is the tool call its events name.                    *)
LEMMA ToolInHandKept ==
  ASSUME IInv, Steps
  PROVE  ToolInHand'
<1>1. CASE LoopMoves \/ LoopReads \/ UNCHANGED <<log, run>>
  BY <1>1, ToolInHandKeptInPlace DEF LoopMoves, LoopReads
<1>2. CASE LoopLoads
  BY <1>2, ToolIsBound
<1>3. CASE run' = NoRun
  BY <1>3 DEF NoRun, ToolInHand, WithTool
<1>4. CASE Spawns
  <2>1. PICK mode \in Modes, approval \in Nat :
          /\ run' = [NoRun EXCEPT !.pc = "starting", !.mode = mode, !.approval = approval]
          /\ mode = "resume" => approval \in About({"ApprovalSubmitted"})
    BY <1>4 DEF Spawns
  <2>2. run'.pc = "starting" /\ run'.mode = mode /\ run'.approval = approval
    BY <2>1 DEF NoRun
  <2>3. (About({"ApprovalSubmitted"}))' = About({"ApprovalSubmitted"})
    BY <1>4 DEF Spawns, About
  <2> QED BY <2>1, <2>2, <2>3 DEF ToolInHand, WithTool
<1>5. ASSUME NEW e, LoopRecords(e) PROVE ToolInHand'
  BY <1>5, ToolInHandKeptByRecords
<1>6. ASSUME NEW e, Grows(e), e.kind \in SourceKinds \cup {"TaskPaused"}, run' = run
      PROVE  ToolInHand'
  <2>1. /\ e.kind \notin ToolKinds /\ e.kind # "ApprovalRequested"
        /\ e.kind \notin {"ApprovalRequested", "ToolStarted"}
    BY <1>6 DEF SourceKinds, ToolKinds, AskingKinds
  <2>2. /\ \A kinds : e.kind \notin kinds /\ None(kinds, run.proposal)
                        => (None(kinds, run.proposal))'
        /\ LatestRequest' = LatestRequest /\ LatestRequest \in 0 .. Len(log)
    <3>1. \A p : /\ \A kinds : e.kind \notin kinds /\ None(kinds, p) => (None(kinds, p))'
                 /\ e.kind # "ApprovalRequested" => LatestRequest' = LatestRequest
                 /\ LatestRequest \in 0 .. Len(log)
      BY <1>6, ToolFactsStay
    <3>2. \A kinds : (None(kinds, run.proposal))' <=> \A i \in (About(kinds))' : log'[i].about # {run.proposal}
      BY <1>6 DEF None
    <3> QED BY <2>1, <3>1, <3>2 DEF None
  <2>3. /\ run.cache \in 0 .. Len(log) /\ Positions \subseteq Positions' /\ ToolInHand
        /\ \A i \in Positions : log'[i] = log[i]
        /\ (StatusAfter(run.cache))' = StatusAfter(run.cache)
    BY <1>6, LogOnlyGrows DEF IInv, TypeOK, Positions, StatusAfter
  <2>4. /\ About({"ApprovalSubmitted"}) \subseteq (About({"ApprovalSubmitted"}))'
        /\ About({"ApprovalSubmitted"}) \subseteq Positions
    BY <1>6, AboutGrows DEF Positions
  <2>5. run.mode = "resume" /\ ApprovedTool => ApprovedTool'
    <3>1. CASE LatestRequest = 0
      <4> SUFFICES ASSUME run.mode = "resume", ApprovedTool PROVE FALSE
        OBVIOUS
      <4>1. run.approval \in About({"ApprovalSubmitted"}) /\ log[run.approval].about = {0}
        BY <2>3, <3>1 DEF ToolInHand, ApprovedTool
      <4>2. PICK r \in 1 .. (run.approval - 1) : log[run.approval].about = {r}
        BY <4>1 DEF IInv, ToolEventsInOrder
      <4> QED BY <4>1, <4>2
    <3>2. CASE LatestRequest # 0
      <4>1. LatestRequest \in Positions
        BY <2>2, <3>2, LogOnlyGrows DEF Positions, IInv
      <4> QED BY <1>6, <2>2, <2>3, <2>4, <4>1 DEF ApprovedTool, ToolInHand
    <3> QED BY <3>1, <3>2
  <2> QED BY <1>6, <2>1, <2>2, <2>3, <2>4, <2>5 DEF ToolInHand
<1>7. CASE GivesUp
  <2>1. /\ run'.pc = "done" /\ run'.mode = run.mode /\ run'.approval = run.approval
    BY <1>7 DEF GivesUp, IInv, Shapes, Runs
  <2>2. (About({"ApprovalSubmitted"}))' = About({"ApprovalSubmitted"})
    BY <1>7 DEF GivesUp, About
  <2> QED BY <2>1, <2>2 DEF ToolInHand, WithTool, IInv
<1> QED BY <1>1, <1>2, <1>3, <1>4, <1>5, <1>6, <1>7 DEF Steps, LoopEnds, Finish, TickLoad,
           TickRecover, Rests, SourceMoves, LeavesStop, SupervisorRecords, SourceRecords,
           SourceKinds, Restarts, vars

(* What the run that starts a tool has in its hands. *)
LEMMA ToolIsStartedByTheRun ==
  ASSUME IInv, Steps, NEW i \in DOMAIN log', i \notin DOMAIN log, log'[i].kind = "ToolStarted"
  PROVE  /\ i = Len(log) + 1 /\ log'[i].about = {run.proposal}
         /\ \/ None(ToolKinds, run.proposal)
            \/ run.mode = "resume" /\ ApprovedTool
         /\ run.pc \notin Unsettled
<1>1. log' # log
  OBVIOUS
<1>2. PICK e : /\ Grows(e)
               /\ LoopRecords(e) \/ e.kind \in SourceKinds \cup {"TaskPaused"}
  BY <1>1, WhoAppends DEF LoopRecords, LoopWrites
<1>3. i = Len(log) + 1 /\ log'[i] = e
  <2>1. /\ Len(log) \in Nat /\ DOMAIN log = 1 .. Len(log) /\ DOMAIN log' = 1 .. (Len(log) + 1)
        /\ log'[Len(log) + 1] = e
    BY <1>2, Growth DEF IInv
  <2> QED BY <2>1
<1>4. LoopRecords(e) /\ e.kind = "ToolStarted"
  BY <1>2, <1>3 DEF SourceKinds
<1>5. run.pc = "granted" /\ e.about = {run.proposal}
  BY <1>4 DEF LoopRecords, LoopWrites, Writes, Moves, ToolKinds
<1> QED BY <1>3, <1>5 DEF IInv, ToolInHand, Unsettled

(* A tool starts with permission, or with its own approval.                *)
LEMMA NoToolWithoutApprovalKept ==
  ASSUME IInv, Steps
  PROVE  NoToolWithoutApproval'
<1> SUFFICES ASSUME NEW i \in DOMAIN log', log'[i].kind = "ToolStarted",
                    NEW j \in 1 .. (i - 1),
                    log'[j].kind = "RequireApproval", log'[j].about = log'[i].about
             PROVE  \E s \in j .. (i - 1) :
                      /\ log'[s].kind = "ApprovalSubmitted"
                      /\ log'[s].approved
                      /\ \E r \in log'[s].about : log'[r].about = log'[i].about
  BY DEF NoToolWithoutApproval
<1>0. /\ Len(log) \in Nat /\ DOMAIN log = 1 .. Len(log) /\ ToolEventsInOrder /\ ToolInHand
      /\ \A n \in 1 .. Len(log) : log'[n] = log[n]
      /\ \A n \in 1 .. Len(log) : log[n].about \subseteq 1 .. (n - 1)
  BY LogOnlyGrows DEF IInv, TypeOK
<1>1. CASE i \in DOMAIN log
  <2>1. /\ log'[i] = log[i] /\ log'[j] = log[j] /\ j \in 1 .. (i - 1) /\ i \in 1 .. Len(log)
    BY <1>0, <1>1
  <2>2. PICK s \in j .. (i - 1) :
               /\ log[s].kind = "ApprovalSubmitted"
               /\ log[s].approved
               /\ \E r \in log[s].about : log[r].about = log[i].about
    BY <1>1, <2>1 DEF IInv, NoToolWithoutApproval
  <2>3. s \in 1 .. Len(log) /\ \A r \in log[s].about : r \in 1 .. Len(log)
    BY <1>0, <2>1
  <2> QED BY <1>0, <2>1, <2>2, <2>3
<1>2. CASE i \notin DOMAIN log
  <2>1. /\ i = Len(log) + 1 /\ log'[i].about = {run.proposal}
        /\ None(ToolKinds, run.proposal) \/ (run.mode = "resume" /\ ApprovedTool)
    BY <1>2, ToolIsStartedByTheRun
  <2>2. j \in 1 .. Len(log) /\ log'[j] = log[j] /\ log[j].kind = "RequireApproval"
        /\ log[j].about = {run.proposal}
    BY <1>0, <2>1
  <2>3. j \in About(ToolKinds) /\ j \in About({"RequireApproval"})
    BY <1>0, <2>2 DEF About, ToolKinds, AskingKinds
  <2>4. run.mode = "resume" /\ ApprovedTool
    BY <2>1, <2>2, <2>3 DEF None
  <2>5. run.approval \in About({"ApprovalSubmitted"})
    BY <1>0, <2>4 DEF ToolInHand
  <2>6. PICK r \in 1 .. (run.approval - 1) :
          log[run.approval].about = {r} /\ log[r].kind = "ApprovalRequested"
    BY <1>0, <2>5 DEF ToolEventsInOrder
  <2>7. r = LatestRequest /\ log[r].about = {run.proposal} /\ log[run.approval].approved
    BY <2>4, <2>6 DEF ApprovedTool
  <2>8. run.approval \in 1 .. Len(log) /\ r \in 1 .. Len(log)
    BY <1>0, <2>5, <2>6 DEF About
  <2>9. r \in About({"ApprovalRequested"})
    BY <1>0, <2>6, <2>8 DEF About
  <2>10. j < r
    BY <1>0, <2>2, <2>3, <2>7, <2>9 DEF ToolEventsInOrder
  <2>11. run.approval \in j .. (i - 1)
    BY <1>0, <2>1, <2>2, <2>6, <2>8, <2>10
  <2>12. log[run.approval].kind = "ApprovalSubmitted"
    BY <2>5 DEF About
  <2> QED BY <1>0, <2>1, <2>6, <2>7, <2>8, <2>11, <2>12
<1> QED BY <1>1, <1>2

(* A tool starts again only for a request that was never made.             *)
LEMMA ToolRunsAgainOnlyUnaskedKept ==
  ASSUME IInv, Steps
  PROVE  ToolRunsAgainOnlyUnasked'
<1> SUFFICES ASSUME NEW j \in DOMAIN log', NEW i \in 1 .. (j - 1),
                    log'[i].kind = "ToolStarted", log'[j].kind = "ToolStarted",
                    log'[i].about = log'[j].about
             PROVE  \E k \in (i + 1) .. (j - 1) :
                      /\ log'[k].kind = "RequireApproval"
                      /\ \A n \in k .. j : log'[n].kind # "ApprovalRequested"
  BY DEF ToolRunsAgainOnlyUnasked
<1>0. /\ Len(log) \in Nat /\ DOMAIN log = 1 .. Len(log) /\ ToolEventsInOrder /\ ToolInHand
      /\ DOMAIN log' = 1 .. Len(log')
      /\ \A n \in 1 .. Len(log) : log'[n] = log[n]
  BY LogOnlyGrows DEF IInv
<1>1. CASE j \in DOMAIN log
  <2>1. /\ log'[i] = log[i] /\ log'[j] = log[j] /\ j \in 1 .. Len(log)
    BY <1>0, <1>1
  <2>2. PICK k \in (i + 1) .. (j - 1) :
               /\ log[k].kind = "RequireApproval"
               /\ \A n \in k .. j : log[n].kind # "ApprovalRequested"
    BY <1>1, <2>1 DEF IInv, ToolRunsAgainOnlyUnasked
  <2>3. \A n \in k .. j : log'[n] = log[n]
    BY <1>0, <2>1, <2>2
  <2>4. k \in k .. j
    BY <2>1, <2>2
  <2> QED BY <2>2, <2>3, <2>4
<1>2. CASE j \notin DOMAIN log
  <2>1. /\ j = Len(log) + 1 /\ log'[j].about = {run.proposal}
        /\ None(ToolKinds, run.proposal) \/ (run.mode = "resume" /\ ApprovedTool)
        /\ run.pc \notin Unsettled
    BY <1>2, ToolIsStartedByTheRun
  <2>2. i \in 1 .. Len(log) /\ log'[i] = log[i] /\ log[i].kind = "ToolStarted"
        /\ log[i].about = {run.proposal}
    BY <1>0, <2>1
  <2>3. i \in About(ToolKinds) /\ i \in About({"ToolStarted"})
    BY <1>0, <2>2 DEF About, ToolKinds
  <2>4. run.mode = "resume" /\ ApprovedTool
    BY <2>1, <2>2, <2>3 DEF None
  <2>5. /\ run.cache \in 1 .. Len(log) /\ log[run.cache].status = "WaitingApproval"
        /\ i <= run.cache
    <3>1. run.cache \in 0 .. Len(log) /\ StatusAfter(run.cache) = "WaitingApproval"
      BY <2>4 DEF ApprovedTool, IInv, TypeOK
    <3>2. i <= run.cache
      BY <1>0, <2>1, <2>2 DEF IInv, OwnEventsAreSeen, OwnKinds
    <3> QED BY <1>0, <2>2, <3>1, <3>2 DEF StatusAfter
  <2>6. log[i].status # "WaitingApproval"
    <3>1. log[i].status = Target(StatusAfter(i - 1), "ToolStarted")
      BY <1>0, <2>2 DEF IInv, Chained
    <3>2. StatusAfter(i - 1) \in Statuses
      <4>1. i - 1 \in 0 .. Len(log)
        BY <1>0, <2>2
      <4> QED BY <4>1, CurrentIsAStatus DEF IInv
    <3> QED BY <3>1, <3>2, WhereAnEventLeads
  <2>7. PICK k \in (i + 1) .. run.cache : log[k].kind \in AskingKinds
    <3>1. i \in 1 .. (run.cache - 1)
      BY <1>0, <2>2, <2>5, <2>6
    <3> QED BY <1>0, <2>5, <2>6, <3>1 DEF IInv, WaitingWasAsked
  <2>8. \A n \in i .. Len(log) : log[n].kind # "ApprovalRequested"
    <3>1. PICK r \in 1 .. (run.approval - 1) :
            log[run.approval].about = {r} /\ log[r].kind = "ApprovalRequested"
      BY <1>0, <2>4 DEF ToolEventsInOrder, ToolInHand
    <3>2. /\ r = LatestRequest /\ log[r].about = {run.proposal}
          /\ run.approval \in 1 .. Len(log)
      BY <1>0, <2>4, <3>1 DEF ApprovedTool, ToolInHand, About
    <3>3. r \in About({"ApprovalRequested"})
      BY <1>0, <3>1, <3>2 DEF About
    <3>4. r < i
      BY <1>0, <2>2, <2>3, <3>2, <3>3 DEF ToolEventsInOrder
    <3>5. \A n \in About({"ApprovalRequested"}) : n <= r
      <4>1. About({"ApprovalRequested"}) \subseteq 1 .. Len(log)
        BY <1>0 DEF About
      <4>2. LatestRequest = Last(About({"ApprovalRequested"}))
        BY DEF LatestRequest, About
      <4> QED BY <1>0, <3>2, <4>1, <4>2, LastIsGreatest
    <3>6. \A n \in i .. Len(log) : n \in DOMAIN log /\ ~ (n <= r)
      BY <1>0, <2>2, <3>1, <3>2, <3>4
    <3> QED BY <3>5, <3>6 DEF About
  <2>9. /\ k \in (i + 1) .. (j - 1) /\ log'[k] = log[k]
        /\ log[k].kind = "RequireApproval"
    <3>1. k \in i .. Len(log) /\ k \in 1 .. Len(log)
      BY <1>0, <2>2, <2>5, <2>7
    <3> QED BY <1>0, <2>1, <2>2, <2>5, <2>7, <2>8, <3>1 DEF AskingKinds
  <2>10. \A n \in k .. j : log'[n].kind # "ApprovalRequested"
    <3>1. \A n \in k .. Len(log) : n \in i .. Len(log) /\ log'[n] = log[n]
      BY <1>0, <2>2, <2>9
    <3>2. \A n \in k .. j : n = j \/ n \in k .. Len(log)
      BY <1>0, <2>1, <2>9
    <3> QED BY <2>8, <3>1, <3>2
  <2> QED BY <2>9, <2>10
<1> QED BY <1>1, <1>2

-----------------------------------------------------------------------------
(***************************************************************************)
(* The theorems.                                                           *)
(***************************************************************************)
LEMMA InitIsInvariant ==
  ASSUME Init
  PROVE  IInv
<1>1. /\ Created \in Entries /\ Queued \in Entries
      /\ Created.kind = "TaskCreated" /\ Created.about = {} /\ Created.status = "Created"
      /\ Queued.kind = "TaskQueued" /\ Queued.about = {} /\ Queued.status = "Queued"
  BY DEF Created, Queued, Entries, Authors, EventKinds, Statuses, LiveStatuses
<1>2. /\ log \in Seq(Entries) /\ Len(log) = 2 /\ DOMAIN log = {1, 2}
      /\ log[1] = Created /\ log[2] = Queued
  BY <1>1 DEF Init
<1>3. Current = "Queued" /\ StatusAfter(0) = "New" /\ StatusAfter(1) = "Created"
  BY <1>1, <1>2 DEF Current, StatusAfter
<1>4. /\ NoRun \in Runs /\ IdleTick \in Ticks /\ IdleSource \in SourceCalls
      /\ used \in [Budgets -> Nat]
  BY DEF NoRun, Runs, Places, Modes, IdleTick, Ticks, IdleSource, SourceCalls, Budgets, Init
<1>5. Shapes /\ TypeOK /\ RetriesAreLeft
  <2>1. MaxModelTurns \in Nat /\ MaxAttempts \in Nat
    BY RunBounds
  <2>2. Shapes /\ RetriesAreLeft
    <3>1. /\ run = NoRun /\ tick = IdleTick /\ source = IdleSource
          /\ notified \in BOOLEAN /\ cancelled \in BOOLEAN
      BY DEF Init
    <3>2. NoRun.pc # "retrying"
      BY DEF NoRun
    <3> QED BY <1>2, <1>4, <3>1, <3>2 DEF Shapes, RetriesAreLeft
  <2>3. \A i \in DOMAIN log : /\ log[i].kind \in EventKinds
                              /\ log[i].about \subseteq 1 .. (i - 1)
                              /\ log[i].status \in Statuses
    BY <1>1, <1>2 DEF EventKinds, Statuses, LiveStatuses
  <2>4. /\ run.pc = "none" /\ run.mode \in Modes /\ run.cache = 0 /\ run.context = {}
        /\ run.approval = 0 /\ run.proposal = 0 /\ run.turn = 0 /\ run.attempt = 0
    BY DEF Init, NoRun, Modes
  <2>5. /\ tick.pc = "idle" /\ tick.events = 0 /\ tick.seen = 0
        /\ source.pc = "idle" /\ source.cache = 0
    BY DEF Init, IdleTick, IdleSource
  <2>6. notified \in BOOLEAN /\ cancelled \in BOOLEAN
    BY DEF Init
  <2> QED BY <1>2, <2>1, <2>2, <2>3, <2>4, <2>5, <2>6 DEF TypeOK
<1>6. Chained /\ WaitingWasAsked
  <2>1. Target("New", "TaskCreated") = "Created" /\ Target("Created", "TaskQueued") = "Queued"
    BY DEF Target, Requested, StatusKinds, MaskedByPausing, TerminalStatuses
  <2>2. Chained
    BY <1>1, <1>2, <1>3, <2>1 DEF Chained
  <2> QED BY <1>1, <1>2, <2>2 DEF WaitingWasAsked
<1>7. PausingWasRequested /\ PausedWasSeen /\ PausedMeansStopped /\ RunningIsWorkedOn
  BY <1>3 DEF PausingWasRequested, PausedWasSeen, PausedMeansStopped, RunningIsWorkedOn
<1>8. LevelTriggered
  BY DEF LevelTriggered, Init
<1>9. OwnEventsAreSeen /\ BudgetIsChecked /\ BudgetIsForTheTask
  BY <1>1, <1>2 DEF OwnEventsAreSeen, BudgetIsChecked, BudgetIsForTheTask, Init, NoRun, Unsettled
<1>10. ToolEventsInOrder /\ ToolInHand
  BY <1>1, <1>2 DEF ToolEventsInOrder, ToolInHand, About, ToolKinds, AskingKinds, Init, NoRun,
     WithTool
<1>11. NoToolWithoutApproval /\ ToolRunsAgainOnlyUnasked
  BY <1>1, <1>2 DEF NoToolWithoutApproval, ToolRunsAgainOnlyUnasked
<1> QED BY <1>5, <1>6, <1>7, <1>8, <1>9, <1>10, <1>11 DEF IInv

(* Every step keeps the inductive invariant.                               *)
LEMMA StepKeepsInvariant ==
  ASSUME IInv, [Next]_vars
  PROVE  IInv'
<1>1. Steps
  BY StepIsOneOf
<1>2. cancelled' \in BOOLEAN
  BY TokenTypeKept DEF IInv, TypeOK
<1> QED BY <1>1, <1>2, TypesKept, ChainedKept, PausingWasRequestedKept, PausedWasSeenKept,
           PausedMeansStoppedKept, LevelTriggeredKept, RunningIsWorkedOnKept,
           OwnEventsAreSeenKept, BudgetIsCheckedKept, BudgetIsForTheTaskKept,
           ToolEventsInOrderKept, ToolInHandKept, NoToolWithoutApprovalKept,
           ToolRunsAgainOnlyUnaskedKept DEF IInv

(* All of the above together holds in every reachable state, with any      *)
(* number of runs, requests, conflicts and crashes.                        *)
THEOREM InductiveInvariant == Spec => []IInv
BY InitIsInvariant, StepKeepsInvariant, PTL DEF Spec

(* The stream, the run, the tick and the source keep their types, and no   *)
(* position they hold lies outside of the stream.                          *)
THEOREM TypeCorrectness == Spec => []TypeOK
BY InductiveInvariant, PTL DEF IInv

(* agent_runtime.rs, finish_pausing: a task shows Paused only when no run  *)
(* of it is left, although the status is read twice and both reads may be  *)
(* stale.                                                                  *)
THEOREM PausedTasksAreStopped == Spec => []PausedMeansStopped
BY InductiveInvariant, PTL DEF IInv

(* loop.rs, handle_tool_call and resume_after_approval: a tool call that   *)
(* was found to need approval starts only after an approval of the request *)
(* made for it.                                                            *)
THEOREM ToolsAreApproved == Spec => []NoToolWithoutApproval
BY InductiveInvariant, PTL DEF IInv

(* loop.rs, approval_submission: a tool call runs once, unless a later one *)
(* was left between the two events that ask for its approval.              *)
THEOREM ToolsRunOnce == Spec => []ToolRunsAgainOnlyUnasked
BY InductiveInvariant, PTL DEF IInv

(* agent_runtime.rs, tick: when nothing is left to be done, no answered    *)
(* request is waiting, whatever conflicts and crashes came between.        *)
THEOREM ApprovalsAreActedOn == Spec => []ApprovalIsActedOn
<1>1. IInv => ApprovalIsActedOn
  BY DEF IInv, LevelTriggered, ApprovalIsActedOn, Quiescent
<1> QED BY <1>1, InductiveInvariant, PTL

(* agent_runtime.rs, tick: no child looks busy when nothing works on it,   *)
(* but for one whose run died with the process or whose end was lost.      *)
THEOREM ChildrenMoveOn == Spec => []ChildIsNotAbandoned
<1>1. IInv => ChildIsNotAbandoned
  <2>1. ASSUME IInv PROVE used.crashes # 0 => used.crashes > 0
    BY <2>1 DEF IInv, Shapes, Budgets
  <2> QED BY <2>1 DEF IInv, LevelTriggered, PausingWasRequested, RunningIsWorkedOn,
             LeavingPlaces, ChildIsNotAbandoned, Quiescent, IsActive
<1> QED BY <1>1, InductiveInvariant, PTL

(* agent_runtime.rs, pending_tool_results: a result handed back to the     *)
(* main conversation was in the context of a call before it rests.         *)
THEOREM ResultsReachTheModel == Spec => []ToolResultsReachTheModel
<1>1. IInv => ToolResultsReachTheModel
  BY DEF IInv, LevelTriggered, ToolResultsReachTheModel, Quiescent, PendingToolResults, Injected
<1> QED BY <1>1, InductiveInvariant, PTL

(* loop.rs, check_token_budget: no call starts when the recorded calls     *)
(* have used the budget up, across runs, resumes and crashes.              *)
THEOREM BudgetIsKept == Spec => []BudgetIsForTheTask
BY InductiveInvariant, PTL DEF IInv

-----------------------------------------------------------------------------
(***************************************************************************)
(* The stream.  What EventLog shows of every record call holds of the      *)
(* supervisor, the loop and the sources together, which take one as a      *)
(* single step: the stream grows by one legal event at a time.             *)
(***************************************************************************)
Promise == INSTANCE TaskStream WITH
  stream <- [i \in DOMAIN log |-> log[i].kind], status <- Current, Kinds <- EventKinds

GrowsAsPromised == [][Promise!Next]_(Promise!vars)

(* Every event applied where it stands, so a recovery reads the stream.    *)
EveryEventApplies ==
  \A i \in DOMAIN log :
    /\ Applies(IsMain, StatusAfter(i - 1), log[i].kind)
    /\ log[i].status = Target(StatusAfter(i - 1), log[i].kind)

TaskEvents == EventKinds \ TaskManagementKinds

GrowsLegally ==
  \E kind \in TaskEvents, about \in SUBSET Positions, approved \in BOOLEAN, by \in Authors :
    /\ Applies(IsMain, Current, kind)
    /\ log' = Append(log, Event(kind, about, approved, by))

LEMMA RecordIsLegal ==
  ASSUME NEW kind \in TaskEvents, NEW about \in SUBSET Positions, NEW next,
         Record(kind, about, next)
  PROVE  UNCHANGED log \/ GrowsLegally
<1>1. CASE UNCHANGED log
  BY <1>1
<1>2. CASE Accepted(kind) /\ log' = Append(log, Event(kind, about, FALSE, "loop"))
  BY <1>2 DEF GrowsLegally, Accepted, Authors
<1> QED BY <1>1, <1>2 DEF Record, Publish

(* A run records what its projection and the stream accept.                *)
LEMMA RunStepIsLegal ==
  ASSUME IInv, RunStep \/ RunFails
  PROVE  UNCHANGED log \/ GrowsLegally
<1>1. {"BudgetExceeded", "ModelCallStarted", "ModelFailed", "ModelCompleted",
       "TaskCompleted", "ToolProposed", "RequireApproval", "ToolDenied", "ToolStarted",
       "ToolFinished", "ApprovalRequested", "TaskCancelled", "TaskFailed"} \subseteq TaskEvents
  BY DEF TaskEvents, EventKinds, TaskManagementKinds
<1>2. {} \in SUBSET Positions /\ run.context \in SUBSET Positions
  BY DEF IInv, TypeOK
<1>3. run.pc \in WithTool => {run.proposal} \in SUBSET Positions
  BY DEF IInv, ToolInHand
<1>4. CASE BudgetExceeded \/ StartCall \/ RetryCall \/ CallFails \/ ModelAnswers
  BY <1>1, <1>2, <1>4, RecordIsLegal
  DEF BudgetExceeded, StartCall, RetryCall, CallFails, ModelAnswers
<1>5. CASE AnswerText \/ ProposeTool \/ RecordCancelled \/ RecordFailed
  BY <1>1, <1>2, <1>5, RecordIsLegal
  DEF AnswerText, ProposeTool, RecordCancelled, RecordFailed, Go
<1>6. CASE CheckTool \/ DenyTool \/ StartTool \/ FinishTool \/ RequestApproval
  BY <1>1, <1>3, <1>6, RecordIsLegal
  DEF CheckTool, DenyTool, StartTool, FinishTool, RequestApproval, Go, WithTool
<1>7. CASE FailTaskIfNeeded
  BY <1>1, <1>2, <1>7 DEF FailTaskIfNeeded, Publish, GrowsLegally, Authors
<1>8. CASE \/ RecoverRuntime \/ LoadContext \/ StopAtTurn \/ TurnLimit \/ StopAtCall
           \/ StopBeforeTool \/ AskSource \/ RefreshForCancel \/ RefreshForFailure
           \/ Finish \/ ResolveModelFails \/ ToolFails
  BY <1>8 DEF RecoverRuntime, LoadContext, StopAtTurn, TurnLimit, StopAtCall,
     StopBeforeTool, AskSource, RefreshForCancel, RefreshForFailure, Finish,
     ResolveModelFails, ToolFails, Go
<1> QED BY <1>4, <1>5, <1>6, <1>7, <1>8 DEF RunStep, RunFails

(* An input applies in every status, and a new cycle after every end.      *)
LEMMA AlwaysAccepted ==
  /\ \A status \in Statuses : Applies(IsMain, status, "ContextReceived")
  /\ \A status \in TerminalStatuses : Applies(IsMain, status, "TaskQueued")
  /\ Applies(IsMain, "Pausing", "TaskPaused")
BY DEF Applies, Allowed, AcceptedWhenTerminal, Successors, Target, Requested, StatusKinds,
   Statuses, LiveStatuses, TerminalStatuses, CycleInputKinds, MaskedByPausing

(* The supervisor and the sources look at the stream as it is.             *)
LEMMA OtherStepIsLegal ==
  ASSUME IInv, Tick \/ Register \/ Environment
  PROVE  UNCHANGED log \/ GrowsLegally
<1>1. Current \in Statuses
  BY CurrentIsAStatus DEF IInv
<1>2. {"TaskPaused", "TaskCancelled", "TaskQueued", "ContextReceived", "ApprovalSubmitted",
       "ToolFinished"} \cup Controls \subseteq TaskEvents
  <2>1. {"TaskPaused", "TaskCancelled", "TaskQueued", "ContextReceived", "ApprovalSubmitted",
         "ToolFinished", "PauseRequested", "ResumeRequested", "CancellationRequested"}
           \subseteq TaskEvents
    BY DEF TaskEvents, EventKinds, CycleInputKinds, TaskManagementKinds
  <2> QED BY <2>1, ControlsAreRequests DEF ControlsAreRequests
<1>3. {} \in SUBSET Positions /\ {"system", "supervisor", "source"} \subseteq Authors
  BY DEF Authors
<1>4. CASE Tick
  <2>1. \/ UNCHANGED log
        \/ FinishPausing(Prefix(tick.events))
        \/ FinishCancelling
    BY <1>4 DEF Tick, TickLoad, TickRecover, TickAct, Dispatch, StartQueued, ContinueMain,
       ResumeApproved, Spawn
  <2>2. CASE FinishPausing(Prefix(tick.events))
    BY <1>2, <1>3, <2>2, AlwaysAccepted DEF FinishPausing, Publish, GrowsLegally
  <2>3. CASE FinishCancelling
    BY <1>2, <1>3, <2>3 DEF FinishCancelling, Publish, GrowsLegally
  <2> QED BY <2>1, <2>2, <2>3
<1>5. CASE Register
  <2>1. CASE StartNewCycle
    BY <1>2, <1>3, <2>1 DEF StartNewCycle, Fits, Publish, GrowsLegally
  <2>2. CASE RecordInput
    BY <1>1, <1>2, <1>3, <2>2, AlwaysAccepted DEF RecordInput, Publish, GrowsLegally
  <2>3. CASE RefuseInput
    BY <2>3 DEF RefuseInput
  <2> QED BY <1>5, <2>1, <2>2, <2>3 DEF Register
<1>6. CASE Environment
  <2>1. CASE ReceiveInput
    BY <2>1 DEF ReceiveInput
  <2>2. ASSUME NEW kind \in Controls, Control(kind) PROVE GrowsLegally
    BY <1>2, <1>3, <2>2 DEF Control, Publish, GrowsLegally
  <2>3. ASSUME NEW request \in DOMAIN log, NEW approved \in BOOLEAN,
               SubmitApproval(request, approved)
        PROVE  GrowsLegally
    <3>1. {request} \in SUBSET Positions
      BY CurrentIsAStatus DEF IInv
    <3> QED BY <1>2, <1>3, <2>3, <3>1 DEF SubmitApproval, Publish, GrowsLegally
  <2>4. CASE DeliverChildResult
    BY <1>2, <1>3, <2>4 DEF DeliverChildResult, Publish, GrowsLegally
  <2>5. CASE Crash
    BY <1>2, <1>3, <2>5, AlwaysAccepted DEF Crash, GrowsLegally
  <2> QED BY <1>6, <2>1, <2>2, <2>3, <2>4, <2>5 DEF Environment
<1> QED BY <1>4, <1>5, <1>6

LEMMA StepIsLegal ==
  ASSUME IInv, [Next]_vars
  PROVE  UNCHANGED log \/ GrowsLegally
<1>1. CASE UNCHANGED vars
  BY <1>1 DEF vars
<1>2. CASE Unrecorded
  BY <1>2 DEF Unrecorded, FailureUnrecorded, ConfirmationUnrecorded, Go
<1> QED BY <1>1, <1>2, RunStepIsLegal, OtherStepIsLegal DEF Next, Run, Failure

(* What a legal event does to the stream. *)
LEMMA LegalGrowth ==
  ASSUME IInv, NEW kind \in TaskEvents, NEW about \in SUBSET Positions,
         NEW approved \in BOOLEAN, NEW by \in Authors,
         log' = Append(log, Event(kind, about, approved, by))
  PROVE  /\ Len(log) \in Nat /\ DOMAIN log = 1 .. Len(log)
         /\ DOMAIN log' = 1 .. (Len(log) + 1)
         /\ \A i \in 1 .. Len(log) : log'[i] = log[i]
         /\ log'[Len(log) + 1].kind = kind
         /\ log'[Len(log) + 1].status = Target(Current, kind)
         /\ Current' = Target(Current, kind)
<1> DEFINE e == Event(kind, about, approved, by)
<1>1. e.kind = kind /\ e.status = Target(Current, kind) /\ e \in Entries
  <2>1. Target(Current, kind) \in Statuses /\ Positions \subseteq Nat /\ kind \in EventKinds
    BY CurrentIsAStatus, TargetIsAStatus DEF IInv, TaskEvents
  <2> QED BY <2>1 DEF Event, Entries
<1> HIDE DEF e
<1>2. /\ log' \in Seq(Entries) /\ Len(log) \in Nat /\ Len(log') = Len(log) + 1
      /\ DOMAIN log = 1 .. Len(log) /\ DOMAIN log' = 1 .. (Len(log) + 1)
      /\ \A i \in 1 .. Len(log) : log'[i] = log[i]
      /\ log'[Len(log) + 1] = e
  BY <1>1, Appending DEF IInv, Shapes, e
<1>3. Current' = e.status
  BY <1>2 DEF Current, StatusAfter
<1> QED BY <1>1, <1>2, <1>3

(* TaskRuntime::recover reads every stream the supervisor, the loop and    *)
(* the sources leave: each event was legal in the status before it.        *)
THEOREM StreamsStayReadable == Spec => []EveryEventApplies
<1>1. Init => EveryEventApplies
  BY DEF Init, EveryEventApplies, Created, Queued, StatusAfter, Applies, Allowed, Successors,
     Target, Requested, StatusKinds, TerminalStatuses, CycleInputKinds, MaskedByPausing
<1>2. ASSUME IInv, EveryEventApplies, [Next]_vars PROVE EveryEventApplies'
  <2>1. CASE UNCHANGED log
    BY <1>2, <2>1 DEF EveryEventApplies, StatusAfter
  <2>2. CASE GrowsLegally
    <3>1. PICK kind \in TaskEvents, about \in SUBSET Positions, approved \in BOOLEAN,
               by \in Authors :
            /\ Applies(IsMain, Current, kind)
            /\ log' = Append(log, Event(kind, about, approved, by))
      BY <2>2 DEF GrowsLegally
    <3>2. /\ Len(log) \in Nat /\ DOMAIN log = 1 .. Len(log)
          /\ DOMAIN log' = 1 .. (Len(log) + 1)
          /\ \A i \in 1 .. Len(log) : log'[i] = log[i]
          /\ log'[Len(log) + 1].kind = kind
          /\ log'[Len(log) + 1].status = Target(Current, kind)
      BY <1>2, <3>1, LegalGrowth
    <3>3. \A n \in 0 .. Len(log) : StatusAfter(n)' = StatusAfter(n)
      BY <3>2 DEF StatusAfter
    <3>4. ASSUME NEW i \in 1 .. (Len(log) + 1)
          PROVE  /\ Applies(IsMain, StatusAfter(i - 1)', log'[i].kind)
                 /\ log'[i].status = Target(StatusAfter(i - 1)', log'[i].kind)
      <4>1. StatusAfter(i - 1)' = StatusAfter(i - 1)
        BY <3>2, <3>3
      <4>2. CASE i \in 1 .. Len(log)
        BY <1>2, <3>2, <4>1, <4>2 DEF EveryEventApplies
      <4>3. CASE i = Len(log) + 1
        <5>1. StatusAfter(i - 1) = Current
          BY <3>2, <4>3 DEF Current
        <5> QED BY <3>1, <3>2, <4>1, <4>3, <5>1
      <4> QED BY <3>2, <4>2, <4>3
    <3> QED BY <3>2, <3>4 DEF EveryEventApplies
  <2> QED BY <1>2, <2>1, <2>2, StepIsLegal
<1> QED BY <1>1, <1>2, InductiveInvariant, PTL DEF Spec

(* TaskStream reads the rules of TaskProjection through its own instance.  *)
LEMMA SameRules ==
  ASSUME NEW status, NEW kind
  PROVE  /\ Promise!Target(status, kind) = Target(status, kind)
         /\ Promise!Applies(IsMain, status, kind) <=> Applies(IsMain, status, kind)
<1>1. /\ Promise!TerminalStatuses = TerminalStatuses
      /\ Promise!CycleInputKinds = CycleInputKinds
      /\ Promise!StatusKinds = StatusKinds
      /\ Promise!MaskedByPausing = MaskedByPausing
      /\ Promise!ConfigurationKinds = ConfigurationKinds
      /\ Promise!TaskManagementKinds = TaskManagementKinds
  BY DEF Promise!TerminalStatuses, TerminalStatuses,
     Promise!CycleInputKinds, CycleInputKinds, Promise!StatusKinds, StatusKinds,
     Promise!MaskedByPausing, MaskedByPausing,
     Promise!ConfigurationKinds, ConfigurationKinds,
     Promise!TaskManagementKinds, TaskManagementKinds
<1>2. Promise!Requested(kind) = Requested(kind)
  BY DEF Promise!Requested, Requested
<1>3. Promise!Target(status, kind) = Target(status, kind)
  BY <1>1, <1>2 DEF Promise!Target, Target
<1>4. Promise!Successors(status) = Successors(status)
  BY <1>1 DEF Promise!Successors, Successors
<1> QED BY <1>1, <1>3, <1>4 DEF Promise!Applies, Applies, Promise!Allowed, Allowed,
           Promise!AcceptedWhenTerminal, AcceptedWhenTerminal

(* Each step of the run, the supervisor, a source or a crash extends the   *)
(* stream as EventLog shows one record call to, or leaves it: the step of  *)
(* TaskStream, of which the stream of a created task is a continuation.    *)
THEOREM StreamIsAsPromised == Spec => GrowsAsPromised
<1> DEFINE kinds == [i \in DOMAIN log |-> log[i].kind]
<1>1. ASSUME IInv, [Next]_vars
      PROVE  [Promise!Next]_(Promise!vars)
  <2>1. CASE UNCHANGED log
    BY <2>1 DEF Promise!vars, Current, StatusAfter
  <2>2. CASE GrowsLegally
    <3>1. PICK kind \in TaskEvents, about \in SUBSET Positions, approved \in BOOLEAN,
               by \in Authors :
            /\ Applies(IsMain, Current, kind)
            /\ log' = Append(log, Event(kind, about, approved, by))
      BY <2>2 DEF GrowsLegally
    <3>2. /\ Len(log) \in Nat /\ DOMAIN log = 1 .. Len(log)
          /\ DOMAIN log' = 1 .. (Len(log) + 1)
          /\ \A i \in 1 .. Len(log) : log'[i] = log[i]
          /\ log'[Len(log) + 1].kind = kind
          /\ Current' = Target(Current, kind)
      BY <1>1, <3>1, LegalGrowth
    <3>3. kinds \in Seq(EventKinds) /\ Len(kinds) = Len(log)
      <4>1. \A i \in 1 .. Len(log) : log[i].kind \in EventKinds
        BY <1>1, <3>2 DEF IInv, TypeOK
      <4>2. kinds \in [1 .. Len(log) -> EventKinds]
        BY <3>2, <4>1
      <4>3. kinds \in Seq(EventKinds)
        BY <3>2, <4>2, SeqDef
      <4>4. DOMAIN kinds = 1 .. Len(log) /\ DOMAIN kinds = 1 .. Len(kinds) /\ Len(kinds) \in Nat
        BY <4>2, <4>3, LenProperties
      <4> HIDE DEF kinds
      <4> QED BY <3>2, <4>3, <4>4
    <3>4. kinds' = Append(kinds, kind)
      <4>1. kind \in EventKinds
        BY DEF TaskEvents
      <4>2. /\ Append(kinds, kind) \in Seq(EventKinds)
            /\ Len(Append(kinds, kind)) = Len(log) + 1
            /\ \A i \in 1 .. Len(log) : Append(kinds, kind)[i] = kinds[i]
            /\ Append(kinds, kind)[Len(log) + 1] = kind
        BY <3>3, <4>1, AppendProperties
      <4>3. kinds' = [i \in 1 .. (Len(log) + 1) |-> log'[i].kind]
        BY <3>2
      <4>4. \A i \in 1 .. (Len(log) + 1) :
              log'[i].kind = IF i <= Len(log) THEN log[i].kind ELSE kind
        BY <3>2
      <4> QED BY <3>2, <4>2, <4>3, <4>4
    <3>5. kind \in Promise!Recordable
      BY DEF TaskEvents, TaskManagementKinds, Promise!Recordable, Promise!TaskManagementKinds
    <3>6. Promise!Extend(kind)
      BY <3>1, <3>2, <3>4, SameRules DEF Promise!Extend
    <3> QED BY <3>5, <3>6 DEF Promise!Next
  <2> QED BY <1>1, <2>1, <2>2, StepIsLegal
<1> QED BY <1>1, InductiveInvariant, PTL DEF Spec, GrowsAsPromised

=============================================================================
