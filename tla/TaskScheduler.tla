----------------------------- MODULE TaskScheduler -----------------------------
(***************************************************************************)
(* The scheduling loop of agent_runtime.rs over many tasks: notifications  *)
(* of the event store, the wake-up of a run that ended, the scan of all    *)
(* tasks and the slots of max_concurrent_tasks.  What one run does, and    *)
(* the states of a task, are in AgentSupervisor; here a task only has work *)
(* that its next run takes.                                                *)
(***************************************************************************)
EXTENDS Integers, Sequences, FiniteSets

CONSTANTS
  Tasks,           \* the tasks of the store, as list_task_ids sorts them: 1..n
  Slots,           \* max_concurrent_tasks
  MaxWork,         \* bound: inputs, approvals and results that come to a task
  Capacity         \* the notifications a subscriber may leave unread

VARIABLES
  work, came,      \* events of a task no run took yet; how many there were
  active,          \* the tasks that hold a slot
  loaded,          \* what a run was started for
  left,            \* what is left of the scan, <<>> between two
  seen,            \* what the scan read of the task it is at
  wake,            \* the permit of Notify
  notes            \* unread notifications

vars == <<work, came, active, loaded, left, seen, wake, notes>>
Unread == -1
All == [t \in 1..Cardinality(Tasks) |-> t]

\* run: what the store holds at the start is scanned first.
Init ==
  /\ work \in [Tasks -> 0..1] /\ came = work /\ loaded = [t \in Tasks |-> 0]
  /\ active = {} /\ left = All /\ seen = Unread
  /\ wake = FALSE /\ notes = 0

\* A subscriber that falls behind is told so, and scans as well.
Noted == IF notes < Capacity THEN notes + 1 ELSE notes
Come(t) ==
  /\ came[t] < MaxWork
  /\ came' = [came EXCEPT ![t] = @ + 1] /\ work' = [work EXCEPT ![t] = @ + 1]
  /\ notes' = Noted
  /\ UNCHANGED <<active, loaded, left, seen, wake>>

\* run: a permit or a notification starts a scan; the notifications that piled up
\* are cleared before it.
Woken ==
  /\ left = <<>> /\ wake /\ wake' = FALSE /\ left' = All
  /\ UNCHANGED <<work, came, active, loaded, seen, notes>>
Notified ==
  /\ left = <<>> /\ notes > 0 /\ notes' = 0 /\ left' = All
  /\ UNCHANGED <<work, came, active, loaded, seen, wake>>

\* tick, for one task: its events are loaded,
Load ==
  /\ left # <<>> /\ seen = Unread /\ seen' = work[Head(left)]
  /\ UNCHANGED <<work, came, active, loaded, left, wake, notes>>
\* and try_start gives it a slot if there is one; otherwise the tick goes on.
CanStart(t) == t \notin active /\ Cardinality(active) < Slots
Try ==
  LET t == Head(left)
      starts == seen > 0 /\ CanStart(t)
  IN /\ left # <<>> /\ seen # Unread /\ left' = Tail(left) /\ seen' = Unread
     /\ active' = IF starts THEN active \cup {t} ELSE active
     /\ loaded' = IF starts THEN [loaded EXCEPT ![t] = seen] ELSE loaded
     /\ UNCHANGED <<work, came, wake, notes>>

\* The run records what it does with what was read, each event a notification,
Record(t) ==
  /\ t \in active /\ loaded[t] > 0 /\ notes' = Noted
  /\ work' = [work EXCEPT ![t] = IF @ > loaded[t] THEN @ - loaded[t] ELSE 0]
  /\ loaded' = [loaded EXCEPT ![t] = 0]
  /\ UNCHANGED <<came, active, left, seen, wake>>
\* and gives its slot back: finish.
\* Mutant: nobody is woken.
FinishQuietly(t) ==
  /\ t \in active /\ loaded[t] = 0 /\ active' = active \ {t}
  /\ UNCHANGED <<work, came, loaded, left, seen, wake, notes>>
Finish(t) ==
  /\ t \in active /\ loaded[t] = 0 /\ active' = active \ {t} /\ wake' = TRUE
  /\ UNCHANGED <<work, came, loaded, left, seen, notes>>

Next ==
  \/ \E t \in Tasks : Come(t) \/ Record(t) \/ Finish(t)
  \/ Woken \/ Notified \/ Load \/ Try

\* The loop runs while the server does, and a run ends by itself.
Fairness ==
  /\ WF_vars(Woken) /\ WF_vars(Notified) /\ WF_vars(Load \/ Try)
  /\ \A t \in Tasks : WF_vars(Record(t)) /\ WF_vars(Finish(t))
Spec == Init /\ [][Next]_vars /\ Fairness

-----------------------------------------------------------------------------
\* No more runs than slots.
SlotsAreKept == Cardinality(active) <= Slots
\* What comes to a task is taken by a run of it, also when all the slots were taken,
\* or when it came while the tasks were being scanned or its own run was ending.
WorkIsTaken == \A t \in Tasks, n \in 1..MaxWork : came[t] >= n ~> came[t] - work[t] >= n
=============================================================================
