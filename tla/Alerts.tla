--------------------------------- MODULE Alerts ---------------------------------
(***************************************************************************)
(* The service monitor (service_monitor.rs), the alert webhook (alerts.rs) *)
(* and the sink of both (web_source.rs): how the state of a service        *)
(* becomes alerts in the log of the main conversation, each change once.   *)
(*                                                                         *)
(* One check, one sender that posts groups of alerts and posts a group     *)
(* again when the answer is an error.  A probe is healthy or not; names,   *)
(* texts, labels and times are left out.  The log is that of EventLog,     *)
(* reduced to its alerts.                                                  *)
(***************************************************************************)
EXTENDS Integers, Sequences

CONSTANTS
  FailureThreshold, RecoveryThreshold,
  Names,           \* what the sender's alerts are about (fingerprints)
  MaxGroup,        \* bound: alerts of one request
  MaxPosts,        \* bound: requests of the sender
  MaxFlaps,        \* bound: changes of the service
  MaxFaults,       \* bound: appends that fail
  MaxRestarts      \* bound: restarts of the server

VARIABLES
  up,              \* the service the check looks at
  state,           \* CheckState: [status, failures, recoveries]
  log,             \* the alerts recorded: [id, state]
  request,         \* what ingest_alerts still has to look at
  existing,        \* the alerts it compares with
  poster,          \* who waits for it: "none", "monitor" or "sender"
  previous,        \* the CheckState before the alert
  group,           \* what the sender posts until it is taken, <<>> for nothing
  posts, flaps, faults, restarts

vars == <<up, state, log, request, existing, poster, previous, group, posts, flaps,
          faults, restarts>>

Check == "check"
Alert(id, what) == [id |-> id, state |-> what]
Alerts == [id : Names, state : {"firing", "resolved"}]
Groups == UNION {[1..n -> Alerts] : n \in 1..MaxGroup}
Fresh == [status |-> "Healthy", failures |-> 0, recoveries |-> 0]

Init ==
  /\ up = TRUE /\ state = Fresh /\ log = <<>> /\ request = <<>> /\ existing = <<>>
  /\ poster = "none" /\ previous = Fresh /\ group = <<>>
  /\ posts = 0 /\ flaps = 0 /\ faults = 0 /\ restarts = 0

\* The latest state recorded of an identity, "none" when there is none.
Latest(events, id) ==
  LET mine == {i \in 1..Len(events) : events[i].id = id}
  IN IF mine = {} THEN "none" ELSE events[CHOOSE i \in mine : \A j \in mine : j <= i].state

-----------------------------------------------------------------------------
(* The world *)

Flap ==
  /\ flaps < MaxFlaps /\ flaps' = flaps + 1 /\ up' = ~up
  /\ UNCHANGED <<state, log, request, existing, poster, previous, group, posts, faults, restarts>>
Decide(alerts) ==
  /\ group = <<>> /\ posts < MaxPosts /\ posts' = posts + 1 /\ group' = alerts
  /\ UNCHANGED <<up, state, log, request, existing, poster, previous, flaps, faults, restarts>>

-----------------------------------------------------------------------------
(* ingest_alerts, under the write lock *)

Take(who, alerts) ==
  poster = "none" /\ poster' = who /\ request' = alerts /\ existing' = log

\* is_duplicate_alert
IsDuplicate(events, alert) == Latest(events, alert.id) = alert.state

\* existing.push
\* Mutant: the alerts of the request itself are not compared with.
NotCompared(events, alert) == events
Compared(events, alert) == Append(events, alert)

Ingest ==
  LET alert == Head(request)
  IN /\ request # <<>> /\ request' = Tail(request)
     /\ IF IsDuplicate(existing, alert) THEN UNCHANGED <<log, existing>>
        ELSE log' = Append(log, alert) /\ existing' = Compared(existing, alert)
     /\ UNCHANGED <<up, state, poster, previous, group, posts, flaps, faults, restarts>>
Done ==
  /\ poster # "none" /\ request = <<>> /\ poster' = "none" /\ existing' = <<>>
  /\ group' = IF poster = "sender" THEN <<>> ELSE group
  /\ UNCHANGED <<up, state, log, request, previous, posts, flaps, faults, restarts>>

\* run_cycle puts the state back, so that the next check tries again.
\* Mutant: it does not.
KeepState(now, before) == now
PutBack(now, before) == before
\* The append fails, before or after its line is in the file: what is left of the
\* request is dropped with an error.
IngestFails ==
  /\ request # <<>> /\ faults < MaxFaults /\ faults' = faults + 1
  /\ log' \in {log} \cup {Append(log, Head(request)) : n \in IF IsDuplicate(existing, Head(request))
                                                              THEN {} ELSE {1}}
  /\ request' = <<>> /\ existing' = <<>> /\ poster' = "none"
  /\ state' = IF poster = "monitor" THEN PutBack(state, previous) ELSE state
  /\ UNCHANGED <<up, previous, group, posts, flaps, restarts>>

\* A request that holds an alert that does not parse is refused before this.
Post ==
  /\ group # <<>> /\ Take("sender", group)
  /\ UNCHANGED <<up, state, log, previous, group, posts, flaps, faults, restarts>>

-----------------------------------------------------------------------------
(* The monitor *)

\* transition_alert
AfterFailure(s) ==
  IF s.status = "Firing" THEN [s EXCEPT !.recoveries = 0]
  ELSE IF s.failures + 1 < FailureThreshold
       THEN [s EXCEPT !.failures = @ + 1, !.recoveries = 0]
       ELSE [Fresh EXCEPT !.status = "Firing"]
AfterSuccess(s) ==
  IF s.status = "Firing" /\ s.recoveries + 1 < RecoveryThreshold
  THEN [s EXCEPT !.failures = 0, !.recoveries = @ + 1] ELSE Fresh

\* run_cycle: the probe, its effect on the state, the alert of a change.
Cycle ==
  /\ poster = "none"
  /\ state' = IF up THEN AfterSuccess(state) ELSE AfterFailure(state)
  /\ previous' = state
  /\ IF state'.status = state.status THEN UNCHANGED <<request, existing, poster>>
     ELSE Take("monitor", <<Alert(Check, IF up THEN "resolved" ELSE "firing")>>)
  /\ UNCHANGED <<up, log, group, posts, flaps, faults, restarts>>

\* The states of the checks are kept in memory only.
Restart ==
  /\ restarts < MaxRestarts /\ restarts' = restarts + 1
  /\ state' = Fresh /\ previous' = Fresh /\ request' = <<>> /\ existing' = <<>> /\ poster' = "none"
  /\ UNCHANGED <<up, log, group, posts, flaps, faults>>

Next ==
  \/ Flap \/ (\E alerts \in Groups : Decide(alerts))
  \/ Ingest \/ Done \/ IngestFails \/ Post \/ Cycle \/ Restart

\* The interval ticks, an append returns, the lock is given in turn: the monitor
\* is not kept from its cycle by the requests of the sender.
Fairness == WF_vars(Ingest) /\ WF_vars(Done) /\ SF_vars(Cycle)
Spec == Init /\ [][Next]_vars /\ Fairness

-----------------------------------------------------------------------------
\* An alert is recorded when its state differs from the last one recorded of the
\* same identity, also within a request and when a request is sent again.
EachChangeOnce ==
  \A j \in 1..Len(log) : Latest(SubSeq(log, 1, j - 1), log[j].id) # log[j].state

\* A request that was answered left every alert's state behind: the last one it
\* holds of an identity is the last one recorded.
AnsweredIsRecorded ==
  [][poster = "sender" /\ poster' = "none" /\ group' = <<>> =>
       \A name \in Names :
         Latest(group, name) # "none" => Latest(log, name) = Latest(group, name)]_vars

\* An outage that lasts reaches the log, whatever failed to be recorded.
OutageIsReported == ~up ~> up \/ Latest(log, Check) = "firing"

\* So does the recovery from an outage that was reported (README.md).
RecoveryIsReported == up /\ Latest(log, Check) = "firing" ~> ~up \/ Latest(log, Check) = "resolved"
=============================================================================
