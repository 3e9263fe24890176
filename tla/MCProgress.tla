------------------------------ MODULE MCProgress ------------------------------
(***************************************************************************)
(* Small instances of the components that must get somewhere.  A behaviour *)
(* is one of one component: "part" says of which, the others stay as they  *)
(* start, and fairness is owed to the steps of that component only.  The   *)
(* runner of commands has the variables of CommandRunner.                  *)
(***************************************************************************)
EXTENDS CommandRunner, Sequences, FiniteSets

VARIABLES
  part,
  \* QqGateway
  platform, link, session, handed, breaks, opened,
  \* TaskScheduler
  work, came, active, loaded, left, seen, wake, notes,
  \* Alerts
  up, state, alerts, request, existing, poster, previous, posted, posts, flaps, faults, restarts

gatewayVars == <<platform, link, session, handed, breaks, opened>>
schedulerVars == <<work, came, active, loaded, left, seen, wake, notes>>
alertVars == <<up, state, alerts, request, existing, poster, previous, posted, posts, flaps,
               faults, restarts>>
allVars == <<part, gatewayVars, schedulerVars, alertVars, vars>>

\* Two sessions of two dispatches, and two connections that end.
Gateway == INSTANCE QqGateway WITH MaxDispatches <- 2, MaxSessions <- 2, MaxBreaks <- 2

\* Two tasks and one slot; one notification fits.
Tasks == {1, 2}
Scheduler == INSTANCE TaskScheduler WITH Slots <- 1, MaxWork <- 2, Capacity <- 1

\* A check that fails and recovers on the second try; a sender of up to two alerts at
\* a time, about the same thing.
Names == {"disk"}
Alerting == INSTANCE Alerts WITH
  log <- alerts, group <- posted, FailureThreshold <- 2, RecoveryThreshold <- 2, MaxGroup <- 2,
  MaxPosts <- 2, MaxFlaps <- 2, MaxFaults <- 1, MaxRestarts <- 1

\* cat, echo, a program that prints more than is read, one that never ends, and one
\* that leaves a process behind that holds its pipes.
Behaviour(reads, says, ends, helper) ==
  [reads |-> reads, says |-> says, ends |-> ends, helper |-> helper]
Programs ==
  {Behaviour(TRUE, 0, TRUE, FALSE), Behaviour(FALSE, 1, TRUE, FALSE),
   Behaviour(FALSE, 5, TRUE, FALSE), Behaviour(FALSE, 1, FALSE, FALSE),
   Behaviour(TRUE, 1, TRUE, TRUE)}

-----------------------------------------------------------------------------
InGateway == part = "gateway"
InScheduler == part = "scheduler"
InAlerts == part = "alerts"
InRunner == part = "runner"

ProgressInit ==
  /\ part \in {"gateway", "scheduler", "alerts", "runner"}
  /\ Gateway!Init /\ Scheduler!Init /\ Alerting!Init /\ Init
  /\ part # "scheduler" => work = [t \in Tasks |-> 0]

ProgressNext ==
  /\ UNCHANGED part
  /\ \/ /\ InGateway /\ Gateway!Next
        /\ UNCHANGED <<schedulerVars, alertVars, vars>>
     \/ /\ InScheduler /\ Scheduler!Next
        /\ UNCHANGED <<gatewayVars, alertVars, vars>>
     \/ /\ InAlerts /\ Alerting!Next
        /\ UNCHANGED <<gatewayVars, schedulerVars, vars>>
     \/ /\ InRunner /\ Next
        /\ UNCHANGED <<gatewayVars, schedulerVars, alertVars>>

(* The fairness of each component, owed while it is the one that acts. *)
GatewayFairness ==
  /\ WF_gatewayVars(InGateway /\ Gateway!Connect) /\ WF_gatewayVars(InGateway /\ Gateway!Tick)
  /\ WF_gatewayVars(InGateway /\ Gateway!Hello) /\ WF_gatewayVars(InGateway /\ Gateway!Ack)
  /\ WF_gatewayVars(InGateway /\ Gateway!ReadBeat) /\ WF_gatewayVars(InGateway /\ Gateway!ReadEnd)
  /\ SF_gatewayVars(InGateway /\ Gateway!ReadDispatch)
SchedulerFairness ==
  /\ WF_schedulerVars(InScheduler /\ Scheduler!Woken)
  /\ WF_schedulerVars(InScheduler /\ Scheduler!Notified)
  /\ WF_schedulerVars(InScheduler /\ (Scheduler!Load \/ Scheduler!Try))
  /\ \A t \in Tasks : /\ WF_schedulerVars(InScheduler /\ Scheduler!Record(t))
                      /\ WF_schedulerVars(InScheduler /\ Scheduler!Finish(t))
AlertsFairness ==
  /\ WF_alertVars(InAlerts /\ Alerting!Ingest) /\ WF_alertVars(InAlerts /\ Alerting!Done)
  /\ SF_alertVars(InAlerts /\ Alerting!Cycle)
RunnerFairness ==
  /\ WF_vars(InRunner /\ Feed) /\ WF_vars(InRunner /\ FeedFails)
  /\ WF_vars(InRunner /\ CloseInput) /\ WF_vars(InRunner /\ Take)
  /\ WF_vars(InRunner /\ OutputEnds) /\ WF_vars(InRunner /\ Wait)
  /\ WF_vars(InRunner /\ Return) /\ WF_vars(InRunner /\ Term)
  /\ WF_vars(InRunner /\ Kill) /\ WF_vars(InRunner /\ Program)
  /\ WF_vars(InRunner /\ Hangs /\ Stop("timeout"))

ProgressSpec ==
  /\ ProgressInit /\ [][ProgressNext]_allVars
  /\ GatewayFairness /\ SchedulerFairness /\ AlertsFairness /\ RunnerFairness

-----------------------------------------------------------------------------
\* QqGateway: a dispatch of a session the adapter knows reaches it through every
\* loss of the connection.
DispatchesAreTaken == [](Gateway!TypeOK) /\ (InGateway => Gateway!DispatchesAreTaken)

\* TaskScheduler: what comes to a task is taken by a run of it, though the slots were
\* all taken, and never are more runs than slots.
WorkIsTaken == [](Scheduler!SlotsAreKept) /\ (InScheduler => Scheduler!WorkIsTaken)

\* Alerts: each change is recorded once, and the answer to a request says that its
\* alerts are recorded.
AlertsAreRecordedOnce ==
  [](InAlerts => Alerting!EachChangeOnce) /\ Alerting!AnsweredIsRecorded
\* An outage that lasts reaches the log.
OutageIsReported == InAlerts => Alerting!OutageIsReported

\* CallEnds and CallIsCleanAndWhole are those of CommandRunner: nothing runs in the
\* behaviours of the others.
=============================================================================
