------------------------------ MODULE EventLog ------------------------------
(***************************************************************************)
(* One task's persisted event stream and the TaskRuntimes that write it:   *)
(* the agent loop, the ingress registrar, the control executor, the        *)
(* supervisor and the task manager each recover a runtime of their own,    *)
(* and nothing but the sequence check of the store orders them.            *)
(*                                                                         *)
(* A record call is optimistic: the event is validated against the cached  *)
(* projection, appended at the cached sequence plus one, and on a sequence *)
(* conflict the projection is rebuilt from the store, the event validated  *)
(* again and appended once more.  Calls run concurrently between those     *)
(* steps.                                                                  *)
(***************************************************************************)
EXTENDS Naturals, Sequences, TaskProjection

CONSTANTS
  Writers,   (* Runtimes of the task.                                      *)
  IsMain,    (* The task is the main conversation (TaskId::is_main).       *)
  Kinds,     (* Kinds of events that are recorded.                         *)
  MaxCalls   (* Record calls per writer.  Bounds the model.                *)

ASSUME IsMainIsBoolean == IsMain \in BOOLEAN
ASSUME KindsAreEvents == Kinds \subseteq EventKinds
ASSUME MaxCallsIsNat == MaxCalls \in Nat

VARIABLES
  log,      (* The persisted events: kind, the writer and its call.        *)
  replay,   (* replay[i]: what replaying the first i events gives.         *)
  cache,    (* The projection each runtime holds: sequence and status.     *)
  pc,       (* Where each writer is in record_with_provenance.             *)
  pending,  (* The kind of the event it is recording.                      *)
  calls     (* How many record calls it has begun; names its events.       *)

vars == <<log, replay, cache, pc, pending, calls>>

NoEvent == "None"

Events == [kind : EventKinds, by : Writers, call : Nat]
Projections == [seq : Nat, status : Statuses]

(* TaskRuntime::new: the projection of the empty stream. *)
Fresh == [seq |-> 0, status |-> "New"]

(* What the first n events project to. *)
StatusAfter(n) == IF n = 0 THEN "New" ELSE replay[n]

(* What load_task followed by a replay of the whole stream gives. *)
Current == StatusAfter(Len(log))
Latest == [seq |-> Len(log), status |-> Current]

Recordable == IF IsMain THEN Kinds ELSE Kinds \ TaskManagementKinds

Init ==
  /\ log = <<>>
  /\ replay = <<>>
  /\ cache = [w \in Writers |-> Fresh]
  /\ pc = [w \in Writers |-> "closed"]
  /\ pending = [w \in Writers |-> NoEvent]
  /\ calls = [w \in Writers |-> 0]

-----------------------------------------------------------------------------
(***************************************************************************)
(* TaskRuntime.                                                            *)
(***************************************************************************)

(* TaskRuntime::new is used where a task is created, before anybody else   *)
(* knows its id.                                                           *)
OpenNew(w) ==
  /\ \A v \in Writers : pc[v] = "closed"
  /\ log = <<>>
  /\ cache' = [cache EXCEPT ![w] = Fresh]
  /\ pc' = [pc EXCEPT ![w] = "idle"]
  /\ UNCHANGED <<log, replay, pending, calls>>

(* TaskRuntime::recover refuses an empty stream and one it cannot replay.  *)
Recover(w) ==
  /\ pc[w] \in {"closed", "idle"}
  /\ log # <<>>
  /\ Current # Unreadable
  /\ cache' = [cache EXCEPT ![w] = Latest]
  /\ pc' = [pc EXCEPT ![w] = "idle"]
  /\ UNCHANGED <<log, replay, pending, calls>>

(* TaskRuntime::refresh_projection, called on its own.                     *)
RefreshProjection(w) ==
  /\ pc[w] = "idle"
  /\ Current # Unreadable
  /\ cache' = [cache EXCEPT ![w] = Latest]
  /\ UNCHANGED <<log, replay, pc, pending, calls>>

(* record_with_provenance up to the first append: an event that does not   *)
(* apply to the cached projection is refused before anything is stored.    *)
(* Whoever creates a task records TaskCreated first.                       *)
BeginRecord(w, kind) ==
  /\ pc[w] = "idle"
  /\ calls[w] < MaxCalls
  /\ kind \in Recordable
  /\ cache[w].seq = 0 => kind = "TaskCreated"
  /\ Applies(IsMain, cache[w].status, kind)
  /\ pending' = [pending EXCEPT ![w] = kind]
  /\ calls' = [calls EXCEPT ![w] = @ + 1]
  /\ pc' = [pc EXCEPT ![w] = "append"]
  /\ UNCHANGED <<log, replay, cache>>

(* The call returns, with its event or with an error. *)
Return(w) ==
  /\ pc' = [pc EXCEPT ![w] = "idle"]
  /\ pending' = [pending EXCEPT ![w] = NoEvent]
  /\ UNCHANGED calls

(* Mutant: the store no longer checks the sequence. *)
SequenceIgnored(w) == cache[w].seq <= Len(log)

(* The store accepts only the sequence that follows its last event. *)
SequenceMatches(w) == cache[w].seq = Len(log)

Store(w) ==
  /\ log' = Append(log, [kind |-> pending[w], by |-> w, call |-> calls[w]])
  /\ replay' = Append(replay, Project(IsMain, Current, pending[w]))

AppendSucceeds(w) ==
  /\ pc[w] \in {"append", "retry"}
  /\ SequenceMatches(w)
  /\ Store(w)
  /\ cache' = [cache EXCEPT ![w] =
       [seq |-> @.seq + 1, status |-> Target(@.status, pending[w])]]
  /\ Return(w)

(* Mutant: every error, not only a sequence conflict, is retried. *)
AppendFailsAndRetries(w) ==
  /\ pc[w] = "append"
  /\ SequenceMatches(w)
  /\ Store(w) \/ UNCHANGED <<log, replay>>
  /\ pc' = [pc EXCEPT ![w] = "refresh"]
  /\ UNCHANGED <<cache, pending, calls>>

(* An I/O error of the append.  The line may already be in the file: the   *)
(* error can come from sync_data, after the write.                         *)
AppendFails(w) ==
  /\ pc[w] \in {"append", "retry"}
  /\ SequenceMatches(w)
  /\ Store(w) \/ UNCHANGED <<log, replay>>
  /\ UNCHANGED <<cache>>
  /\ Return(w)

AppendConflicts(w) ==
  /\ pc[w] = "append"
  /\ ~ SequenceMatches(w)
  /\ pc' = [pc EXCEPT ![w] = "refresh"]
  /\ UNCHANGED <<log, replay, cache, pending, calls>>

(* Mutant: only the sequence is refreshed. *)
RefreshSequenceOnly(w) ==
  /\ pc[w] = "refresh"
  /\ cache' = [cache EXCEPT ![w].seq = Len(log)]
  /\ pc' = [pc EXCEPT ![w] = "retry"]
  /\ UNCHANGED <<log, replay, pending, calls>>

(* Mutant: the event is not validated against the refreshed projection. *)
RefreshWithoutValidating(w) ==
  /\ pc[w] = "refresh"
  /\ cache' = [cache EXCEPT ![w] = Latest]
  /\ pc' = [pc EXCEPT ![w] = "retry"]
  /\ UNCHANGED <<log, replay, pending, calls>>

(* The conflict branch: refresh and validate again.  (A stream that cannot *)
(* be replayed would end the call here; StreamReplays says there is none.) *)
RefreshForRetry(w) ==
  /\ pc[w] = "refresh"
  /\ Current # Unreadable
  /\ cache' = [cache EXCEPT ![w] = Latest]
  /\ \/ /\ Applies(IsMain, Current, pending[w])
        /\ pc' = [pc EXCEPT ![w] = "retry"]
        /\ UNCHANGED <<pending, calls>>
     \/ /\ ~ Applies(IsMain, Current, pending[w])
        /\ Return(w)
  /\ UNCHANGED <<log, replay>>

(* Only one retry: a second conflict is the caller's error. *)
RetryConflicts(w) ==
  /\ pc[w] = "retry"
  /\ ~ SequenceMatches(w)
  /\ Return(w)
  /\ UNCHANGED <<log, replay, cache>>

(***************************************************************************)
(* The process.                                                            *)
(***************************************************************************)

(* The process stops between two steps and starts again: every runtime is  *)
(* gone, the file stays.                                                   *)
Restart ==
  /\ cache' = [w \in Writers |-> Fresh]
  /\ pc' = [w \in Writers |-> "closed"]
  /\ pending' = [w \in Writers |-> NoEvent]
  /\ UNCHANGED <<log, replay, calls>>

Step(w) ==
  \/ OpenNew(w)
  \/ Recover(w)
  \/ RefreshProjection(w)
  \/ \E kind \in Kinds : BeginRecord(w, kind)
  \/ AppendSucceeds(w)
  \/ AppendConflicts(w)
  \/ RefreshForRetry(w)
  \/ RetryConflicts(w)

Next == Restart \/ \E w \in Writers : Step(w) \/ AppendFails(w)

Spec == Init /\ [][Next]_vars

-----------------------------------------------------------------------------
TypeOK ==
  /\ log \in Seq(Events)
  /\ replay \in Seq(Statuses \cup {Unreadable})
  /\ Len(replay) = Len(log)
  /\ cache \in [Writers -> Projections]
  /\ pc \in [Writers -> {"closed", "idle", "append", "refresh", "retry"}]
  /\ pending \in [Writers -> EventKinds \cup {NoEvent}]
  /\ calls \in [Writers -> Nat]

(* No append, however the calls interleave, leaves a stream that recovery  *)
(* cannot replay: the promise the comment in record_with_provenance makes. *)
StreamReplays == \A i \in DOMAIN replay : replay[i] # Unreadable

(* The projection a runtime holds is, at every moment, the true projection *)
(* of the events it has seen: optimistic updates never drift from the      *)
(* store.                                                                  *)
CacheIsAPrefix ==
  \A w \in Writers :
    /\ cache[w].seq <= Len(log)
    /\ cache[w].status = StatusAfter(cache[w].seq)

(* The conflict retry never stores the event of one record call twice.     *)
OneEventPerCall ==
  \A i, j \in DOMAIN log :
    log[i].by = log[j].by /\ log[i].call = log[j].call => i = j

(* A pause that has been requested is never overtaken by the outcome of    *)
(* the turn it interrupts, whatever that turn's runtime still believed.    *)
PauseOutranksOutcome ==
  [][Current = "Pausing" =>
       (Current' \in {"Pausing", "Paused", "Cancelled", "Expired"})]_vars

(* A cycle that has ended is reopened only by queueing: no late event of   *)
(* the old run, written from a stale projection, changes its outcome.      *)
EndedCycleIsSealed ==
  [][(Current \in TerminalStatuses) => (Current' \in {Current, "Queued"})]_vars

(* The streams the store and the runtimes promise. *)
Promise == INSTANCE TaskStream WITH
             stream <- [i \in DOMAIN log |-> log[i].kind],
             status <- Current
Linearizable == Promise!Spec

=============================================================================
