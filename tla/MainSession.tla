------------------------------ MODULE MainSession ------------------------------
(***************************************************************************)
(* The main conversation under administration: the server's start opens    *)
(* it (main.rs), the console ends, queues, clears and deletes it           *)
(* (console.rs), while sources and a run of the agent go on writing to it. *)
(* The console looks whether a run is active before it writes; what        *)
(* follows is not one step with that look.                                 *)
(*                                                                         *)
(* A record call, with its second try after a conflict, is one step here;  *)
(* EventLog has its parts.                                                 *)
(***************************************************************************)
EXTENDS Naturals, Sequences, TaskProjection

CONSTANTS
  Commands,        \* what the console may record: lifecycle events, the compaction of a clear
  MaxEvents,       \* bound: events of the stream
  MaxClears,       \* bound: deletions of the stream
  MaxCrashes       \* bound: crashes

VARIABLES
  stream,          \* the kinds of the events in the file
  server,          \* "boot", "up" or "failed"
  console,         \* [phase, kind, cache]: the command, or the start of the server
  outcome,         \* of the last creation of the stream: "none", "ok", "error"
  source, run,     \* [phase, cache]: an ingress call and a run of the agent
  overlapped,      \* the last deletion came while the source or the run was at work
  clears, crashes

vars == <<stream, server, console, outcome, source, run, overlapped, clears, crashes>>

Status(events) ==
  LET after[n \in 0..Len(events)] ==
        IF n = 0 THEN "New" ELSE Project(TRUE, after[n - 1], events[n])
  IN after[Len(events)]
Fresh == [seq |-> 0, status |-> "New"]
Latest == [seq |-> Len(stream), status |-> Status(stream)]
Recoverable == stream # <<>> /\ Status(stream) # Unreadable
Idle == [phase |-> "idle", kind |-> "None", cache |-> Fresh]

Init ==
  /\ stream = <<>> /\ server = "boot" /\ console = Idle /\ outcome = "none"
  /\ source = Idle /\ run = Idle /\ overlapped = FALSE /\ clears = 0 /\ crashes = 0

\* record_with_provenance: valid for the cache; at a conflict of the sequence valid
\* for the stream as it is.
\* Mutant: at a conflict somebody else has done it already.
Accepts(cache, kind) ==
  /\ Applies(TRUE, cache.status, kind) /\ Len(stream) < MaxEvents
  /\ cache.seq # Len(stream) => Project(TRUE, Status(stream), kind) # Unreadable
StreamOfFirst(cache, kind) ==
  IF Accepts(cache, kind) /\ cache.seq = Len(stream) THEN Append(stream, kind) ELSE stream
StreamWith(cache, kind) == IF Accepts(cache, kind) THEN Append(stream, kind) ELSE stream
CacheWith(cache, kind) ==
  IF ~Accepts(cache, kind) THEN cache
  ELSE [seq |-> Len(stream) + 1,
        status |-> Target(IF cache.seq = Len(stream) THEN cache.status ELSE Status(stream), kind)]

-----------------------------------------------------------------------------
(* The start, and initialize_empty_main_session *)

Boot ==
  /\ server = "boot" /\ console.phase = "idle"
  /\ \/ /\ stream = <<>> /\ console' = [Idle EXCEPT !.phase = "create"] /\ UNCHANGED <<stream, server>>
     \/ /\ Status(stream) = Unreadable /\ server' = "failed" /\ UNCHANGED <<stream, console>>
     \/ /\ Recoverable /\ server' = "up" /\ UNCHANGED console
        /\ stream' = IF Status(stream) \in TerminalStatuses THEN StreamWith(Latest, "TaskQueued")
                     ELSE stream
  /\ UNCHANGED <<outcome, source, run, overlapped, clears, crashes>>

Creation == UNCHANGED <<source, run, overlapped, clears, crashes>>
Create ==
  /\ console.phase = "create" /\ Creation
  /\ stream' = StreamWith(Fresh, "TaskCreated")
  /\ IF Accepts(Fresh, "TaskCreated")
     THEN /\ console' = [Idle EXCEPT !.phase = "queue", !.cache = CacheWith(Fresh, "TaskCreated")]
          /\ UNCHANGED <<server, outcome>>
     ELSE /\ console' = Idle /\ outcome' = "error"
          /\ server' = IF server = "boot" THEN "failed" ELSE server
Queue ==
  LET done == Accepts(console.cache, "TaskQueued")
  IN /\ console.phase = "queue" /\ Creation /\ console' = Idle
     /\ stream' = StreamWith(console.cache, "TaskQueued")
     /\ outcome' = IF done THEN "ok" ELSE "error"
     /\ server' = CASE server = "up" -> "up" [] done -> "up" [] OTHER -> "failed"

-----------------------------------------------------------------------------
(* The console *)

Others == UNCHANGED <<server, source, run, crashes>>
\* clear_all_events: an empty stream is created again; otherwise there must be no
\* active run, and the stream must be readable,
ClearAll ==
  /\ server = "up" /\ console.phase = "idle" /\ clears < MaxClears /\ clears' = clears + 1
  /\ stream = <<>> \/ (run.phase = "idle" /\ Recoverable)
  /\ console' = [Idle EXCEPT !.phase = IF stream = <<>> THEN "create" ELSE "delete"]
  /\ outcome' = "none" /\ Others /\ UNCHANGED <<stream, overlapped>>
\* before it is deleted.
Delete ==
  /\ console.phase = "delete" /\ stream' = <<>> /\ console' = [Idle EXCEPT !.phase = "create"]
  /\ overlapped' = (source.phase # "idle" \/ run.phase # "idle")
  /\ Others /\ UNCHANGED <<outcome, clears>>
\* internal_lifecycle and clear_context
Check(kind) ==
  /\ server = "up" /\ console.phase = "idle" /\ run.phase = "idle" /\ Recoverable
  /\ console' = [phase |-> "record", kind |-> kind, cache |-> Latest]
  /\ Others /\ UNCHANGED <<stream, outcome, overlapped, clears>>
Command ==
  /\ console.phase = "record" /\ console' = Idle
  /\ stream' = StreamWith(console.cache, console.kind)
  /\ Others /\ UNCHANGED <<outcome, overlapped, clears>>

-----------------------------------------------------------------------------
(* A source, and a run with the events it loaded *)

Writer == UNCHANGED <<server, console, outcome, overlapped, clears, crashes>>
Ingest ==
  /\ server = "up" /\ Writer /\ UNCHANGED run
  /\ \/ /\ source.phase = "idle" /\ Recoverable /\ UNCHANGED stream
        /\ source' = [Idle EXCEPT !.phase = "record", !.cache = Latest]
     \/ /\ source.phase = "record" /\ source' = Idle
        /\ stream' = StreamWith(source.cache, "ContextReceived")
Start ==
  /\ server = "up" /\ run.phase = "idle" /\ Writer /\ UNCHANGED <<stream, source>>
  /\ Status(stream) \in {"New", "Queued", "Running"}
  /\ \E n \in DOMAIN stream : stream[n] = "ContextReceived"
  /\ run' = [Idle EXCEPT !.phase = "active", !.cache = Latest]
RunRecords(kind) ==
  /\ run.phase = "active" /\ Writer /\ UNCHANGED source
  /\ stream' = StreamWith(run.cache, kind)
  /\ run' = IF Accepts(run.cache, kind) THEN [run EXCEPT !.cache = CacheWith(run.cache, kind)] ELSE Idle
RunEnds ==
  /\ run.phase = "active" /\ run' = Idle /\ Writer /\ UNCHANGED <<stream, source>>

Crash ==
  /\ server # "failed" /\ crashes < MaxCrashes /\ crashes' = crashes + 1
  /\ server' = "boot" /\ console' = Idle /\ source' = Idle /\ run' = Idle /\ outcome' = "none"
  /\ UNCHANGED <<stream, overlapped, clears>>

-----------------------------------------------------------------------------
Next ==
  \/ Boot \/ Create \/ Queue \/ ClearAll \/ Delete \/ Command \/ \E kind \in Commands : Check(kind)
  \/ Ingest \/ Start \/ RunEnds \/ Crash
  \/ \E kind \in {"ModelCallStarted", "RequireApproval", "TaskFailed"} : RunRecords(kind)
Spec == Init /\ [][Next]_vars

-----------------------------------------------------------------------------
\* When the console or the start says that it has created the conversation, the
\* conversation has been queued, and can still be read, whatever was written in
\* between; only a source or a run that was at work when the old stream was deleted
\* may have spoiled the new one.
CreatedIsServed ==
  outcome = "ok" => /\ Status(stream) \notin {"New", "Created"}
                    /\ Status(stream) = Unreadable => overlapped

\* Validated first on a copy, no event makes a stream that cannot be recovered.
ValidatedStreamRecovers == Status(stream) # Unreadable
=============================================================================
