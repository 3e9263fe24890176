------------------------------ MODULE JsonlStore ------------------------------
(***************************************************************************)
(* The JSON Lines file of one task (event_store.rs): what an append writes *)
(* piece by piece, what a load finds at any moment, what a failed write or *)
(* a crash leaves behind.  The text of an event goes to the file in one    *)
(* write and the end of its line in another (writeln! on an unbuffered     *)
(* file); a write may also be cut short, so the text has two parts.        *)
(*                                                                         *)
(* EventLog takes an append for one step that stores the event or does not.*)
(***************************************************************************)
EXTENDS Naturals, Sequences

CONSTANTS
  Callers,      (* Runtimes that append to the task.                       *)
  MaxAppends,   (* Append calls.  Bounds the model.                        *)
  MaxFailures,  (* I/O errors.  Bounds the model.                          *)
  MaxCrashes    (* Crashes of the host.  Bounds the model.                 *)

ASSUME BoundsAreNat == {MaxAppends, MaxFailures, MaxCrashes} \subseteq Nat

VARIABLES
  file,    (* What the kernel has of the file, in pieces.                  *)
  synced,  (* How many of them sync_data has made durable.                 *)
  lock,    (* Who holds the write lock.                                    *)
  pc,      (* Where each caller is in append.                              *)
  known,   (* The sequence each caller's projection has reached.           *)
  event,   (* The event it appends.                                        *)
  acked,   (* Events whose append has returned Ok.                         *)
  heard,   (* Events sent to the subscribers of this process.              *)
  used     (* How much of each bound is used.                              *)

vars == <<file, synced, lock, pc, known, event, acked, heard, used>>

Nobody == "nobody"
ASSUME NobodyIsNoCaller == Nobody \notin Callers

NoEvent == [seq |-> 0, id |-> 0]

Piece(part, e) == [part |-> part, event |-> e]

Init ==
  /\ file = <<>>
  /\ synced = 0
  /\ lock = Nobody
  /\ pc = [c \in Callers |-> "idle"]
  /\ known = [c \in Callers |-> 0]
  /\ event = [c \in Callers |-> NoEvent]
  /\ acked = {}
  /\ heard = <<>>
  /\ used = [appends |-> 0, failures |-> 0, crashes |-> 0]

-----------------------------------------------------------------------------
(***************************************************************************)
(* Reading: the events read so far, the pieces of the line being read, and *)
(* whether every line was an event.                                        *)
(***************************************************************************)
NothingRead == [events |-> <<>>, line |-> <<>>, ok |-> TRUE]

(* Mutant: a line that is no event is skipped. *)
SkipBadLine(read) ==
  LET e == IF read.line = <<>> THEN NoEvent ELSE Head(read.line).event IN
  IF read.line = <<Piece("head", e), Piece("tail", e)>>
  THEN [read EXCEPT !.events = Append(@, e), !.line = <<>>]
  ELSE [read EXCEPT !.line = <<>>]

(* A line is empty, the text of one event, or an error. *)
EndOfLine(read) ==
  IF read.line = <<>> THEN read
  ELSE LET e == Head(read.line).event IN
       IF read.line = <<Piece("head", e), Piece("tail", e)>>
       THEN [read EXCEPT !.events = Append(@, e), !.line = <<>>]
       ELSE [read EXCEPT !.ok = FALSE, !.line = <<>>]

ReadPiece(read, piece) ==
  IF piece.part = "end" THEN EndOfLine(read)
  ELSE [read EXCEPT !.line = Append(@, piece)]

(* What has been read after each piece. *)
Reads(pieces) ==
  LET read[n \in 0 .. Len(pieces)] ==
        IF n = 0 THEN NothingRead ELSE ReadPiece(read[n - 1], pieces[n])
  IN  read

(* read_task_file: the last line counts without its end. *)
ReadTaskFile == EndOfLine(Reads(file)[Len(file)])

(* load_task: the sequences must be 1, 2, ... *)
Loads ==
  /\ ReadTaskFile.ok
  /\ \A i \in DOMAIN ReadTaskFile.events : ReadTaskFile.events[i].seq = i

ExpectedSequence ==
  LET events == ReadTaskFile.events IN
  IF events = <<>> THEN 1 ELSE events[Len(events)].seq + 1

(* Without the lock: whatever the file holds at the moment.  An error      *)
(* leaves the caller as it was.                                            *)
LoadTask(c) ==
  /\ pc[c] = "idle"
  /\ Loads
  /\ known' = [known EXCEPT ![c] = Len(ReadTaskFile.events)]
  /\ UNCHANGED <<file, synced, lock, pc, event, acked, heard, used>>

-----------------------------------------------------------------------------
(***************************************************************************)
(* append.                                                                 *)
(***************************************************************************)
CallAppend(c) ==
  /\ pc[c] = "idle"
  /\ used.appends < MaxAppends
  /\ used' = [used EXCEPT !.appends = @ + 1]
  /\ event' = [event EXCEPT ![c] = [seq |-> known[c] + 1, id |-> used'.appends]]
  /\ pc' = [pc EXCEPT ![c] = "called"]
  /\ UNCHANGED <<file, synced, lock, known, acked, heard>>

(* Mutant: appends do not wait for each other. *)
CheckWithoutLock(c) ==
  /\ pc[c] = "called"
  /\ ReadTaskFile.ok
  /\ event[c].seq = ExpectedSequence
  /\ lock' = c
  /\ pc' = [pc EXCEPT ![c] = "head"]
  /\ UNCHANGED <<file, synced, known, event, acked, heard, used>>

(* The lock is taken, the file read, and the event is the next one. *)
CheckSequence(c) ==
  /\ pc[c] = "called"
  /\ lock = Nobody
  /\ ReadTaskFile.ok
  /\ event[c].seq = ExpectedSequence
  /\ lock' = c
  /\ pc' = [pc EXCEPT ![c] = "head"]
  /\ UNCHANGED <<file, synced, known, event, acked, heard, used>>

(* The file cannot be read or the sequence is another: an error. *)
Refuse(c) ==
  /\ pc[c] = "called"
  /\ lock = Nobody
  /\ ReadTaskFile.ok => event[c].seq # ExpectedSequence
  /\ pc' = [pc EXCEPT ![c] = "idle"]
  /\ UNCHANGED <<file, synced, lock, known, event, acked, heard, used>>

After == [head |-> "tail", tail |-> "end", end |-> "sync"]

Write(c) ==
  /\ pc[c] \in DOMAIN After
  /\ file' = Append(file, Piece(pc[c], event[c]))
  /\ pc' = [pc EXCEPT ![c] = After[@]]
  /\ UNCHANGED <<synced, lock, known, event, acked, heard, used>>

(* Mutant: the append does not wait for the disk. *)
SkipSync(c) ==
  /\ pc[c] = "sync"
  /\ pc' = [pc EXCEPT ![c] = "publish"]
  /\ UNCHANGED <<file, synced, lock, known, event, acked, heard, used>>

SyncData(c) ==
  /\ pc[c] = "sync"
  /\ synced' = Len(file)
  /\ pc' = [pc EXCEPT ![c] = "publish"]
  /\ UNCHANGED <<file, lock, known, event, acked, heard, used>>

(* An I/O error at any of these points: the error is returned and what has *)
(* been written stays.                                                     *)
Fail(c) ==
  /\ pc[c] \in DOMAIN After \cup {"sync"}
  /\ used.failures < MaxFailures
  /\ used' = [used EXCEPT !.failures = @ + 1]
  /\ lock' = Nobody
  /\ pc' = [pc EXCEPT ![c] = "idle"]
  /\ UNCHANGED <<file, synced, known, event, acked, heard>>

(* Mutant: the lock is given back before the event is sent. *)
UnlockBeforeSending(c) ==
  \/ /\ pc[c] = "publish"
     /\ lock' = Nobody
     /\ pc' = [pc EXCEPT ![c] = "send"]
     /\ UNCHANGED <<file, synced, known, event, acked, heard, used>>
  \/ /\ pc[c] = "send"
     /\ heard' = Append(heard, event[c])
     /\ acked' = acked \cup {event[c]}
     /\ known' = [known EXCEPT ![c] = event[c].seq]
     /\ pc' = [pc EXCEPT ![c] = "idle"]
     /\ UNCHANGED <<file, synced, lock, event, used>>

Publish(c) ==
  /\ pc[c] = "publish"
  /\ heard' = Append(heard, event[c])
  /\ acked' = acked \cup {event[c]}
  /\ known' = [known EXCEPT ![c] = event[c].seq]
  /\ lock' = Nobody
  /\ pc' = [pc EXCEPT ![c] = "idle"]
  /\ UNCHANGED <<file, synced, event, used>>

(* The host stops: what was not synced is kept up to some point.  Callers  *)
(* and subscribers are gone.                                               *)
Crash ==
  /\ used.crashes < MaxCrashes
  /\ used' = [used EXCEPT !.crashes = @ + 1]
  /\ \E kept \in synced .. Len(file) : file' = SubSeq(file, 1, kept)
  /\ lock' = Nobody
  /\ pc' = [c \in Callers |-> "idle"]
  /\ known' = [c \in Callers |-> 0]
  /\ heard' = <<>>
  /\ UNCHANGED <<synced, event, acked>>

Next ==
  \/ Crash
  \/ \E c \in Callers :
       \/ LoadTask(c) \/ CallAppend(c) \/ CheckSequence(c) \/ Refuse(c)
       \/ Write(c) \/ SyncData(c) \/ Publish(c) \/ Fail(c)

Spec == Init /\ [][Next]_vars

-----------------------------------------------------------------------------
TypeOK ==
  /\ \A i \in DOMAIN file :
       /\ file[i].part \in {"head", "tail", "end"}
       /\ file[i].event.seq \in 1 .. MaxAppends
  /\ synced \in 0 .. Len(file)
  /\ lock \in Callers \cup {Nobody}
  /\ pc \in [Callers -> {"idle", "called", "sync", "publish"} \cup DOMAIN After]
  /\ known \in [Callers -> 0 .. MaxAppends]
  /\ \A c \in Callers : lock = c <=> pc[c] \notin {"idle", "called"}

(* Whoever can load the task sees every event an append has acknowledged:  *)
(* a damaged file is an error and never a shorter history.                 *)
LoadIsComplete ==
  Loads => acked \subseteq {ReadTaskFile.events[i] : i \in DOMAIN ReadTaskFile.events}

(* Subscribers are sent the events in the order of the stream ...          *)
HeardInOrder ==
  \A i, j \in DOMAIN heard : i < j => heard[i].seq < heard[j].seq

(* ... and only events that no crash takes back: all they have acted on    *)
(* is found by the process that comes after.                               *)
HeardIsDurable ==
  \A i \in DOMAIN heard :
    \E n \in 1 .. synced : file[n] = Piece("end", heard[i])

(* As long as nothing fails, only a load during a write can find the file  *)
(* unreadable: appends never spoil each other's lines.                     *)
OnlyFailuresDamage ==
  lock = Nobody /\ used.failures = 0 /\ used.crashes = 0 => Loads

(* ports/event_store.rs, append: an error is returned when the event       *)
(* cannot be persisted.  When an append returns Ok, the task can be read.  *)
AcknowledgedIsReadable == [][acked' # acked => Loads']_vars

=============================================================================
